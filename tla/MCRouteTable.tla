---------------------------- MODULE MCRouteTable ----------------------------
(* Instances of RouteTable for TLC: rules of every kind over two fields,   *)
(* and every URL of at most three fields, one of them in no rule.          *)
EXTENDS RouteTable

Fields == {"a", "b", "c", "", "*"}
RuleUrls == {<<"">>, <<"*">>, <<"a">>, <<"a", "b">>, <<"a", "">>, <<"a", "*">>,
             <<"a", "b", "*">>, <<"b", "">>}
PlainUrls == {<<"a">>, <<"b">>, <<"a", "b">>}
Urls == UNION {[1..n -> {"a", "b", "c", ""}] : n \in 0..3}
=============================================================================
