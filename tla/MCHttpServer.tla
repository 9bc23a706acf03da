---------------------------- MODULE MCHttpServer ----------------------------
(* Instances of HttpServer for TLC: a delimiter of two bytes can still be  *)
(* split, and a buffer of four holds a head and a part of its body.        *)
EXTENDS HttpServer

Get == [head |-> 3, post |-> FALSE, body |-> 0, length |-> "none"]
Put == [head |-> 3, post |-> FALSE, body |-> 1, length |-> "sound"]
Post == [head |-> 3, post |-> TRUE, body |-> 2, length |-> "sound"]
Bad == [head |-> 3, post |-> TRUE, body |-> 0, length |-> "broken"]
Requests == {Get, Put, Post, Bad}
=============================================================================
