----------------------------- MODULE RouteTable -----------------------------
(***************************************************************************)
(* RouteTree of mjber/http_server.h and the two calls of HttpServer that   *)
(* configure it.  A URL is the sequence of its fields, cut at "/" after    *)
(* the first character; "/" has the one field "".  The tree is a function  *)
(* from paths to handlers: a node is the path that leads to it.            *)
(***************************************************************************)
EXTENDS Naturals, Sequences

CONSTANTS Field,      \* the fields URLs are made of, "" and "*" among them
          RuleUrl,    \* the URLs rules are given for
          Handler,
          NoHandler,  \* an empty std::function
          Url,        \* the URLs that are looked up
          MaxRule     \* bound: rules of one call of setRoute

ASSUME RouteAssumption == /\ NoHandler \notin Handler
                          /\ {"", "*"} \subseteq Field
                          /\ RuleUrl \subseteq Seq(Field) \ {<<>>}
                          /\ Url \subseteq Seq(Field)
                          /\ MaxRule \in Nat

VARIABLES tree,           \* routeTable
          rules,          \* the rules it was built from, in their order
          building,       \* setRoute is at work
          defaultHandler, \* of the server
          fallback        \* defaultHandler of the table

tablevars == <<tree, rules, building, defaultHandler, fallback>>

Rule == [url : RuleUrl, handler : Handler]
Node(t) == DOMAIN t
Prefix(s, n) == SubSeq(s, 1, n)
Prefixes(url) == {Prefix(url, n) : n \in 1..Len(url)}

TableTypeOK == /\ Node(tree) \subseteq Seq(Field)
               /\ \A p \in Node(tree) : tree[p] \in Handler
               /\ rules \in Seq(Rule)
               /\ building \in BOOLEAN
               /\ defaultHandler \in Handler
               /\ fallback \in Handler \cup {NoHandler}

(* The constructor of HttpServer.                                          *)
TableInit == /\ tree = <<>>
             /\ rules = <<>>
             /\ building = FALSE
             /\ defaultHandler \in Handler
             /\ fallback = defaultHandler
-----------------------------------------------------------------------------
(* One rule goes into the tree: a node is made for every prefix of its URL *)
(* that has none, with this rule's handler; nodes that exist stay as they  *)
(* are, the last one included.                                             *)
(* Mutant: every node on the way gets the handler.                         *)
InsertOver(t, url, h) == [p \in Node(t) \cup Prefixes(url) |-> IF p \in Prefixes(url) THEN h ELSE t[p]]
Insert(t, url, h) == [p \in Node(t) \cup Prefixes(url) |-> IF p \in Node(t) THEN t[p] ELSE h]

(* setRoute makes a new table, inserts rule after rule and gives it the    *)
(* default handler.  The table it replaces is not looked at: a server is   *)
(* configured before it is set up.                                         *)
NewTable == /\ ~building /\ building' = TRUE
            /\ tree' = <<>>
            /\ rules' = <<>>
            /\ fallback' = NoHandler
            /\ UNCHANGED defaultHandler

AddRule == /\ building
           /\ Len(rules) < MaxRule
           /\ \E r \in Rule : /\ tree' = Insert(tree, r.url, r.handler)
                              /\ rules' = Append(rules, r)
           /\ UNCHANGED <<building, defaultHandler, fallback>>

Install == /\ building /\ building' = FALSE
           /\ fallback' = defaultHandler
           /\ UNCHANGED <<tree, rules, defaultHandler>>

(* HttpServer::setDefaultHandler.                                          *)
setDefaultHandler == /\ ~building
                     /\ \E h \in Handler : defaultHandler' = h /\ fallback' = h
                     /\ UNCHANGED <<tree, rules, building>>

TableNext == NewTable \/ AddRule \/ Install \/ setDefaultHandler

TableSpec == TableInit /\ [][TableNext]_tablevars
-----------------------------------------------------------------------------
(* find: at each node first the candidate, the handler of its child "",    *)
(* then its child "*", then the child for the next field.  The state of    *)
(* the loop is whether it has returned, and the answer so far.             *)
Round(url, i, s) ==
    LET here == Prefix(url, i - 1)
        candidate == IF Append(here, "") \in Node(tree) THEN tree[Append(here, "")] ELSE s.answer
    IN  IF s.done THEN s
        ELSE IF Append(here, "*") \in Node(tree)
             THEN [done |-> TRUE, answer |-> tree[Append(here, "*")]]
             ELSE [done |-> Prefix(url, i) \notin Node(tree), answer |-> candidate]

Rounds(url) ==
    LET round[i \in 0..Len(url)] ==
            IF i = 0 THEN [done |-> FALSE, answer |-> fallback] ELSE Round(url, i, round[i-1])
    IN  round

find(url) == LET last == Rounds(url)[Len(url)]
             IN  IF url # <<>> /\ ~last.done THEN tree[url] ELSE last.answer
-----------------------------------------------------------------------------
(* What the comment above RouteTreeNode says of a request, without a tree: *)
(* the handler of a rule is for its own URL; a rule "/*" on the way takes  *)
(* all below it, the nearest to the root first; a rule "/" on the way is a *)
(* candidate, the deepest the last; else the server's default handler.     *)
RulesFor(p) == {i \in 1..Len(rules) : rules[i].url = p}
At(url, n, f) == Append(Prefix(url, n), f)
RulesAt(url, f) == {n \in 0..(Len(url) - 1) : RulesFor(At(url, n, f)) # {}}
Least(S) == CHOOSE n \in S : \A m \in S : n <= m
Greatest(S) == CHOOSE n \in S : \A m \in S : n >= m
HandlerFor(p) == rules[Least(RulesFor(p))].handler

Documented(url) ==
    CASE RulesAt(url, "*") # {} -> HandlerFor(At(url, Least(RulesAt(url, "*")), "*"))
      [] RulesAt(url, "*") = {} /\ RulesFor(url) # {} -> HandlerFor(url)
      [] RulesAt(url, "*") = {} /\ RulesFor(url) = {} /\ RulesAt(url, "") # {}
           -> HandlerFor(At(url, Greatest(RulesAt(url, "")), ""))
      [] OTHER -> defaultHandler

(* The rules lead through p, and the first that does is the rule for p, or *)
(* none does.                                                              *)
Begins(i, p) == Len(p) <= Len(rules[i].url) /\ Prefix(rules[i].url, Len(p)) = p
Named(p) == \E i \in 1..Len(rules) : Begins(i, p)
OwnRuleFirst(p) == Named(p) => \E i \in RulesFor(p) : \A j \in 1..(i-1) : ~Begins(j, p)

(* The paths whose rules say where url goes.                               *)
OnTheWay(url, f) == {At(url, n, f) : n \in 0..(Len(url) - 1)}
Consulted(url) == ({url} \ {<<>>}) \cup OnTheWay(url, "") \cup OnTheWay(url, "*")

(* A request goes where the documented rules send it, whatever the order   *)
(* of setRoute, setDefaultHandler and the rules, provided that no path     *)
(* consulted for it was made a node by an earlier, longer rule             *)
(* (http_server.h:26-40, 58-126, 176, 188, 275-278).                       *)
FindFollowsRules ==
    ~building => \A url \in Url :
        (\A p \in Consulted(url) : OwnRuleFirst(p)) => find(url) = Documented(url)

(* As the comment has it, for every request: a rule is called only if the  *)
(* URL matches it completely (http_server.h:26-36).  The code gives a node *)
(* on the way the handler of the rule that made it.                        *)
FindFollowsComment == ~building => \A url \in Url : find(url) = Documented(url)
=============================================================================
