-------------------------- MODULE HttpServerProofs ---------------------------
(***************************************************************************)
(* Proofs about HttpServer: readRequest on its connections                 *)
(* (mjber/http_socket.h), for any lengths of requests, any cut of them     *)
(* into reads and any size of the buffer, and the tasks of its pool        *)
(* (mjber/http_server.h).  At the end, proofs about the route table of the *)
(* server (RouteTable), for any set of rules and any number of them.       *)
(***************************************************************************)
EXTENDS HttpServer, RouteTable, FiniteSetTheorems, SequenceTheorems, WellFoundedInduction, TLAPS

-----------------------------------------------------------------------------
(* One connection.  In the body loop content_len is at least what is still *)
(* missing, and more only where reads were ragged; before it, the end of   *)
(* the head has not been read, unless it was cut in two.                   *)
Counted(c) ==
    /\ phase[c] = "head" /\ c \notin ragged => got[c] < req[c].head
    /\ phase[c] = "body" => /\ req[c].post /\ req[c].length = "sound"
                            /\ got[c] >= req[c].head
                            /\ content[c] > 0
                            /\ content[c] >= Size(c) - got[c]
                            /\ c \notin ragged => content[c] = Size(c) - got[c]
    /\ phase[c] = "ok" => /\ got[c] >= req[c].head
                          /\ req[c].post /\ req[c].length = "sound" => got[c] = Size(c)

SocketInv == SocketTypeOK /\ \A c \in Client : Counted(c)

(* The lengths of a connection as numbers.                                 *)
LEMMA Lengths ==
    ASSUME SocketTypeOK, NEW c \in Client
    PROVE  /\ req[c].head \in Nat /\ req[c].head > Delim /\ req[c].body \in 0..SizeMax
           /\ Size(c) \in Nat /\ sent[c] \in Nat /\ got[c] \in Nat
           /\ got[c] <= sent[c] /\ sent[c] <= Size(c)
           /\ Available(c) \in Nat /\ Available(c) <= Size(c) - got[c]
           /\ Chunk(c) \in Nat /\ Chunk(c) <= Available(c)
           /\ Available(c) > 0 => Chunk(c) > 0
           /\ content[c] \in 0..SizeMax
<1>1. /\ req[c] \in Message /\ sent[c] \in Nat /\ got[c] \in Nat /\ content[c] \in 0..SizeMax
      /\ got[c] <= sent[c] /\ sent[c] <= req[c].head + req[c].body
  BY DEF SocketTypeOK
<1>2. /\ req[c].head \in Nat /\ req[c].head > Delim /\ req[c].body \in 0..SizeMax
      /\ Delim \in Nat /\ Buf \in Nat /\ Buf > 0 /\ SizeMax \in Nat
  BY <1>1, SocketAssumption DEF Message
<1> QED
  BY <1>1, <1>2 DEF Size, Available, Chunk

(* A step that leaves the other connections alone.                         *)
OnlyFor(c) == \A d \in Client \ {c} : /\ req'[d] = req[d] /\ sent'[d] = sent[d]
                                      /\ got'[d] = got[d] /\ phase'[d] = phase[d]
                                      /\ content'[d] = content[d]
                                      /\ d \in ragged' <=> d \in ragged

LEMMA OthersCounted ==
    ASSUME SocketInv, NEW c \in Client, OnlyFor(c)
    PROVE  \A d \in Client \ {c} : Counted(d)'
<1> SUFFICES ASSUME NEW d \in Client \ {c} PROVE Counted(d)'
  OBVIOUS
<1>1. Counted(d)
  BY DEF SocketInv
<1> QED
  BY <1>1 DEF OnlyFor, Counted, Size

LEMMA Together ==
    ASSUME SocketInv, NEW c \in Client, OnlyFor(c), SocketTypeOK', Counted(c)'
    PROVE  SocketInv'
BY OthersCounted DEF SocketInv
-----------------------------------------------------------------------------
LEMMA SendStep == ASSUME SocketInv, NEW c \in Client, Send(c) PROVE SocketInv'
<1> USE DEF SocketInv
<1>1. PICK n \in 1..(Size(c) - sent[c]) : sent' = [sent EXCEPT ![c] = @ + n]
  BY DEF Send
<1>2. /\ sent' \in [Client -> Nat]
      /\ \A d \in Client : got[d] <= sent'[d] /\ sent'[d] <= req[d].head + req[d].body
  BY <1>1, Lengths DEF SocketTypeOK, Size
<1>3. UNCHANGED <<req, got, closed, phase, content, ragged>>
  BY DEF Send, parser
<1>4. SocketTypeOK'
  BY <1>2, <1>3 DEF SocketTypeOK
<1>5. ASSUME NEW d \in Client PROVE Counted(d)'
  BY <1>3 DEF Counted, Size
<1> QED
  BY <1>4, <1>5

LEMMA CloseStep == ASSUME SocketInv, NEW c \in Client, Close(c) PROVE SocketInv'
<1>1. UNCHANGED <<req, sent, got, phase, content, ragged>> /\ closed' \subseteq Client
  BY DEF Close, stream, parser, SocketInv, SocketTypeOK
<1> QED
  BY <1>1 DEF SocketInv, SocketTypeOK, Counted, Size

(* What every read does to the stream.                                     *)
LEMMA ReadStream ==
    ASSUME SocketTypeOK, NEW c \in Client, got' = [got EXCEPT ![c] = @ + Chunk(c)],
           UNCHANGED <<req, sent, closed>>
    PROVE  /\ got' \in [Client -> Nat]
           /\ \A d \in Client : got'[d] <= sent'[d] /\ sent'[d] <= req'[d].head + req'[d].body
           /\ got'[c] = got[c] + Chunk(c) /\ got'[c] <= Size(c)
<1>1. got'[c] = got[c] + Chunk(c) /\ \A d \in Client \ {c} : got'[d] = got[d]
  BY DEF SocketTypeOK
<1>2. got[c] + Chunk(c) \in Nat /\ got[c] + Chunk(c) <= sent[c] /\ sent[c] <= Size(c)
  BY Lengths DEF Available
<1>3. got' \in [Client -> Nat]
  BY <1>2 DEF SocketTypeOK
<1>4. \A d \in Client : got'[d] <= sent[d] /\ sent[d] <= req[d].head + req[d].body
  BY <1>1, <1>2 DEF SocketTypeOK
<1>5. got[c] + Chunk(c) <= Size(c)
  BY <1>2, Lengths
<1> QED
  BY <1>1, <1>3, <1>4, <1>5

LEMMA ReadHeadStep == ASSUME SocketInv, NEW c \in Client, ReadHead(c) PROVE SocketInv'
<1>1. SocketTypeOK /\ Counted(c)
  BY DEF SocketInv
<1>2. /\ phase[c] = "head" /\ Available(c) > 0
      /\ got' = [got EXCEPT ![c] = @ + Chunk(c)]
      /\ UNCHANGED <<req, sent, closed>>
  BY DEF ReadHead
<1>3. /\ got' \in [Client -> Nat]
      /\ \A d \in Client : got'[d] <= sent'[d] /\ sent'[d] <= req'[d].head + req'[d].body
      /\ got'[c] = got[c] + Chunk(c) /\ got'[c] <= Size(c)
  BY <1>1, <1>2, ReadStream
<1>4. ragged' = IF Ragged(c, got[c], got'[c]) THEN ragged \cup {c} ELSE ragged
  BY DEF ReadHead
<1>5. ragged' \subseteq Client /\ (c \notin ragged' => c \notin ragged /\ ~Ragged(c, got[c], got'[c]))
  BY <1>1, <1>4 DEF SocketTypeOK
<1> DEFINE Inside == /\ HeadFoundIn(c, got[c], got'[c])
                     /\ req[c].post /\ req[c].length = "sound" /\ req[c].body > 0
                     /\ phase' = [phase EXCEPT ![c] = "body"]
                     /\ content' = [content EXCEPT ![c] = req[c].body]
           Finished == /\ HeadFoundIn(c, got[c], got'[c])
                       /\ req[c].post /\ req[c].length = "sound" => ~(req[c].body > 0)
                       /\ phase' = [phase EXCEPT ![c] = "ok"] /\ content' = content
           Thrown == /\ phase' = [phase EXCEPT ![c] = "error"] /\ content' = content
           Partial == /\ ~HeadFoundIn(c, got[c], got'[c])
                      /\ phase' = phase /\ content' = content
<1>6. Inside \/ Finished \/ Thrown \/ Partial
  <2>1. /\ IF HeadFoundIn(c, got[c], got'[c])
            THEN /\ phase' = [phase EXCEPT ![c] = AfterHead(req[c])]
                 /\ content' = [content EXCEPT ![c] = IF AfterHead(req[c]) = "body" THEN req[c].body ELSE @]
            ELSE UNCHANGED <<phase, content>>
    BY DEF ReadHead
  <2>2. \/ /\ AfterHead(req[c]) = "error"
        \/ /\ AfterHead(req[c]) = "body"
           /\ req[c].post /\ req[c].length = "sound" /\ req[c].body > 0
        \/ /\ AfterHead(req[c]) = "ok"
           /\ req[c].post /\ req[c].length = "sound" => ~(req[c].body > 0)
    BY DEF AfterHead
  <2>3. [content EXCEPT ![c] = content[c]] = content
    BY <1>1 DEF SocketTypeOK
  <2> QED
    BY <2>1, <2>2, <2>3
<1>7. OnlyFor(c)
  BY <1>1, <1>2, <1>4, <1>6 DEF OnlyFor, SocketTypeOK
<1>8. /\ req[c].head \in Nat /\ req[c].head > Delim /\ req[c].body \in 0..SizeMax
      /\ got[c] \in Nat /\ Chunk(c) \in Nat /\ got'[c] \in Nat
      /\ Size(c) = req[c].head + req[c].body /\ Delim \in Nat /\ Delim > 0 /\ SizeMax \in Nat
      /\ Size(c)' = Size(c) /\ req'[c] = req[c] /\ content[c] \in 0..SizeMax
  BY <1>1, <1>2, <1>3, Lengths, SocketAssumption DEF Size
<1>10. phase' \in [Client -> Phase] /\ content' \in [Client -> 0..SizeMax]
  BY <1>1, <1>6, <1>8 DEF SocketTypeOK, Phase
<1>11. SocketTypeOK'
  BY <1>1, <1>2, <1>3, <1>5, <1>10 DEF SocketTypeOK
<1>12. CASE Inside
  <2>1. phase'[c] = "body" /\ content'[c] = req[c].body
    BY <1>1, <1>12 DEF SocketTypeOK
  <2>2. got'[c] >= req[c].head
    BY <1>12, <1>8 DEF HeadFoundIn
  <2>3. c \notin ragged' => got'[c] = req[c].head
    BY <1>5, <1>8, <1>12, <2>2 DEF HeadFoundIn, Ragged
  <2>4. Counted(c)'
    BY <2>1, <2>2, <2>3, <1>8, <1>12 DEF Counted
  <2> QED
    BY <1>7, <1>11, <2>4, Together
<1>13. CASE Finished
  <2>1. phase'[c] = "ok"
    BY <1>1, <1>13 DEF SocketTypeOK
  <2>2. got'[c] >= req[c].head
    BY <1>13, <1>8 DEF HeadFoundIn
  <2>3. req[c].post /\ req[c].length = "sound" => got'[c] = Size(c)
    BY <1>13, <2>2, <1>3, <1>8
  <2>4. Counted(c)'
    BY <2>1, <2>2, <2>3, <1>8 DEF Counted
  <2> QED
    BY <1>7, <1>11, <2>4, Together
<1>15. CASE Thrown
  <2>1. phase'[c] = "error"
    BY <1>1, <1>15 DEF SocketTypeOK
  <2>2. Counted(c)'
    BY <2>1 DEF Counted
  <2> QED
    BY <1>7, <1>11, <2>2, Together
<1>14. CASE Partial
  <2>1. phase'[c] = "head"
    BY <1>2, <1>14
  <2>2. ASSUME c \notin ragged' PROVE got'[c] < req[c].head
    <3>1. got[c] < req[c].head
      BY <1>1, <1>2, <1>5, <2>2 DEF Counted
    <3>2. CASE got'[c] >= req[c].head
      <4>1. req[c].head - Delim >= got[c]
        BY <1>5, <1>8, <2>2, <3>1, <3>2 DEF Ragged
      <4> QED
        BY <1>8, <1>14, <3>2, <4>1 DEF HeadFoundIn
    <3> QED
      BY <1>8, <3>2
  <2>3. Counted(c)'
    BY <2>1, <2>2, <1>8 DEF Counted
  <2> QED
    BY <1>7, <1>11, <2>3, Together
<1> QED
  BY <1>6, <1>12, <1>13, <1>14, <1>15

LEMMA ReadBodyStep == ASSUME SocketInv, NEW c \in Client, ReadBody(c) PROVE SocketInv'
<1>1. SocketTypeOK /\ Counted(c)
  BY DEF SocketInv
<1>2. /\ phase[c] = "body" /\ Available(c) > 0
      /\ got' = [got EXCEPT ![c] = @ + Chunk(c)]
      /\ content' = [content EXCEPT ![c] = (@ - Chunk(c)) % (SizeMax + 1)]
      /\ phase' = [phase EXCEPT ![c] = IF content'[c] = 0 THEN "ok" ELSE "body"]
      /\ UNCHANGED <<req, sent, closed>> /\ ragged' = ragged
  BY DEF ReadBody
<1>3. /\ got' \in [Client -> Nat]
      /\ \A d \in Client : got'[d] <= sent'[d] /\ sent'[d] <= req'[d].head + req'[d].body
      /\ got'[c] = got[c] + Chunk(c) /\ got'[c] <= Size(c)
  BY <1>1, <1>2, ReadStream
<1>4. /\ got[c] \in Nat /\ Chunk(c) \in Nat /\ Size(c) \in Nat /\ content[c] \in 0..SizeMax
      /\ Chunk(c) <= Size(c) - got[c] /\ SizeMax \in Nat
  BY <1>1, <1>2, Lengths, SocketAssumption
<1>5. /\ req[c].post /\ req[c].length = "sound" /\ got[c] >= req[c].head
      /\ content[c] >= Size(c) - got[c]
      /\ c \notin ragged => content[c] = Size(c) - got[c]
  BY <1>1, <1>2 DEF Counted
(* The unsigned count does not wrap: a read brings no more than is missing. *)
<1>6. content[c] - Chunk(c) \in 0..SizeMax
  BY <1>4, <1>5
<1>7. \A x \in 0..SizeMax : x % (SizeMax + 1) = x
  BY <1>4
<1>8. content'[c] = content[c] - Chunk(c)
  BY <1>1, <1>2, <1>6, <1>7 DEF SocketTypeOK
<1>9. phase'[c] = IF content'[c] = 0 THEN "ok" ELSE "body"
  BY <1>1, <1>2 DEF SocketTypeOK
<1>10. phase' \in [Client -> Phase]
  BY <1>1, <1>2 DEF SocketTypeOK, Phase
<1>11. content' \in [Client -> 0..SizeMax]
  BY <1>1, <1>2, <1>6, <1>7 DEF SocketTypeOK
<1>12. SocketTypeOK'
  BY <1>1, <1>2, <1>3, <1>10, <1>11 DEF SocketTypeOK
<1>13. OnlyFor(c)
  BY <1>1, <1>2 DEF OnlyFor, SocketTypeOK
<1>14. Size(c)' = Size(c)
  BY <1>2 DEF Size
<1>15. /\ content'[c] >= Size(c) - got'[c]
       /\ c \notin ragged => content'[c] = Size(c) - got'[c]
  BY <1>3, <1>4, <1>5, <1>8
<1>16. content'[c] = 0 => got'[c] = Size(c)
  BY <1>3, <1>4, <1>15
<1>17. phase'[c] # "ok" => content'[c] > 0
  BY <1>6, <1>8, <1>9, <1>4
<1>18. got'[c] >= req[c].head /\ req'[c] = req[c]
  <2>1. req[c].head \in Nat
    BY <1>1, Lengths
  <2> QED
    BY <1>2, <1>3, <1>4, <1>5, <2>1
<1>19. Counted(c)'
  BY <1>2, <1>5, <1>9, <1>14, <1>15, <1>16, <1>17, <1>18 DEF Counted
<1> QED
  BY <1>12, <1>13, <1>19, Together

LEMMA ReadEndStep == ASSUME SocketInv, NEW c \in Client, ReadEnd(c) PROVE SocketInv'
<1>1. SocketTypeOK /\ Counted(c)
  BY DEF SocketInv
<1>2. PICK how \in {"eof", "error"} : phase' = [phase EXCEPT ![c] = how] /\ content' = content
  BY DEF ReadEnd, Returned
<1>3. UNCHANGED <<req, sent, got, closed, ragged>>
  BY DEF ReadEnd, stream
<1>4. SocketTypeOK'
  BY <1>1, <1>2, <1>3 DEF SocketTypeOK, Phase
<1>5. OnlyFor(c)
  BY <1>1, <1>2, <1>3 DEF OnlyFor, SocketTypeOK
<1>6. phase'[c] \in {"eof", "error"}
  BY <1>1, <1>2 DEF SocketTypeOK
<1>7. Counted(c)'
  BY <1>6 DEF Counted
<1> QED
  BY <1>4, <1>5, <1>7, Together

LEMMA NextRequestStep == ASSUME SocketInv, NEW c \in Client, NextRequest(c) PROVE SocketInv'
<1>1. SocketTypeOK
  BY DEF SocketInv
<1>2. PICK r \in Request :
            req' = [req EXCEPT ![c] = IF Unread(c) = 0 THEN r
                                      ELSE [r EXCEPT !.head = @ + Unread(c), !.post = FALSE]]
  BY DEF NextRequest
<1>3. /\ sent' = [sent EXCEPT ![c] = @ - got[c]] /\ got' = [got EXCEPT ![c] = 0]
      /\ phase' = [phase EXCEPT ![c] = "head"] /\ content' = [content EXCEPT ![c] = 0]
      /\ ragged' = ragged \ {c} /\ closed' = closed
  BY DEF NextRequest
<1>n. /\ Unread(c) \in Nat /\ sent[c] - got[c] \in Nat /\ sent[c] - got[c] <= Unread(c)
      /\ Delim \in Nat /\ Delim > 0 /\ SizeMax \in Nat
  BY <1>1, Lengths, SocketAssumption DEF Unread
<1> DEFINE m == req'[c]
<1>m. m \in Message /\ m.head \in Nat /\ m.head > Delim /\ m.head >= Unread(c) /\ m.body \in 0..SizeMax
  <2>1. /\ r \in [head : Nat, post : BOOLEAN, body : 0..SizeMax, length : {"none", "sound", "broken"}]
        /\ r.head > Delim /\ r.head \in Nat /\ r.body \in 0..SizeMax
    BY SocketAssumption
  <2>2. m = IF Unread(c) = 0 THEN r ELSE [r EXCEPT !.head = @ + Unread(c), !.post = FALSE]
    BY <1>1, <1>2 DEF SocketTypeOK
  <2>3. CASE Unread(c) = 0
    BY <1>n, <2>1, <2>2, <2>3 DEF Message
  <2>4. CASE Unread(c) # 0
    <3>1. m = [r EXCEPT !.head = r.head + Unread(c), !.post = FALSE]
      BY <2>1, <2>2, <2>4
    <3> HIDE DEF m
    <3>2. r.head + Unread(c) \in Nat /\ r.head + Unread(c) > Delim /\ r.head + Unread(c) >= Unread(c)
      BY <1>n, <2>1
    <3>3. m.head = r.head + Unread(c) /\ m.body = r.body
      BY <2>1, <3>1
    <3>4. m \in [head : Nat, post : BOOLEAN, body : 0..SizeMax, length : {"none", "sound", "broken"}]
      BY <2>1, <3>1, <3>2
    <3> QED
      BY <2>1, <3>2, <3>3, <3>4 DEF Message
  <2> QED
    BY <2>3, <2>4
<1>5. OnlyFor(c)
  BY <1>1, <1>2, <1>3 DEF OnlyFor, SocketTypeOK
<1>6. sent'[c] = sent[c] - got[c] /\ got'[c] = 0 /\ phase'[c] = "head"
  BY <1>1, <1>3 DEF SocketTypeOK
<1> HIDE DEF m
<1>q. req' \in [Client -> Message]
  <2>1. /\ DOMAIN req' = Client /\ req' = [req EXCEPT ![c] = req'[c]]
    BY <1>1, <1>2 DEF SocketTypeOK
  <2> QED
    BY <1>1, <1>m, <2>1 DEF SocketTypeOK, m
<1>7. /\ req' \in [Client -> Message] /\ sent' \in [Client -> Nat] /\ got' \in [Client -> Nat]
      /\ closed' \subseteq Client /\ phase' \in [Client -> Phase] /\ ragged' \subseteq Client
      /\ content' \in [Client -> 0..SizeMax]
  BY <1>1, <1>n, <1>q, <1>3 DEF SocketTypeOK, Phase
<1>8. ASSUME NEW d \in Client
      PROVE  got'[d] <= sent'[d] /\ sent'[d] <= req'[d].head + req'[d].body
  <2>1. CASE d = c
    BY <2>1, <1>n, <1>m, <1>6 DEF m
  <2>2. CASE d # c
    BY <2>2, <1>1, <1>5 DEF OnlyFor, SocketTypeOK
  <2> QED
    BY <2>1, <2>2
<1>9. SocketTypeOK'
  BY <1>7, <1>8 DEF SocketTypeOK
<1>10. Counted(c)'
  BY <1>n, <1>m, <1>6 DEF Counted, m
<1> QED
  BY <1>5, <1>9, <1>10, Together

LEMMA SameSocket == ASSUME SocketInv, UNCHANGED sockvars PROVE SocketInv'
<1>1. UNCHANGED <<req, sent, got, closed, phase, content, ragged>>
  BY DEF sockvars, stream, parser
<1> QED
  BY <1>1 DEF SocketInv, SocketTypeOK, Counted, Size

LEMMA SocketStart == SocketInit => SocketInv
<1> SUFFICES ASSUME SocketInit PROVE SocketInv
  OBVIOUS
<1>1. PICK r \in Request : req = [c \in Client |-> r]
  BY DEF SocketInit
<1>2. /\ r.head \in Nat /\ r.head > Delim /\ Delim \in Nat /\ r.body \in 0..SizeMax /\ SizeMax \in Nat
      /\ r \in Message
  BY SocketAssumption DEF Message
<1>3. SocketTypeOK
  BY <1>1, <1>2 DEF SocketInit, SocketTypeOK, Phase
<1>4. ASSUME NEW c \in Client PROVE Counted(c)
  BY <1>1, <1>2 DEF SocketInit, Counted
<1> QED
  BY <1>3, <1>4 DEF SocketInv
-----------------------------------------------------------------------------
(* The server: its own variables.                                          *)
ServerTypeOK == /\ backlog \in Seq(Client)
                /\ tasks \in Seq(Client \cup {Accepter, Wake})
                /\ running \in [Worker -> Client \cup {Accepter, Nobody}]
                /\ accepter \in {"new", "call", "add", "yield", "hold", "ended"}
                /\ type \in {"NONE", "WRITE"}
                /\ {watched, edge, event, missed} \subseteq BOOLEAN
                /\ job \in [Client -> {"away", "pending", "task", "ended"}]
                /\ answers \in [Client -> 0..MaxAnswer]
                /\ errors \in 0..MaxError

Inv == SocketInv /\ ServerTypeOK

LEMMA Flags ==
    {watched, edge, event, missed} \subseteq BOOLEAN
      <=> watched \in BOOLEAN /\ edge \in BOOLEAN /\ event \in BOOLEAN /\ missed \in BOOLEAN
BY Zenon

LEMMA InvInit == Init => Inv
<1> SUFFICES ASSUME Init PROVE Inv
  OBVIOUS
<1>1. ServerTypeOK
  <2>1. watched \in BOOLEAN /\ edge \in BOOLEAN /\ event \in BOOLEAN /\ missed \in BOOLEAN
    BY DEF Init
  <2>2. {watched, edge, event, missed} \subseteq BOOLEAN
    BY <2>1, Flags
  <2> QED
    BY <2>2, ServerAssumption DEF Init, ServerTypeOK
<1> QED
  BY <1>1, SocketStart DEF Init, Inv

(* The flags of the event loop stay flags.                                 *)
LEMMA FlagsStep == Inv /\ [Next]_vars => ({watched, edge, event, missed} \subseteq BOOLEAN)'
<1> SUFFICES ASSUME Inv, [Next]_vars
             PROVE  /\ watched' \in BOOLEAN /\ edge' \in BOOLEAN
                    /\ event' \in BOOLEAN /\ missed' \in BOOLEAN
  BY Zenon
<1>1. watched \in BOOLEAN /\ edge \in BOOLEAN /\ event \in BOOLEAN /\ missed \in BOOLEAN
  BY Flags DEF Inv, ServerTypeOK
<1>2. CASE UNCHANGED vars
  BY <1>1, <1>2 DEF vars, srvvars, loopVars
<1>3. ASSUME NEW c \in Client, Connect(c)
      PROVE  watched' \in BOOLEAN /\ edge' \in BOOLEAN /\ event' \in BOOLEAN /\ missed' \in BOOLEAN
  BY <1>1, <1>3 DEF Connect
<1>4. ASSUME NEW c \in Client, ClientSends(c) \/ ClientCloses(c) \/ JobReads(c)
      PROVE  watched' \in BOOLEAN /\ edge' \in BOOLEAN /\ event' \in BOOLEAN /\ missed' \in BOOLEAN
  BY <1>1, <1>4 DEF ClientSends, ClientCloses, JobReads, srvvars, loopVars
<1>5. ASSUME NEW w \in Worker, Dispatch(w)
      PROVE  watched' \in BOOLEAN /\ edge' \in BOOLEAN /\ event' \in BOOLEAN /\ missed' \in BOOLEAN
  BY <1>1, <1>5 DEF Dispatch, Starts, Resumes, loopVars
<1>6. ASSUME NEW w \in Worker,
             Accept(w) \/ NothingPending(w) \/ AddEvent(w) \/ Yield(w) \/ AcceptFails(w)
      PROVE  watched' \in BOOLEAN /\ edge' \in BOOLEAN /\ event' \in BOOLEAN /\ missed' \in BOOLEAN
  BY <1>1, <1>6 DEF Accept, NothingPending, AddEvent, Yield, AcceptFails, loopVars
<1>7. ASSUME NEW w \in Worker, NEW c \in Client,
             Respond(w, c) \/ HandlerThrows(w, c) \/ WriteFails(w, c) \/ Disconnect(w, c)
      PROVE  watched' \in BOOLEAN /\ edge' \in BOOLEAN /\ event' \in BOOLEAN /\ missed' \in BOOLEAN
  BY <1>1, <1>7 DEF Respond, HandlerThrows, WriteFails, Disconnect, JobEnds, loopVars
<1>8. CASE EpollWait
  BY <1>1, <1>8 DEF EpollWait
<1>9. CASE EpollRun
  <2>1. missed' = missed \/ missed' = (missed \/ (accepter = "add" /\ backlog # <<>> /\ ~edge))
    BY <1>9 DEF EpollRun, TooSoon
  <2>2. missed' \in BOOLEAN
    BY <1>1, <2>1
  <2> QED
    BY <1>1, <1>9, <2>2 DEF EpollRun
<1> QED
  BY <1>2, <1>3, <1>4, <1>5, <1>6, <1>7, <1>8, <1>9 DEF Next, Work

LEMMA InvStep == Inv /\ [Next]_vars => Inv'
<1> SUFFICES ASSUME Inv, [Next]_vars PROVE Inv'
  OBVIOUS
<1> DEFINE Kept == /\ backlog' \in Seq(Client)
                   /\ tasks' \in Seq(Client \cup {Accepter, Wake})
                   /\ running' \in [Worker -> Client \cup {Accepter, Nobody}]
                   /\ accepter' \in {"new", "call", "add", "yield", "hold", "ended"}
                   /\ type' \in {"NONE", "WRITE"}
                   /\ job' \in [Client -> {"away", "pending", "task", "ended"}]
                   /\ answers' \in [Client -> 0..MaxAnswer]
                   /\ errors' \in 0..MaxError
<1> USE DEF Inv
<1>1. CASE UNCHANGED vars
  BY <1>1, SameSocket DEF vars, srvvars, loopVars, ServerTypeOK
<1>2. ASSUME NEW c \in Client, Connect(c) PROVE SocketInv' /\ Kept
  BY <1>2, SameSocket DEF Connect, ServerTypeOK
<1>3. ASSUME NEW c \in Client, ClientSends(c) \/ ClientCloses(c) PROVE SocketInv' /\ Kept
  BY <1>3, SendStep, CloseStep DEF ClientSends, ClientCloses, srvvars, loopVars, ServerTypeOK
<1>4. ASSUME NEW c \in Client, JobReads(c) PROVE SocketInv' /\ Kept
  <2>1. SocketInv'
    BY <1>4, ReadHeadStep, ReadBodyStep, ReadEndStep DEF JobReads, Read
  <2> QED
    BY <1>4, <2>1 DEF JobReads, srvvars, loopVars, ServerTypeOK
<1>5. ASSUME NEW w \in Worker, Dispatch(w) PROVE SocketInv' /\ Kept
  <2>1. /\ Head(tasks) \in Client \cup {Accepter, Wake}
        /\ Tail(tasks) \in Seq(Client \cup {Accepter, Wake})
    BY <1>5 DEF Dispatch, ServerTypeOK
  <2> QED
    BY <1>5, <2>1, SameSocket DEF Dispatch, Starts, Resumes, loopVars, ServerTypeOK
<1>6. ASSUME NEW w \in Worker, Accept(w) PROVE SocketInv' /\ Kept
  <2>1. Head(backlog) \in Client /\ Tail(backlog) \in Seq(Client)
    BY <1>6 DEF Accept, ServerTypeOK
  <2>2. Append(tasks, Head(backlog)) \in Seq(Client \cup {Accepter, Wake})
    BY <2>1 DEF ServerTypeOK
  <2> QED
    BY <1>6, <2>1, <2>2, SameSocket DEF Accept, loopVars, ServerTypeOK
<1>7. ASSUME NEW w \in Worker, NothingPending(w) \/ AddEvent(w) \/ Yield(w)
      PROVE  SocketInv' /\ Kept
  BY <1>7, SameSocket DEF NothingPending, AddEvent, Yield, Leave, loopVars, ServerTypeOK
<1>8. ASSUME NEW w \in Worker, AcceptFails(w) PROVE SocketInv' /\ Kept
  <2>1. errors + 1 \in 0..MaxError
    BY <1>8, ServerAssumption DEF AcceptFails, ServerTypeOK
  <2> QED
    BY <1>8, <2>1, SameSocket DEF AcceptFails, Leave, loopVars, ServerTypeOK
<1>9. ASSUME NEW w \in Worker, NEW c \in Client, JobEnds(w, c) PROVE SocketInv' /\ Kept
  BY <1>9, SameSocket DEF JobEnds, Leave, loopVars, ServerTypeOK
<1>10. ASSUME NEW w \in Worker, NEW c \in Client, Respond(w, c) PROVE SocketInv' /\ Kept
  <2>1. /\ answers[c] < MaxAnswer
        /\ answers' = [answers EXCEPT ![c] = @ + 1]
        /\ NextRequest(c)
        /\ UNCHANGED <<backlog, tasks, running, accepter, type, job, errors>>
    BY <1>10 DEF Respond, loopVars
  <2>2. answers[c] + 1 \in 0..MaxAnswer
    BY <2>1, ServerAssumption DEF ServerTypeOK
  <2> QED
    BY <2>1, <2>2, NextRequestStep DEF ServerTypeOK
<1>11. ASSUME NEW w \in Worker, NEW c \in Client,
              HandlerThrows(w, c) \/ WriteFails(w, c) \/ Disconnect(w, c)
       PROVE  SocketInv' /\ Kept
  BY <1>9, <1>11 DEF HandlerThrows, WriteFails, Disconnect
<1>12. CASE EpollWait
  <2>1. SocketInv' /\ Kept
    BY <1>12, SameSocket DEF EpollWait, ServerTypeOK
  <2> QED
    BY <2>1, FlagsStep DEF ServerTypeOK
<1>13. CASE EpollRun
  <2>1. Append(tasks, Wake) \in Seq(Client \cup {Accepter, Wake})
    BY DEF ServerTypeOK
  <2>2. SocketInv' /\ Kept
    BY <1>13, <2>1, SameSocket DEF EpollRun, ServerTypeOK
  <2> QED
    BY <2>2, FlagsStep DEF ServerTypeOK
<1>14. SocketInv' /\ Kept => Inv'
  BY FlagsStep DEF ServerTypeOK
<1> HIDE DEF Kept
<1> QED
  BY <1>1, <1>2, <1>3, <1>4, <1>5, <1>6, <1>7, <1>8, <1>10, <1>11, <1>12, <1>13, <1>14
     DEF Next, Work

(* The inductive invariant of the server and its connections: what is      *)
(* left of content_len and where the end of the head can be.               *)
THEOREM Invariance == Spec => []Inv
BY InvInit, InvStep, PTL DEF Spec

(* The types hold, among them that the server never reads more of a        *)
(* request than its client has sent (http_socket.h:240-270).               *)
THEOREM TypeCorrect == Spec => []TypeOK
<1>1. Inv => TypeOK
  BY DEF Inv, SocketInv, ServerTypeOK, TypeOK
<1> QED
  BY <1>1, Invariance, PTL

(* readRequest returns no request without its head, and no POST with a     *)
(* Content-Length without its body; what it counts as missing of a body is *)
(* never less than is missing, so that the unsigned count does not wrap    *)
(* (http_socket.h:230-285).  Of other requests the body stays unread.      *)
THEOREM NoPartialRequest == Spec => []AnswersWholeRequests
<1>1. Inv => AnswersWholeRequests
  BY DEF Inv, SocketInv, Counted, AnswersWholeRequests, Unread
<1> QED
  BY <1>1, Invariance, PTL

(* readRequest never waits for more than a request has, except where it    *)
(* was read in pieces that the code does not put together                  *)
(* (http_socket.h:253-273).                                                *)
THEOREM NoNeedlessRead == Spec => []WholeRequestsAnswered
<1>1. Inv => WholeRequestsAnswered
  <2> SUFFICES ASSUME Inv, NEW c \in Client \ ragged, got[c] = Size(c)
               PROVE  phase[c] \notin {"head", "body"}
    BY DEF WholeRequestsAnswered
  <2>1. SocketTypeOK /\ Counted(c)
    BY DEF Inv, SocketInv
  <2>2. req[c].head <= Size(c) /\ Size(c) \in Nat /\ req[c].head \in Nat
    BY <2>1, Lengths, SocketAssumption DEF Size
  <2> QED
    BY <2>1, <2>2 DEF Counted
<1> QED
  BY <1>1, Invariance, PTL
-----------------------------------------------------------------------------
(* The tasks of the pool.  Every task is queued once, and no thread runs   *)
(* what is queued; the accepter is queued until it starts, and runs while  *)
(* it does not wait; a resume task is queued only while the accepter       *)
(* waits, and then its type has been reset; a connection is one task while *)
(* its job says so, and the backlog holds connections that were none yet.  *)
Once(q) == \A i, j \in 1..Len(q) : q[i] = q[j] => i = j
In(q, x) == \E i \in 1..Len(q) : q[i] = x
Runs(x) == \E w \in Worker : running[w] = x
Waits == accepter \in {"yield", "hold"}

Separate == /\ Once(tasks) /\ Once(backlog)
            /\ \A v, w \in Worker : running[v] = running[w] /\ running[w] # Nobody => v = w
            /\ \A w \in Worker : ~In(tasks, running[w])
Recorded == /\ accepter = "new" <=> In(tasks, Accepter)
            /\ accepter \in {"call", "add", "yield"} <=> Runs(Accepter)
            /\ In(tasks, Wake) => type = "NONE" /\ Waits
            /\ type # "NONE" => Waits
            /\ \A c \in Client : job[c] = "task" <=> In(tasks, c) \/ Runs(c)
            /\ \A c \in Client : In(backlog, c) => job[c] = "pending"

TaskInv == Separate /\ Recorded

(* A queue that gets an element more, or loses its front.                  *)
LEMMA PutLast ==
    ASSUME NEW S, NEW q \in Seq(S), NEW x \in S, ~In(q, x)
    PROVE  /\ Once(q) => Once(Append(q, x))
           /\ \A y : In(Append(q, x), y) <=> In(q, y) \/ y = x
<1> DEFINE a == Append(q, x)
<1>1. /\ Len(q) \in Nat /\ Len(a) = Len(q) + 1 /\ a[Len(q) + 1] = x
      /\ \A i \in 1..Len(q) : a[i] = q[i]
  BY AppendProperties, LenProperties
<1> HIDE DEF a
<1>2. \A i \in 1..Len(a) : i \in 1..Len(q) \/ i = Len(q) + 1
  BY <1>1
<1>3. Once(q) => Once(a)
  BY <1>1, <1>2 DEF Once, In
<1>4. \A y : In(a, y) <=> In(q, y) \/ y = x
  BY <1>1, <1>2 DEF In
<1> QED
  BY <1>3, <1>4 DEF a

LEMMA TakeFirst ==
    ASSUME NEW S, NEW q \in Seq(S), q # <<>>, Once(q)
    PROVE  /\ Once(Tail(q)) /\ In(q, Head(q)) /\ Head(q) \in S
           /\ \A y : In(Tail(q), y) <=> In(q, y) /\ y # Head(q)
<1>1. /\ Len(q) \in Nat /\ Len(q) > 0 /\ Head(q) = q[1] /\ Head(q) \in S
      /\ Len(Tail(q)) = Len(q) - 1
      /\ \A i \in 1..Len(Tail(q)) : Tail(q)[i] = q[i + 1]
  BY HeadTailProperties, EmptySeq
<1>2. Once(Tail(q)) /\ In(q, Head(q))
  BY <1>1 DEF Once, In
<1>3. ASSUME NEW y, In(Tail(q), y) PROVE In(q, y) /\ y # Head(q)
  BY <1>1, <1>3 DEF Once, In
<1>4. ASSUME NEW y, In(q, y), y # Head(q) PROVE In(Tail(q), y)
  <2>1. PICK i \in 1..Len(q) : q[i] = y
    BY <1>4 DEF In
  <2>2. i - 1 \in 1..Len(Tail(q)) /\ Tail(q)[i - 1] = y
    BY <1>1, <1>4, <2>1
  <2> QED
    BY <2>2 DEF In
<1> QED
  BY <1>1, <1>2, <1>3, <1>4

(* The names of the tasks are different.                                   *)
LEMMA Names ==
    /\ Accepter # Nobody /\ Wake # Accepter /\ Wake # Nobody
    /\ \A c \in Client : c # Accepter /\ c # Nobody /\ c # Wake
<1>1. {Accepter, Wake, Nobody} \cap Client = {} /\ Cardinality({Accepter, Wake, Nobody}) = 3
  BY ServerAssumption
<1>2. \A x, y : Cardinality({x, y}) <= 2
  <2> SUFFICES ASSUME NEW x, NEW y PROVE Cardinality({x, y}) <= 2
    OBVIOUS
  <2>1. IsFiniteSet({x}) /\ Cardinality({x}) = 1
    BY FS_Singleton
  <2>2. Cardinality({x} \cup {y}) = IF y \in {x} THEN Cardinality({x}) ELSE Cardinality({x}) + 1
    BY <2>1, FS_AddElement
  <2>3. {x} \cup {y} = {x, y}
    OBVIOUS
  <2> QED
    BY <2>1, <2>2, <2>3
<1>3. Accepter # Nobody
  <2> SUFFICES ASSUME Accepter = Nobody PROVE FALSE
    OBVIOUS
  <2>1. {Accepter, Wake, Nobody} = {Wake, Nobody}
    OBVIOUS
  <2>2. Cardinality({Wake, Nobody}) = 3
    BY <1>1, <2>1, Zenon
  <2>3. Cardinality({Wake, Nobody}) <= 2
    BY <1>2, Zenon
  <2> QED
    BY <2>2, <2>3
<1>4. Wake # Accepter
  <2> SUFFICES ASSUME Wake = Accepter PROVE FALSE
    OBVIOUS
  <2>1. {Accepter, Wake, Nobody} = {Accepter, Nobody}
    OBVIOUS
  <2>2. Cardinality({Accepter, Nobody}) = 3
    BY <1>1, <2>1, Zenon
  <2>3. Cardinality({Accepter, Nobody}) <= 2
    BY <1>2, Zenon
  <2> QED
    BY <2>2, <2>3
<1>5. Wake # Nobody
  <2> SUFFICES ASSUME Wake = Nobody PROVE FALSE
    OBVIOUS
  <2>1. {Accepter, Wake, Nobody} = {Accepter, Wake}
    OBVIOUS
  <2>2. Cardinality({Accepter, Wake}) = 3
    BY <1>1, <2>1, Zenon
  <2>3. Cardinality({Accepter, Wake}) <= 2
    BY <1>2, Zenon
  <2> QED
    BY <2>2, <2>3
<1> QED
  BY <1>1, <1>3, <1>4, <1>5

(* A thread that leaves what it runs.                                      *)
LEMMA LeaveRuns ==
    ASSUME ServerTypeOK, Separate, NEW w \in Worker, running[w] # Nobody, Leave(w), tasks' = tasks
    PROVE  /\ \A x : x # Nobody => ((\E v \in Worker : running'[v] = x)
                                      <=> Runs(x) /\ x # running[w])
           /\ \A u, v \in Worker : running'[u] = running'[v] /\ running'[v] # Nobody => u = v
           /\ \A v \in Worker : ~In(tasks', running'[v])
<1>1. running' = [running EXCEPT ![w] = Nobody]
  BY DEF Leave
<1>2. running'[w] = Nobody /\ \A v \in Worker \ {w} : running'[v] = running[v]
  BY <1>1 DEF ServerTypeOK
<1>3. \A v \in Worker \ {w} : running[v] # running[w]
  BY DEF Separate
<1>4. ~In(tasks, Nobody)
  BY Names, ElementOfSeq DEF ServerTypeOK, In
<1>5. \A v \in Worker : ~In(tasks', running'[v])
  BY <1>2, <1>4 DEF Separate, In
<1> QED
  BY <1>2, <1>3, <1>5 DEF Separate, Runs

(* A thread that runs nothing begins x, which is not queued (any more).    *)
LEMMA BeginRuns ==
    ASSUME ServerTypeOK, Separate, NEW w \in Worker, running[w] = Nobody, NEW x, x # Nobody,
           ~Runs(x), running' = [running EXCEPT ![w] = x],
           ~In(tasks', x), \A y : In(tasks', y) => In(tasks, y)
    PROVE  /\ \A y : y # Nobody => ((\E v \in Worker : running'[v] = y) <=> Runs(y) \/ y = x)
           /\ \A u, v \in Worker : running'[u] = running'[v] /\ running'[v] # Nobody => u = v
           /\ \A v \in Worker : ~In(tasks', running'[v])
<1>1. running'[w] = x /\ \A v \in Worker \ {w} : running'[v] = running[v]
  BY DEF ServerTypeOK
<1>2. \A v \in Worker : running[v] # x
  BY DEF Runs
<1>3. \A v \in Worker : ~In(tasks', running'[v])
  BY <1>1 DEF Separate
<1> QED
  BY <1>1, <1>2, <1>3 DEF Separate, Runs

LEMMA TaskInit == Init => TaskInv
<1> SUFFICES ASSUME Init PROVE TaskInv
  OBVIOUS
<1>1. /\ tasks = <<Accepter>> /\ backlog = <<>> /\ Len(tasks) = 1 /\ Len(backlog) = 0
      /\ \A w \in Worker : running[w] = Nobody
      /\ accepter = "new" /\ type = "NONE" /\ \A c \in Client : job[c] = "away"
  BY DEF Init
<1>2. tasks[1] = Accepter
  BY <1>1
<1>3. /\ \A x : In(tasks, x) <=> x = Accepter
      /\ \A x : ~In(backlog, x)
      /\ \A x : Runs(x) => x = Nobody
  BY <1>1, <1>2 DEF In, Runs
<1>4. Accepter # Nobody /\ Wake # Accepter /\ \A c \in Client : c # Accepter /\ c # Nobody
  BY Names
<1>5. Separate
  BY <1>1, <1>3, <1>4 DEF Separate, Once
<1>6. Recorded
  BY <1>1, <1>3, <1>4 DEF Recorded
<1> QED
  BY <1>5, <1>6 DEF TaskInv

(* A task that is neither queued nor run joins the queue.                  *)
LEMMA EnqueueStep ==
    ASSUME ServerTypeOK, Separate, NEW x \in Client \cup {Accepter, Wake}, ~In(tasks, x), ~Runs(x),
           tasks' = Append(tasks, x), running' = running
    PROVE  /\ \A y : In(tasks', y) <=> In(tasks, y) \/ y = x
           /\ Once(tasks')
           /\ \A w \in Worker : ~In(tasks', running'[w])
<1>1. tasks \in Seq(Client \cup {Accepter, Wake}) /\ Once(tasks)
  BY DEF ServerTypeOK, Separate
<1>2. Once(tasks') /\ \A y : In(tasks', y) <=> In(tasks, y) \/ y = x
  BY <1>1, PutLast
<1>3. \A w \in Worker : running'[w] # x
  BY DEF Runs
<1> QED
  BY <1>2, <1>3 DEF Separate

LEMMA TaskStep == ServerTypeOK /\ TaskInv /\ [Next]_vars => TaskInv'
<1> SUFFICES ASSUME ServerTypeOK, TaskInv, [Next]_vars PROVE TaskInv'
  OBVIOUS
<1>0. Separate /\ Recorded
  BY DEF TaskInv
<1>1. ASSUME UNCHANGED <<backlog, tasks, running, accepter, type, job>> PROVE TaskInv'
  BY <1>1 DEF TaskInv, Separate, Recorded, Waits, Once, In, Runs
<1>2. /\ Accepter # Nobody /\ Wake # Accepter /\ Wake # Nobody
      /\ \A c \in Client : c # Accepter /\ c # Nobody /\ c # Wake
  BY Names
<1>3. ASSUME NEW c \in Client, Connect(c) PROVE TaskInv'
  <2>1. /\ job[c] = "away" /\ job' = [job EXCEPT ![c] = "pending"]
        /\ backlog' = Append(backlog, c) /\ UNCHANGED <<tasks, running, accepter, type>>
    BY <1>3 DEF Connect
  <2>2. ~In(backlog, c) /\ backlog \in Seq(Client) /\ Once(backlog)
    BY <2>1 DEF TaskInv, Recorded, Separate, ServerTypeOK
  <2>3. Once(backlog') /\ \A y : In(backlog', y) <=> In(backlog, y) \/ y = c
    BY <2>1, <2>2, PutLast
  <2>4. Separate'
    BY <1>0, <2>1, <2>3 DEF Separate, Once, In
  <2>5. \A d \in Client : /\ job'[d] = "task" <=> job[d] = "task"
                          /\ job'[d] = "pending" <=> job[d] = "pending" \/ d = c
    BY <2>1 DEF ServerTypeOK
  <2>6. Recorded'
    BY <1>0, <2>1, <2>3, <2>5 DEF Recorded, Runs, In, Waits
  <2> QED
    BY <2>4, <2>6 DEF TaskInv
<1>4. ASSUME NEW w \in Worker, Dispatch(w) PROVE TaskInv'
  <2>1. /\ running[w] = Nobody /\ tasks # <<>> /\ tasks' = Tail(tasks)
        /\ UNCHANGED <<backlog, type, job>>
    BY <1>4 DEF Dispatch, loopVars
  <2> DEFINE h == Head(tasks)
  <2>2. tasks \in Seq(Client \cup {Accepter, Wake}) /\ Once(tasks)
    BY <1>0 DEF ServerTypeOK, Separate
  <2>3. /\ Once(tasks') /\ In(tasks, h) /\ h \in Client \cup {Accepter, Wake}
        /\ \A y : In(tasks', y) <=> In(tasks, y) /\ y # h
    BY <2>1, <2>2, TakeFirst
  <2>4. IF h = Wake THEN Resumes(w) ELSE Starts(w)
    BY <1>4 DEF Dispatch
  <2>5. CASE h # Wake
    <3>1. /\ running' = [running EXCEPT ![w] = h]
          /\ accepter' = IF h = Accepter THEN "call" ELSE accepter
      BY <2>4, <2>5 DEF Starts
    <3> HIDE DEF h
    <3>2. h # Nobody /\ ~Runs(h) /\ ~In(tasks', h) /\ \A y : In(tasks', y) => In(tasks, y)
      BY <1>0, <1>2, <2>3 DEF Separate, Runs
    <3>3. /\ \A y : y # Nobody => ((\E v \in Worker : running'[v] = y) <=> Runs(y) \/ y = h)
          /\ \A u, v \in Worker : running'[u] = running'[v] /\ running'[v] # Nobody => u = v
          /\ \A v \in Worker : ~In(tasks', running'[v])
      BY <1>0, <2>1, <3>1, <3>2, BeginRuns
    <3>4. Separate'
      BY <1>0, <2>1, <2>3, <3>3 DEF Separate, Once, In
    <3>5. Recorded'
      <4>1. /\ accepter' = "new" <=> In(tasks', Accepter)
            /\ accepter' \in {"call", "add", "yield"} <=> \E v \in Worker : running'[v] = Accepter
        <5>1. CASE h = Accepter
          BY <1>2, <2>3, <3>1, <3>3, <5>1
        <5>2. CASE h # Accepter
          BY <1>0, <1>2, <2>3, <3>1, <3>3, <5>2 DEF Recorded
        <5> QED
          BY <5>1, <5>2
      <4>2. accepter = "new" => ~Waits
        BY DEF Waits
      <4>3. /\ In(tasks', Wake) => type' = "NONE" /\ Waits'
            /\ type' # "NONE" => Waits'
        <5>1. h = Accepter => ~Waits
          BY <1>0, <2>3, <4>2 DEF Recorded
        <5> QED
          BY <1>0, <2>1, <2>3, <3>1, <5>1 DEF Recorded, Waits
      <4>4. \A c \in Client : job'[c] = "task" <=> In(tasks', c) \/ \E v \in Worker : running'[v] = c
        BY <1>0, <1>2, <2>1, <2>3, <3>3 DEF Recorded
      <4>5. \A c \in Client : In(backlog', c) => job'[c] = "pending"
        BY <1>0, <2>1 DEF Recorded
      <4> QED
        BY <4>1, <4>3, <4>4, <4>5 DEF Recorded, Runs, In
    <3> QED
      BY <3>4, <3>5 DEF TaskInv
  <2>6. CASE h = Wake
    <3>1. Resumes(w)
      BY <2>4, <2>6
    <3> HIDE DEF h
    <3>2. type = "NONE" /\ Waits /\ ~In(tasks', Wake) /\ \A y : In(tasks', y) <=> In(tasks, y) /\ y # Wake
      BY <1>0, <2>3, <2>6 DEF Recorded
    <3>3. CASE accepter = "hold"
      <4>1. running' = [running EXCEPT ![w] = Accepter] /\ accepter' = "call"
        BY <3>1, <3>3 DEF Resumes
      <4>2. ~Runs(Accepter) /\ ~In(tasks, Accepter)
        BY <1>0, <3>3 DEF Recorded
      <4>3. /\ \A y : y # Nobody => ((\E v \in Worker : running'[v] = y) <=> Runs(y) \/ y = Accepter)
            /\ \A u, v \in Worker : running'[u] = running'[v] /\ running'[v] # Nobody => u = v
            /\ \A v \in Worker : ~In(tasks', running'[v])
        BY <1>0, <1>2, <2>1, <3>2, <4>1, <4>2, BeginRuns
      <4>4. Separate'
        BY <1>0, <2>1, <2>3, <4>3 DEF Separate, Once, In
      <4>5. \A c \in Client : job'[c] = "task" <=> In(tasks', c) \/ \E v \in Worker : running'[v] = c
        BY <1>0, <1>2, <2>1, <3>2, <4>3 DEF Recorded
      <4>6. \E v \in Worker : running'[v] = Accepter
        BY <1>2, <4>3
      <4>7. /\ type' = "NONE" /\ ~In(tasks', Accepter) /\ ~In(tasks', Wake)
            /\ \A c \in Client : In(backlog', c) => job'[c] = "pending"
        BY <1>0, <2>1, <3>2, <4>2 DEF Recorded
      <4>8. Recorded'
        BY <4>1, <4>5, <4>6, <4>7 DEF Recorded, Runs, In
      <4> QED
        BY <4>4, <4>8 DEF TaskInv
    <3>4. CASE accepter # "hold"
      <4>1. UNCHANGED <<running, accepter>>
        BY <3>1, <3>4 DEF Resumes
      <4>2. Separate'
        BY <1>0, <2>1, <2>3, <4>1 DEF Separate, Once, In
      <4>3. \A x : x # Wake => (In(tasks', x) <=> In(tasks, x))
        BY <3>2
      <4>4. \A c \in Client : job'[c] = "task" <=> In(tasks', c) \/ \E v \in Worker : running'[v] = c
        BY <1>0, <1>2, <2>1, <4>1, <4>3 DEF Recorded, Runs
      <4>5. /\ accepter' \in {"call", "add", "yield"} <=> \E v \in Worker : running'[v] = Accepter
            /\ accepter' = "new" <=> In(tasks', Accepter)
            /\ ~In(tasks', Wake) /\ type' = "NONE"
            /\ \A c \in Client : In(backlog', c) => job'[c] = "pending"
        BY <1>0, <1>2, <2>1, <3>2, <4>1, <4>3 DEF Recorded, Runs
      <4>6. Recorded'
        BY <4>4, <4>5 DEF Recorded, Runs, In
      <4> QED
        BY <4>2, <4>6 DEF TaskInv
    <3> QED
      BY <3>3, <3>4
  <2> QED
    BY <2>5, <2>6
<1>5. ASSUME NEW w \in Worker, Accept(w) PROVE TaskInv'
  <2> DEFINE c == Head(backlog)
  <2>1. /\ backlog # <<>> /\ backlog' = Tail(backlog) /\ tasks' = Append(tasks, c)
        /\ job' = [job EXCEPT ![c] = "task"] /\ UNCHANGED <<running, accepter, type>>
    BY <1>5 DEF Accept, loopVars
  <2>2. backlog \in Seq(Client) /\ Once(backlog)
    BY <1>0 DEF ServerTypeOK, Separate
  <2>3. /\ Once(backlog') /\ In(backlog, c) /\ c \in Client
        /\ \A y : In(backlog', y) <=> In(backlog, y) /\ y # c
    BY <2>1, <2>2, TakeFirst
  <2> HIDE DEF c
  <2>4. job[c] = "pending" /\ ~In(tasks, c) /\ ~Runs(c)
    BY <1>0, <2>3 DEF Recorded
  <2>5. /\ \A y : In(tasks', y) <=> In(tasks, y) \/ y = c
        /\ Once(tasks') /\ \A v \in Worker : ~In(tasks', running'[v])
    BY <1>0, <2>1, <2>3, <2>4, EnqueueStep
  <2>6. Separate'
    BY <1>0, <2>1, <2>3, <2>5 DEF Separate, Once, In
  <2>7. job'[c] = "task" /\ \A d \in Client \ {c} : job'[d] = job[d]
    BY <2>1, <2>3 DEF ServerTypeOK
  <2>8. \A d \in Client : job'[d] = "task" <=> In(tasks', d) \/ \E v \in Worker : running'[v] = d
    BY <1>0, <2>1, <2>5, <2>7 DEF Recorded, Runs
  <2>9. \A d \in Client : In(backlog', d) => job'[d] = "pending"
    BY <1>0, <2>1, <2>3, <2>7 DEF Recorded
  <2>10. /\ accepter' \in {"call", "add", "yield"} <=> \E v \in Worker : running'[v] = Accepter
         /\ accepter' = "new" <=> In(tasks', Accepter)
         /\ In(tasks', Wake) => type' = "NONE" /\ Waits'
         /\ type' # "NONE" => Waits'
    BY <1>0, <1>2, <2>1, <2>3, <2>5 DEF Recorded, Runs, Waits
  <2>11. Recorded'
    BY <2>8, <2>9, <2>10 DEF Recorded, In, Runs
  <2> QED
    BY <2>6, <2>11 DEF TaskInv
<1>6. ASSUME NEW w \in Worker, NothingPending(w) \/ AddEvent(w) PROVE TaskInv'
  <2>1. /\ running[w] = Accepter /\ accepter \in {"call", "add"} /\ accepter' \in {"add", "yield"}
        /\ accepter' = "add" => type' = type /\ type' \in {"NONE", "WRITE"}
        /\ UNCHANGED <<tasks, backlog, running, job>>
    BY <1>6 DEF NothingPending, AddEvent, Accepting, loopVars, ServerTypeOK
  <2>2. Separate'
    BY <1>0, <2>1 DEF Separate, Once, In
  <2>3. ~In(tasks, Wake) /\ ~In(tasks, Accepter) /\ type = "NONE" /\ Runs(Accepter)
    BY <1>0, <2>1 DEF Recorded, Waits
  <2>4. type' # "NONE" => accepter' = "yield"
    BY <2>1, <2>3
  <2>5. Recorded'
    BY <1>0, <2>1, <2>3, <2>4 DEF Recorded, Runs, In, Waits
  <2> QED
    BY <2>2, <2>5 DEF TaskInv
<1>7. ASSUME NEW w \in Worker, Yield(w) \/ AcceptFails(w) PROVE TaskInv'
  <2>1. /\ running[w] = Accepter /\ Leave(w)
        /\ \/ accepter = "yield" /\ accepter' = "hold"
           \/ accepter = "call" /\ accepter' = "ended"
        /\ UNCHANGED <<tasks, backlog, job, type>>
    BY <1>7 DEF Yield, AcceptFails, Accepting, loopVars
  <2>2. /\ \A x : x # Nobody => ((\E v \in Worker : running'[v] = x)
                                   <=> Runs(x) /\ x # Accepter)
        /\ \A u, v \in Worker : running'[u] = running'[v] /\ running'[v] # Nobody => u = v
        /\ \A v \in Worker : ~In(tasks', running'[v])
    BY <1>0, <1>2, <2>1, LeaveRuns
  <2>3. Separate'
    BY <1>0, <2>1, <2>2 DEF Separate, Once, In
  <2>4. \A c \in Client : job'[c] = "task" <=> In(tasks', c) \/ \E v \in Worker : running'[v] = c
    BY <1>0, <1>2, <2>1, <2>2 DEF Recorded
  <2>5. /\ accepter' \in {"call", "add", "yield"} <=> \E v \in Worker : running'[v] = Accepter
        /\ accepter' = "new" <=> In(tasks', Accepter)
        /\ In(tasks', Wake) => type' = "NONE" /\ Waits'
        /\ type' # "NONE" => Waits'
    BY <1>0, <1>2, <2>1, <2>2 DEF Recorded, Waits
  <2>6. Recorded'
    BY <1>0, <2>1, <2>4, <2>5 DEF Recorded, Runs, In
  <2> QED
    BY <2>3, <2>6 DEF TaskInv
<1>8. ASSUME NEW w \in Worker, NEW c \in Client, running[w] = c, JobEnds(w, c) PROVE TaskInv'
  <2>1. /\ Leave(w) /\ job' = [job EXCEPT ![c] = "ended"]
        /\ UNCHANGED <<tasks, backlog, accepter, type>>
    BY <1>8 DEF JobEnds, loopVars
  <2>2. job[c] = "task" /\ ~In(tasks, c)
    BY <1>0, <1>8 DEF Recorded, Runs, Separate
  <2>3. job'[c] = "ended" /\ \A d \in Client \ {c} : job'[d] = job[d]
    BY <2>1 DEF ServerTypeOK
  <2>4. /\ \A x : x # Nobody => ((\E v \in Worker : running'[v] = x) <=> Runs(x) /\ x # c)
        /\ \A u, v \in Worker : running'[u] = running'[v] /\ running'[v] # Nobody => u = v
        /\ \A v \in Worker : ~In(tasks', running'[v])
    BY <1>0, <1>2, <1>8, <2>1, LeaveRuns
  <2>5. Separate'
    BY <1>0, <2>1, <2>4 DEF Separate, Once, In
  <2>6. \A d \in Client : job'[d] = "task" <=> In(tasks', d) \/ \E v \in Worker : running'[v] = d
    BY <1>0, <1>2, <2>1, <2>2, <2>3, <2>4 DEF Recorded
  <2>7. \A d \in Client : In(backlog', d) => job'[d] = "pending"
    BY <1>0, <2>1, <2>2, <2>3 DEF Recorded
  <2>8. accepter' \in {"call", "add", "yield"} <=> \E v \in Worker : running'[v] = Accepter
    BY <1>0, <1>2, <2>1, <2>4 DEF Recorded
  <2>9. Recorded'
    BY <1>0, <2>1, <2>6, <2>7, <2>8 DEF Recorded, Runs, In, Waits
  <2> QED
    BY <2>5, <2>9 DEF TaskInv
<1>9. CASE EpollRun
  <2>1. CASE type = "NONE"
    <3>1. UNCHANGED <<backlog, tasks, running, accepter, type, job>>
      BY <1>9, <2>1 DEF EpollRun
    <3> QED
      BY <1>1, <3>1
  <2>2. CASE type # "NONE"
    <3>1. /\ type' = "NONE" /\ tasks' = Append(tasks, Wake)
          /\ UNCHANGED <<backlog, running, accepter, job>>
      BY <1>9, <2>2 DEF EpollRun
    <3>2. ~In(tasks, Wake) /\ ~Runs(Wake) /\ Waits
      <4>1. ~Runs(Wake)
        BY <1>2 DEF Runs, ServerTypeOK
      <4> QED
        BY <1>0, <2>2, <4>1 DEF Recorded
    <3>3. /\ \A y : In(tasks', y) <=> In(tasks, y) \/ y = Wake
          /\ Once(tasks') /\ \A v \in Worker : ~In(tasks', running'[v])
      BY <1>0, <3>1, <3>2, EnqueueStep
    <3>4. Separate'
      BY <1>0, <3>1, <3>3 DEF Separate, Once, In
    <3>5. Recorded'
      BY <1>0, <1>2, <3>1, <3>2, <3>3 DEF Recorded, Runs, In, Waits
    <3> QED
      BY <3>4, <3>5 DEF TaskInv
  <2> QED
    BY <2>1, <2>2
<1>10. CASE EpollWait
  BY <1>1, <1>10 DEF EpollWait
<1>11. ASSUME NEW c \in Client, ClientSends(c) \/ ClientCloses(c) \/ JobReads(c) PROVE TaskInv'
  BY <1>1, <1>11 DEF ClientSends, ClientCloses, JobReads, srvvars, loopVars
<1>12. ASSUME NEW w \in Worker, NEW c \in Client, Respond(w, c) PROVE TaskInv'
  BY <1>1, <1>12 DEF Respond, loopVars
<1>13. ASSUME NEW w \in Worker, NEW c \in Client,
              HandlerThrows(w, c) \/ WriteFails(w, c) \/ Disconnect(w, c)
       PROVE  TaskInv'
  BY <1>8, <1>13 DEF HandlerThrows, WriteFails, Disconnect
<1>14. CASE UNCHANGED vars
  BY <1>1, <1>14 DEF vars, srvvars, loopVars
<1> QED
  BY <1>3, <1>4, <1>5, <1>6, <1>7, <1>9, <1>10, <1>11, <1>12, <1>13, <1>14 DEF Next, Work

(* What is in one place is counted once.                                   *)
LEMMA QueuedOnce == ASSUME Once(tasks), NEW x PROVE Queued(x) = One(In(tasks, x))
<1> DEFINE Q == {i \in 1..Len(tasks) : tasks[i] = x}
<1>1. CASE In(tasks, x)
  <2>1. PICK i \in 1..Len(tasks) : tasks[i] = x
    BY <1>1 DEF In
  <2>2. Q = {i}
    BY <2>1 DEF Once
  <2> QED
    BY <1>1, <2>2, FS_Singleton DEF Queued, One
<1>2. CASE ~In(tasks, x)
  <2>1. Q = {}
    BY <1>2 DEF In
  <2> QED
    BY <1>2, <2>1, FS_EmptySet DEF Queued, One
<1> QED
  BY <1>1, <1>2

LEMMA ThreadsOnce == ASSUME Separate, NEW x, x # Nobody PROVE Threads(x) = One(Runs(x))
<1> DEFINE R == {w \in Worker : running[w] = x}
<1>1. CASE Runs(x)
  <2>1. PICK w \in Worker : running[w] = x
    BY <1>1 DEF Runs
  <2>2. R = {w}
    BY <2>1 DEF Separate
  <2> QED
    BY <1>1, <2>2, FS_Singleton DEF Threads, One
<1>2. CASE ~Runs(x)
  <2>1. R = {}
    BY <1>2 DEF Runs
  <2> QED
    BY <1>2, <2>1, FS_EmptySet DEF Threads, One
<1> QED
  BY <1>1, <1>2

(* A connection that has been accepted is in one place, once, the queue or *)
(* a thread; the accepter is on one thread while it runs, and for a wait   *)
(* it is woken once: while there is a resume task its type lets run queue  *)
(* no second, and neither is there unless it waits, however many events    *)
(* come and whenever (http_server.h:231-240, 249, scheduler.h:297-332).    *)
THEOREM OneTaskEachAlways == Spec => []OneTaskEach
<1>1. ASSUME Separate, Recorded PROVE OneTaskEach
  <2>1. \A x : Queued(x) = One(In(tasks, x))
    BY <1>1, QueuedOnce DEF Separate
  <2>2. \A x : x # Nobody => Threads(x) = One(Runs(x))
    BY <1>1, ThreadsOnce
  <2>3. Accepter # Nobody /\ \A c \in Client : c # Nobody
    BY Names
  <2>4. /\ Threads(Accepter) = One(accepter \in {"call", "add", "yield"})
        /\ Queued(Accepter) = One(accepter = "new")
    BY <1>1, <2>1, <2>2, <2>3 DEF Recorded, One
  <2>5. Queued(Wake) + One(type # "NONE") <= One(accepter \in {"yield", "hold"})
    BY <1>1, <2>1 DEF Recorded, Waits, One
  <2>6. ASSUME NEW c \in Client PROVE Queued(c) + Threads(c) = One(job[c] = "task")
    <3>1. ~(In(tasks, c) /\ Runs(c))
      BY <1>1 DEF Separate, Runs
    <3>2. Queued(c) = One(In(tasks, c)) /\ Threads(c) = One(Runs(c))
      BY <2>1, <2>2, <2>3
    <3> QED
      BY <1>1, <3>1, <3>2 DEF Recorded, One
  <2> QED
    BY <2>4, <2>5, <2>6 DEF OneTaskEach
<1>2. TaskInv => OneTaskEach
  BY <1>1 DEF TaskInv
<1>3. Inv => ServerTypeOK
  BY DEF Inv
<1> QED
  BY <1>2, <1>3, TaskInit, TaskStep, Invariance, PTL DEF Spec

-----------------------------------------------------------------------------
(* The route table.                                                        *)

(* The prefixes of a URL are the paths it begins with, but for the root.   *)
LEMMA PrefixFacts ==
    ASSUME NEW url \in Seq(Field), NEW p
    PROVE  p \in Prefixes(url) <=> /\ p \in Seq(Field) /\ p # <<>>
                                   /\ Len(p) <= Len(url) /\ Prefix(url, Len(p)) = p
<1>1. ASSUME NEW n \in 1..Len(url)
      PROVE  Prefix(url, n) \in Seq(Field) /\ Len(Prefix(url, n)) = n
  <2>1. 1 \in Int /\ n \in Int /\ \A i \in 1..n : url[i] \in Field
    OBVIOUS
  <2> QED
    BY <2>1, SubSeqProperties DEF Prefix
<1>2. ASSUME p \in Prefixes(url)
      PROVE  p \in Seq(Field) /\ p # <<>> /\ Len(p) <= Len(url) /\ Prefix(url, Len(p)) = p
  <2>1. PICK n \in 1..Len(url) : p = Prefix(url, n)
    BY <1>2 DEF Prefixes
  <2>2. p \in Seq(Field) /\ Len(p) = n
    BY <1>1, <2>1
  <2> QED
    BY <2>1, <2>2
<1>3. ASSUME p \in Seq(Field), p # <<>>, Len(p) <= Len(url), Prefix(url, Len(p)) = p
      PROVE  p \in Prefixes(url)
  <2>1. Len(p) \in 1..Len(url)
    BY <1>3
  <2> QED
    BY <1>3, <2>1 DEF Prefixes
<1> QED
  BY <1>2, <1>3

-----------------------------------------------------------------------------
(* What the tree says of a path, in terms of the rules: the first rule     *)
(* whose URL begins with the path has made its node.                       *)
FirstFor(p) == LET i == CHOOSE i \in 1..Len(rules) :
                          Begins(i, p) /\ \A j \in 1..(i-1) : ~Begins(j, p)
               IN  rules[i].handler

(* Where on the way to url the rules name a child f, and what the tree     *)
(* answers to url.                                                         *)
Places(url, f) == {n \in 0..(Len(url) - 1) : Named(At(url, n, f))}
Expected(url) ==
    CASE Places(url, "*") # {} -> FirstFor(At(url, Least(Places(url, "*")), "*"))
      [] Places(url, "*") = {} /\ url # <<>> /\ Named(url) -> FirstFor(url)
      [] Places(url, "*") = {} /\ (url = <<>> \/ ~Named(url)) /\ Places(url, "") # {}
           -> FirstFor(At(url, Greatest(Places(url, "")), ""))
      [] OTHER -> defaultHandler

NodesByFirstRule == /\ \A p \in Node(tree) : p # <<>> /\ Named(p) /\ tree[p] = FirstFor(p)
                    /\ \A i \in 1..Len(rules) : Prefixes(rules[i].url) \subseteq Node(tree)

(* The choice in FirstFor is of the only first rule there is.              *)
First(i, p) == Begins(i, p) /\ \A j \in 1..(i-1) : ~Begins(j, p)

TableInv == /\ TableTypeOK
            /\ \A p \in Node(tree) : /\ p # <<>>
                                     /\ \E i \in 1..Len(rules) : First(i, p) /\ tree[p] = rules[i].handler
            /\ \A i \in 1..Len(rules) : Prefixes(rules[i].url) \subseteq Node(tree)
            /\ ~building => fallback = defaultHandler

LEMMA FirstIsChosen ==
    ASSUME rules \in Seq(Rule), NEW p, NEW i \in 1..Len(rules), First(i, p)
    PROVE  FirstFor(p) = rules[i].handler
<1> DEFINE P(k) == Begins(k, p) /\ \A j \in 1..(k-1) : ~Begins(j, p)
           c == CHOOSE k \in 1..Len(rules) : P(k)
<1>1. P(i)
  BY DEF First
<1>2. c \in 1..Len(rules) /\ P(c)
  BY <1>1
<1>3. c = i
  BY <1>1, <1>2
<1> QED
  BY <1>3 DEF FirstFor

LEMMA InvImpliesNodes == TableInv => NodesByFirstRule
<1> SUFFICES ASSUME TableInv PROVE NodesByFirstRule
  OBVIOUS
<1>1. ASSUME NEW p \in Node(tree) PROVE p # <<>> /\ Named(p) /\ tree[p] = FirstFor(p)
  <2>1. PICK i \in 1..Len(rules) : First(i, p) /\ tree[p] = rules[i].handler
    BY DEF TableInv
  <2>2. FirstFor(p) = rules[i].handler
    BY <2>1, FirstIsChosen DEF TableInv, TableTypeOK
  <2> QED
    BY <2>1, <2>2 DEF TableInv, First, Named
<1> QED
  BY <1>1 DEF TableInv, NodesByFirstRule

LEMMA TableInitInv == TableInit => TableInv
<1> SUFFICES ASSUME TableInit PROVE TableInv
  OBVIOUS
<1>1. Node(tree) = {} /\ Len(rules) = 0 /\ rules \in Seq(Rule)
  BY DEF TableInit, Node
<1>2. TableTypeOK
  BY <1>1 DEF TableInit, TableTypeOK
<1>3. 1..Len(rules) = {}
  BY <1>1
<1> QED
  BY <1>1, <1>2, <1>3 DEF TableInv, TableInit

(* A rule that is added makes its own nodes, and is the first for each of  *)
(* them: an earlier rule that began with one would have made it.           *)
LEMMA AddRuleStep == TableInv /\ AddRule => TableInv'
<1> SUFFICES ASSUME TableInv, AddRule PROVE TableInv'
  OBVIOUS
<1>1. PICK r \in Rule : tree' = Insert(tree, r.url, r.handler) /\ rules' = Append(rules, r)
  BY DEF AddRule
<1>n. PICK n \in Nat : n = Len(rules)
  BY DEF TableInv, TableTypeOK
<1>2. /\ rules \in Seq(Rule) /\ r.url \in Seq(Field) /\ r.handler \in Handler
      /\ \A i \in 1..n : rules[i].url \in Seq(Field)
  <2>1. rules \in Seq(Rule) /\ \A i \in 1..n : rules[i] \in Rule
    BY <1>n DEF TableInv, TableTypeOK
  <2>2. \A q \in Rule : q.url \in Seq(Field) /\ q.handler \in Handler
    BY RouteAssumption DEF Rule
  <2> QED
    BY <2>1, <2>2
<1>3. /\ rules' \in Seq(Rule) /\ Len(rules') = n + 1 /\ rules'[n + 1] = r
      /\ \A i \in 1..n : rules'[i] = rules[i]
  BY <1>n, <1>1, <1>2
<1>4. \A p \in Prefixes(r.url) : p \in Seq(Field) /\ p # <<>>
  BY <1>2, PrefixFacts
<1>5. /\ Node(tree)' = Node(tree) \cup Prefixes(r.url)
      /\ \A p \in Node(tree)' : tree'[p] = IF p \in Node(tree) THEN tree[p] ELSE r.handler
  BY <1>1 DEF Insert, Node
<1>6. TableTypeOK'
  BY <1>2, <1>3, <1>4, <1>5 DEF TableInv, TableTypeOK, AddRule
<1>7. \A p : \A i \in 1..n : Begins(i, p)' <=> Begins(i, p)
  BY <1>3 DEF Begins
<1>8. ASSUME NEW p \in Node(tree)'
      PROVE  p # <<>> /\ \E i \in 1..Len(rules') : First(i, p)' /\ tree'[p] = rules'[i].handler
  <2>1. CASE p \in Node(tree)
    <3>1. PICK i \in 1..n : First(i, p) /\ tree[p] = rules[i].handler
      BY <1>n, <2>1 DEF TableInv
    <3>2. First(i, p)'
      BY <1>7, <3>1 DEF First
    <3> QED
      BY <1>3, <1>5, <2>1, <3>1, <3>2 DEF TableInv
  <2>2. CASE p \notin Node(tree)
    <3>1. p \in Prefixes(r.url)
      BY <1>5, <2>2
    <3>2. p \in Seq(Field) /\ p # <<>> /\ Begins(n + 1, p)'
      <4>1. /\ p \in Seq(Field) /\ p # <<>>
            /\ Len(p) <= Len(r.url) /\ Prefix(r.url, Len(p)) = p
        BY <1>2, <3>1, PrefixFacts
      <4> QED
        BY <1>3, <4>1 DEF Begins
    <3>3. ASSUME NEW j \in 1..n PROVE ~Begins(j, p)
      <4>1. Begins(j, p) => p \in Prefixes(rules[j].url)
        BY <1>2, <3>2, PrefixFacts DEF Begins
      <4> QED
        BY <1>n, <2>2, <4>1 DEF TableInv
    <3>4. First(n + 1, p)'
      <4>1. n \in Nat /\ (n + 1) - 1 = n
        BY <1>2
      <4>2. \A j \in 1..n : ~Begins(j, p)'
        BY <1>7, <3>3
      <4> QED
        BY <3>2, <4>1, <4>2 DEF First
    <3>5. tree'[p] = rules'[n + 1].handler /\ n + 1 \in 1..Len(rules')
      BY <1>2, <1>3, <1>5, <2>2
    <3> QED
      BY <3>2, <3>4, <3>5
  <2> QED
    BY <2>1, <2>2
<1>9. ASSUME NEW i \in 1..Len(rules') PROVE Prefixes(rules'[i].url) \subseteq Node(tree)'
  <2>1. CASE i \in 1..n
    BY <1>n, <1>3, <1>5, <2>1 DEF TableInv
  <2>2. CASE i = n + 1
    BY <1>3, <1>5, <2>2
  <2> QED
    BY <1>2, <1>3, <2>1, <2>2
<1> QED
  BY <1>6, <1>8, <1>9 DEF TableInv, AddRule

LEMMA TableStep == TableInv /\ [TableNext]_tablevars => TableInv'
<1> SUFFICES ASSUME TableInv, [TableNext]_tablevars PROVE TableInv'
  OBVIOUS
<1>1. CASE NewTable
  <2>1. Node(tree)' = {} /\ Len(rules') = 0 /\ rules' \in Seq(Rule)
    BY <1>1 DEF NewTable, Node
  <2> QED
    BY <1>1, <2>1 DEF NewTable, TableInv, TableTypeOK
<1>2. CASE AddRule
  BY <1>2, AddRuleStep
<1>3. CASE Install \/ setDefaultHandler \/ UNCHANGED tablevars
  <2>1. UNCHANGED <<tree, rules>> /\ TableTypeOK' /\ (~building' => fallback' = defaultHandler')
    BY <1>3 DEF Install, setDefaultHandler, tablevars, TableInv, TableTypeOK, Node
  <2> QED
    BY <2>1 DEF TableInv, Node, First, Begins
<1> QED
  BY <1>1, <1>2, <1>3 DEF TableNext

-----------------------------------------------------------------------------
(* What a property of all numbers is proved by: a set of numbers has a     *)
(* least one.                                                              *)
LEMMA LeastNat ==
    ASSUME NEW T, T \subseteq Nat, T # {}
    PROVE  \E n \in T : \A m \in T : n <= m
<1> DEFINE R == OpToRel(<, Nat)
<1>1. IsWellFoundedOn(R, Nat)
  BY NatLessThanWellFounded
<1>2. \A m, n \in Nat : m < n => <<m, n>> \in R
  BY DEF OpToRel
<1> HIDE DEF R
<1>3. PICK n \in T : \A m \in T : ~(<<m, n>> \in R)
  BY <1>1, WFMin
<1>4. ASSUME NEW m \in T PROVE n <= m
  <2>1. m \in Nat /\ n \in Nat
    OBVIOUS
  <2>2. ~(m < n)
    BY <1>2, <1>3, <2>1
  <2> QED
    BY <2>1, <2>2
<1> QED
  BY <1>4

(* The rounds of find are well defined: each is computed from the one      *)
(* before.                                                                 *)
RoundFrom(url, i, g) ==
    IF i = 0 THEN [done |-> FALSE, answer |-> fallback] ELSE Round(url, i, g[i-1])

LEMMA RoundsDefined ==
    ASSUME NEW url \in Seq(Field)
    PROVE  \A i \in 0..Len(url) : Rounds(url)[i] = RoundFrom(url, i, Rounds(url))
<1> DEFINE P(n, g) == g = [i \in 0..n |-> RoundFrom(url, i, g)]
           Bad == {n \in Nat : ~ \E g : P(n, g)}
<1>1. Bad = {}
  <2> SUFFICES ASSUME Bad # {} PROVE FALSE
    OBVIOUS
  <2>1. PICK n \in Bad : \A m \in Bad : n <= m
    <3>1. Bad \subseteq Nat
      OBVIOUS
    <3> HIDE DEF Bad
    <3> QED
      BY <3>1, LeastNat
  <2>2. CASE n = 0
    <3> DEFINE g == [i \in 0..0 |-> [done |-> FALSE, answer |-> fallback]]
    <3>1. \A i \in 0..0 : RoundFrom(url, i, g) = [done |-> FALSE, answer |-> fallback]
      BY DEF RoundFrom
    <3>2. P(0, g)
      BY <3>1
    <3> QED
      BY <2>2, <3>2
  <2>3. CASE n # 0
    <3>1. n - 1 \in Nat /\ n - 1 \notin Bad
      BY <2>1, <2>3
    <3>2. PICK g : P(n - 1, g)
      BY <3>1
    <3> DEFINE h == [i \in 0..n |-> IF i = n THEN Round(url, n, g[n-1]) ELSE g[i]]
    <3>3. \A i \in 0..n : RoundFrom(url, i, h) = h[i]
      <4>a. \A i \in 0..(n-1) : g[i] = RoundFrom(url, i, g)
        BY <3>2, Zenon
      <4>b. \A i \in 0..(n-1) : i \in 0..n /\ i # n
        BY <3>1
      <4>1. \A i \in 0..(n-1) : h[i] = g[i] /\ g[i] = RoundFrom(url, i, g)
        BY <4>a, <4>b
      <4>2. ASSUME NEW i \in 0..(n-1) PROVE RoundFrom(url, i, h) = h[i]
        <5>1. i # 0 => h[i-1] = g[i-1]
          BY <3>1, <4>1
        <5>2. h[i] = RoundFrom(url, i, g)
          BY <4>1
        <5> HIDE DEF h, P, Bad
        <5> QED
          BY <5>1, <5>2 DEF RoundFrom
      <4>3. RoundFrom(url, n, h) = h[n]
        <5>1. h[n-1] = g[n-1] /\ h[n] = Round(url, n, g[n-1])
          BY <3>1, <4>1
        <5> QED
          BY <2>3, <5>1 DEF RoundFrom
      <4> QED
        BY <3>1, <4>2, <4>3
    <3>4. P(n, h)
      BY <3>3
    <3> QED
      BY <3>4
  <2> QED
    BY <2>2, <2>3
<1>2. PICK g : P(Len(url), g)
  BY <1>1
<1>3. g = [i \in 0..Len(url) |->
             IF i = 0 THEN [done |-> FALSE, answer |-> fallback] ELSE Round(url, i, g[i-1])]
  BY <1>2 DEF RoundFrom
<1>4. Rounds(url) = [i \in 0..Len(url) |->
             IF i = 0 THEN [done |-> FALSE, answer |-> fallback] ELSE Round(url, i, Rounds(url)[i-1])]
  BY <1>3, Zenon DEF Rounds
<1> QED
  BY <1>4 DEF RoundFrom

(* Prefixes of prefixes; a path that the rules name, they name on the way. *)
LEMMA PrefixOf ==
    ASSUME NEW url \in Seq(Field), NEW n \in 0..Len(url)
    PROVE  /\ Prefix(url, n) \in Seq(Field) /\ Len(Prefix(url, n)) = n
           /\ \A i \in 1..n : Prefix(url, n)[i] = url[i]
<1>1. 1 \in Int /\ n \in Int /\ \A i \in 1..n : url[i] \in Field
  OBVIOUS
<1> QED
  BY <1>1, SubSeqProperties DEF Prefix

LEMMA PrefixOfPrefix ==
    ASSUME NEW r \in Seq(Field), NEW p \in Seq(Field), NEW k \in 0..Len(p),
           Len(p) <= Len(r), Prefix(r, Len(p)) = p
    PROVE  Prefix(r, k) = Prefix(p, k)
<1>1. k \in 0..Len(r) /\ Len(p) \in 0..Len(r)
  OBVIOUS
<1>2. /\ Prefix(r, k) \in Seq(Field) /\ Len(Prefix(r, k)) = k
      /\ \A i \in 1..k : Prefix(r, k)[i] = r[i]
  BY <1>1, PrefixOf
<1>3. /\ Prefix(p, k) \in Seq(Field) /\ Len(Prefix(p, k)) = k
      /\ \A i \in 1..k : Prefix(p, k)[i] = p[i]
  BY PrefixOf
<1>4. \A i \in 1..Len(p) : p[i] = r[i]
  BY <1>1, PrefixOf
<1>5. \A i \in 1..k : Prefix(r, k)[i] = Prefix(p, k)[i]
  BY <1>2, <1>3, <1>4
<1> QED
  BY <1>2, <1>3, <1>5, SeqEqual

LEMMA RulePaths ==
    ASSUME rules \in Seq(Rule), NEW i \in 1..Len(rules)
    PROVE  rules[i].url \in Seq(Field)
<1>1. rules[i] \in Rule
  OBVIOUS
<1>2. \A q \in Rule : q.url \in Seq(Field)
  BY RouteAssumption DEF Rule
<1> QED
  BY <1>1, <1>2

LEMMA NamedOnTheWay ==
    ASSUME rules \in Seq(Rule), NEW p \in Seq(Field), NEW k \in 0..Len(p), Named(p)
    PROVE  Named(Prefix(p, k))
<1>1. PICK i \in 1..Len(rules) : Begins(i, p)
  BY DEF Named
<1>2. rules[i].url \in Seq(Field)
  BY RulePaths
<1>3. Prefix(rules[i].url, k) = Prefix(p, k) /\ Len(Prefix(p, k)) = k
  BY <1>1, <1>2, PrefixOfPrefix, PrefixOf DEF Begins
<1> QED
  BY <1>1, <1>3 DEF Begins, Named

LEMMA AtFacts ==
    ASSUME NEW url \in Seq(Field), NEW n \in 0..(Len(url) - 1), NEW f \in Field
    PROVE  /\ At(url, n, f) \in Seq(Field) /\ At(url, n, f) # <<>> /\ Len(At(url, n, f)) = n + 1
           /\ \A k \in 0..n : Prefix(At(url, n, f), k) = Prefix(url, k)
<1> DEFINE p == Prefix(url, n)
<1>1. p \in Seq(Field) /\ Len(p) = n /\ n \in 0..Len(url)
  BY PrefixOf
<1>2. /\ At(url, n, f) \in Seq(Field) /\ Len(At(url, n, f)) = n + 1
      /\ \A i \in 1..n : At(url, n, f)[i] = p[i]
  BY <1>1, AppendProperties DEF At
<1>3. Prefix(At(url, n, f), n) = p
  <2>1. n \in 0..Len(At(url, n, f))
    BY <1>2
  <2>2. /\ Prefix(At(url, n, f), n) \in Seq(Field) /\ Len(Prefix(At(url, n, f), n)) = n
        /\ \A i \in 1..n : Prefix(At(url, n, f), n)[i] = At(url, n, f)[i]
    BY <1>2, <2>1, PrefixOf
  <2>3. \A i \in 1..n : Prefix(At(url, n, f), n)[i] = p[i]
    BY <1>2, <2>2
  <2> HIDE DEF p
  <2> QED
    BY <1>1, <2>2, <2>3, SeqEqual
<1>4. ASSUME NEW k \in 0..n
      PROVE  Prefix(At(url, n, f), k) = Prefix(url, k)
  <2>1. Prefix(url, k) = Prefix(p, k)
    BY <1>1, PrefixOfPrefix
  <2>2. Prefix(At(url, n, f), k) = Prefix(p, k)
    BY <1>1, <1>2, <1>3, PrefixOfPrefix
  <2> QED
    BY <2>1, <2>2
<1> QED
  BY <1>2, <1>4

-----------------------------------------------------------------------------
(* The nodes are the paths the rules name.                                 *)
LEMMA NodesAreNamed ==
    ASSUME TableInv, NEW p \in Seq(Field), p # <<>>
    PROVE  /\ p \in Node(tree) <=> Named(p)
           /\ p \in Node(tree) => tree[p] = FirstFor(p)
<1>1. p \in Node(tree) => Named(p) /\ tree[p] = FirstFor(p)
  BY InvImpliesNodes DEF NodesByFirstRule
<1>2. ASSUME Named(p) PROVE p \in Node(tree)
  <2>1. PICK i \in 1..Len(rules) : Begins(i, p)
    BY <1>2 DEF Named
  <2>2. rules[i].url \in Seq(Field)
    BY RulePaths DEF TableInv, TableTypeOK
  <2>3. p \in Prefixes(rules[i].url)
    BY <2>1, <2>2, PrefixFacts DEF Begins
  <2> QED
    BY <2>3 DEF TableInv
<1> QED
  BY <1>1, <1>2

(* The answer of find after i rounds without a return: the handler of the  *)
(* deepest "" on the way, or the table's default handler.                  *)
Candidate(url, i, answer) ==
    \/ answer = fallback /\ \A m \in 0..(i-1) : m \notin Places(url, "")
    \/ \E n \in 0..(i-1) : /\ n \in Places(url, "")
                           /\ \A m \in 0..(i-1) : m \in Places(url, "") => m <= n
                           /\ answer = FirstFor(At(url, n, ""))

(* The invariant of find's loop.                                           *)
LoopInv(url, i) ==
    LET s == Rounds(url)[i]
    IN  IF s.done THEN s.answer = Expected(url)
        ELSE /\ \A m \in 0..(i-1) : m \notin Places(url, "*")
             /\ i > 0 => Named(Prefix(url, i))
             /\ Candidate(url, i, s.answer)

LEMMA LeastIs ==
    ASSUME NEW S, S \subseteq Nat, NEW n \in S, \A m \in S : n <= m
    PROVE  Least(S) = n
<1> DEFINE c == CHOOSE k \in S : \A m \in S : k <= m
<1>1. c \in S /\ \A m \in S : c <= m
  OBVIOUS
<1>2. c <= n /\ n <= c /\ c \in Nat /\ n \in Nat
  BY <1>1
<1> HIDE DEF c
<1>3. c = n
  BY <1>2
<1> QED
  BY <1>3 DEF Least, c

LEMMA GreatestIs ==
    ASSUME NEW S, S \subseteq Nat, NEW n \in S, \A m \in S : m <= n
    PROVE  Greatest(S) = n
<1> DEFINE c == CHOOSE k \in S : \A m \in S : k >= m
<1>1. c \in S /\ \A m \in S : c >= m
  OBVIOUS
<1>2. c >= n /\ n >= c /\ c \in Nat /\ n \in Nat
  BY <1>1
<1> HIDE DEF c
<1>3. c = n
  BY <1>2
<1> QED
  BY <1>3 DEF Greatest, c

(* A set of numbers up to N has a greatest: the least distance to N.       *)
LEMMA GreatestIn ==
    ASSUME NEW N \in Nat, NEW S, S \subseteq 0..(N - 1), S # {}
    PROVE  Greatest(S) \in S
<1> DEFINE D == {N - m : m \in S}
<1>0. \A m \in S : m \in Nat /\ N - m \in Nat
  <2>1. \A m \in 0..(N - 1) : m \in Nat /\ N - m \in Nat
    OBVIOUS
  <2> QED
    BY <2>1, Zenon
<1>1. D \subseteq Nat /\ D # {}
  BY <1>0, Zenon
<1>2. PICK d \in D : \A e \in D : d <= e
  <2> HIDE DEF D
  <2> QED
    BY <1>1, LeastNat
<1>3. PICK n \in S : d = N - n
  BY <1>2, Zenon
<1>4. ASSUME NEW m \in S PROVE m <= n
  <2>1. N - m \in D
    BY Zenon
  <2>2. N - n <= N - m
    BY <1>2, <1>3, <2>1, Zenon
  <2> QED
    BY <1>0, <2>2
<1>5. S \subseteq Nat
  BY <1>0, Zenon
<1> HIDE DEF D
<1>6. Greatest(S) = n
  BY <1>4, <1>5, GreatestIs
<1> QED
  BY <1>6

LEMMA Below ==
    ASSUME NEW N \in Nat, NEW i \in 0..N, NEW S, S \subseteq 0..(N - 1), \A m \in S : m < i
    PROVE  S \subseteq Nat /\ \A m \in S : m \in 0..(i - 1)
OBVIOUS

(* If the loop ends without a "*" and without the node for url, its        *)
(* candidate is the answer.                                                *)
LEMMA CandidateExpected ==
    ASSUME ~building, TableInv, NEW url \in Seq(Field), NEW answer, NEW i \in 0..Len(url),
           Candidate(url, i, answer), Places(url, "*") = {}, url = <<>> \/ ~Named(url),
           \A m \in Places(url, "") : m < i
    PROVE  answer = Expected(url)
<1>1. PICK N \in Nat : N = Len(url)
  BY LenProperties
<1>2. Places(url, "") \subseteq Nat /\ \A m \in Places(url, "") : m \in 0..(i-1)
  <2>1. Places(url, "") \subseteq 0..(N - 1) /\ i \in 0..N
    BY <1>1, Zenon DEF Places
  <2> QED
    BY <2>1, Below
<1>3. CASE answer = fallback /\ \A m \in 0..(i-1) : m \notin Places(url, "")
  <2>1. Places(url, "") = {}
    BY <1>2, <1>3
  <2> QED
    BY <1>3, <2>1 DEF Expected, TableInv
<1>4. ASSUME NEW n \in 0..(i-1), n \in Places(url, ""),
             \A m \in 0..(i-1) : m \in Places(url, "") => m <= n,
             answer = FirstFor(At(url, n, ""))
      PROVE  answer = Expected(url)
  <2>1. \A m \in Places(url, "") : m <= n
    BY <1>2, <1>4
  <2>2. Greatest(Places(url, "")) = n
    BY <1>2, <1>4, <2>1, GreatestIs
  <2> QED
    BY <1>4, <2>2 DEF Expected
<1> QED
  BY <1>3, <1>4 DEF Candidate

(* A path that the rules do not name ends the search: nothing below it is  *)
(* named either.                                                           *)
LEMMA NothingBelow ==
    ASSUME TableInv, NEW url \in Seq(Field), NEW i \in 1..Len(url), ~Named(Prefix(url, i))
    PROVE  /\ ~Named(url)
           /\ \A f \in Field : \A m \in Places(url, f) : m < i
<1>0. rules \in Seq(Rule) /\ Len(url) \in Nat
  BY LenProperties DEF TableInv, TableTypeOK
<1>1. ~Named(url)
  <2>1. i \in 0..Len(url)
    BY <1>0
  <2> QED
    BY <1>0, <2>1, NamedOnTheWay
<1>2. ASSUME NEW f \in Field, NEW m \in 0..(Len(url) - 1), m >= i
      PROVE  ~Named(At(url, m, f))
  <2>1. /\ At(url, m, f) \in Seq(Field) /\ Len(At(url, m, f)) = m + 1
        /\ \A k \in 0..m : Prefix(At(url, m, f), k) = Prefix(url, k)
    BY AtFacts
  <2>2. i \in 0..m /\ i \in 0..(m + 1)
    BY <1>0, <1>2
  <2>3. Named(At(url, m, f)) => Named(Prefix(At(url, m, f), i))
    BY <1>0, <2>1, <2>2, NamedOnTheWay
  <2> QED
    BY <2>1, <2>2, <2>3
<1>3. ASSUME NEW f \in Field, NEW m \in Places(url, f)
      PROVE  m < i
  <2>1. m \in 0..(Len(url) - 1) /\ Named(At(url, m, f))
    BY <1>3, Zenon DEF Places
  <2>2. ~(m >= i)
    BY <1>2, <2>1
  <2> QED
    BY <1>0, <2>1, <2>2
<1> QED
  BY <1>1, <1>3

(* One round of find's loop keeps its invariant.                           *)
LEMMA LoopStep ==
    ASSUME ~building, TableInv, NEW url \in Seq(Field), NEW i \in 1..Len(url), LoopInv(url, i - 1)
    PROVE  LoopInv(url, i)
<1> DEFINE s == Rounds(url)[i-1]
           t == Rounds(url)[i]
           star == At(url, i - 1, "*")
           slash == At(url, i - 1, "")
           candidate == IF slash \in Node(tree) THEN tree[slash] ELSE s.answer
<1>0. /\ i \in Nat /\ i # 0 /\ i - 1 \in 0..(Len(url) - 1) /\ i \in 0..Len(url)
      /\ \A m \in 0..(i-1) : m = i - 1 \/ m \in 0..((i-1)-1)
      /\ i - 1 \in 0..(i-1) /\ \A m \in 0..((i-1)-1) : m \in 0..(i-1) /\ m <= i - 1
  <2>1. Len(url) \in Nat
    BY LenProperties
  <2> QED
    BY <2>1
<1>1. t = IF s.done THEN s
          ELSE IF star \in Node(tree) THEN [done |-> TRUE, answer |-> tree[star]]
               ELSE [done |-> Prefix(url, i) \notin Node(tree), answer |-> candidate]
  BY <1>0, RoundsDefined DEF RoundFrom, Round, At
<1>2. \A f \in Field : i - 1 \in Places(url, f) <=> Named(At(url, i - 1, f))
  BY <1>0, Zenon DEF Places
<1>3. "*" \in Field /\ "" \in Field
  BY RouteAssumption
<1>4. /\ star \in Node(tree) <=> i - 1 \in Places(url, "*")
      /\ star \in Node(tree) => tree[star] = FirstFor(star)
      /\ slash \in Node(tree) <=> i - 1 \in Places(url, "")
      /\ slash \in Node(tree) => tree[slash] = FirstFor(slash)
  <2>1. star \in Seq(Field) /\ star # <<>> /\ slash \in Seq(Field) /\ slash # <<>>
    BY <1>0, <1>3, AtFacts
  <2> QED
    BY <1>2, <1>3, <2>1, NodesAreNamed
<1>5. Prefix(url, i) \in Node(tree) <=> Named(Prefix(url, i))
  <2>1. Prefix(url, i) \in Seq(Field) /\ Len(Prefix(url, i)) = i
    BY <1>0, PrefixOf
  <2>2. Prefix(url, i) # <<>>
    BY <1>0, <2>1
  <2> QED
    BY <2>1, <2>2, NodesAreNamed
<1>6. CASE s.done
  <2>1. t = s
    BY <1>1, <1>6
  <2>2. s.answer = Expected(url)
    BY <1>6 DEF LoopInv
  <2> QED
    BY <1>6, <2>1, <2>2 DEF LoopInv
<1>7. CASE ~s.done
  <2>0. /\ \A m \in 0..((i-1)-1) : m \notin Places(url, "*")
        /\ Candidate(url, i - 1, s.answer)
    BY <1>7 DEF LoopInv
  <2>1. CASE star \in Node(tree)
    <3>1. t = [done |-> TRUE, answer |-> tree[star]]
      BY <1>1, <1>7, <2>1
    <3>2. Places(url, "*") \subseteq Nat /\ \A m \in Places(url, "*") : i - 1 <= m
      <4>1. Places(url, "*") \subseteq 0..(Len(url) - 1) /\ Len(url) \in Nat
        BY LenProperties, Zenon DEF Places
      <4>2. ASSUME NEW m \in Places(url, "*") PROVE m \in Nat /\ i - 1 <= m
        <5>1. m \in Nat
          BY <4>1
        <5>2. m \notin 0..((i-1)-1)
          BY <2>0
        <5> QED
          BY <1>0, <5>1, <5>2
      <4> QED
        BY <4>2
    <3>3. Least(Places(url, "*")) = i - 1
      BY <1>4, <2>1, <3>2, LeastIs
    <3>4. Places(url, "*") # {}
      BY <1>4, <2>1
    <3>5. tree[star] = Expected(url)
      BY <1>4, <2>1, <3>3, <3>4 DEF Expected
    <3> HIDE DEF star, t
    <3> QED
      BY <3>1, <3>5 DEF LoopInv, t
  <2>2. CASE star \notin Node(tree)
    <3>1. t = [done |-> Prefix(url, i) \notin Node(tree), answer |-> candidate]
      BY <1>1, <1>7, <2>2
    <3>2. \A m \in 0..(i-1) : m \notin Places(url, "*")
      BY <1>0, <1>4, <2>0, <2>2
    <3>3. Candidate(url, i, candidate)
      <4>1. CASE slash \in Node(tree)
        <5>1. candidate = FirstFor(At(url, i - 1, "")) /\ i - 1 \in Places(url, "")
          BY <1>4, <4>1
        <5>2. \A m \in 0..(i-1) : m <= i - 1
          BY <1>0
        <5> HIDE DEF candidate
        <5> QED
          BY <1>0, <5>1, <5>2 DEF Candidate
      <4>2. CASE slash \notin Node(tree)
        <5>1. candidate = s.answer /\ i - 1 \notin Places(url, "")
          BY <1>4, <4>2
        <5> HIDE DEF candidate, s
        <5>2. CASE s.answer = fallback /\ \A m \in 0..((i-1)-1) : m \notin Places(url, "")
          BY <1>0, <5>1, <5>2 DEF Candidate
        <5>3. ASSUME NEW n \in 0..((i-1)-1), n \in Places(url, ""),
                     \A m \in 0..((i-1)-1) : m \in Places(url, "") => m <= n,
                     s.answer = FirstFor(At(url, n, ""))
              PROVE  Candidate(url, i, candidate)
          <6>1. n \in 0..(i-1) /\ \A m \in 0..(i-1) : m \in Places(url, "") => m <= n
            BY <1>0, <5>1, <5>3
          <6> QED
            BY <5>1, <5>3, <6>1 DEF Candidate
        <5> QED
          BY <2>0, <5>2, <5>3 DEF Candidate
      <4> QED
        BY <4>1, <4>2
    <3>4. CASE Prefix(url, i) \in Node(tree)
      <4>1. ~t.done /\ t.answer = candidate
        <5> HIDE DEF candidate, t
        <5>1. t = [done |-> FALSE, answer |-> candidate]
          BY <3>1, <3>4
        <5> QED
          BY <5>1
      <4> HIDE DEF candidate, star, slash
      <4> QED
        BY <1>5, <3>2, <3>3, <3>4, <4>1 DEF LoopInv
    <3>5. CASE Prefix(url, i) \notin Node(tree)
      <4>1. t.done /\ t.answer = candidate
        <5> HIDE DEF candidate, t
        <5>1. t = [done |-> TRUE, answer |-> candidate]
          BY <3>1, <3>5
        <5> QED
          BY <5>1
      <4> HIDE DEF candidate, star, slash
      <4>2. /\ ~Named(url)
            /\ \A m \in Places(url, "*") : m < i
            /\ \A m \in Places(url, "") : m < i
        BY <1>3, <1>5, <3>5, NothingBelow
      <4>3. Places(url, "*") = {}
        <5>1. Places(url, "*") \subseteq 0..(Len(url) - 1) /\ Len(url) \in Nat
          BY LenProperties, Zenon DEF Places
        <5>2. \A m \in Places(url, "*") : m \in 0..(i-1)
          BY <1>0, <4>2, <5>1, Below
        <5> QED
          BY <3>2, <5>2
      <4>4. candidate = Expected(url)
        BY <1>0, <3>3, <4>2, <4>3, CandidateExpected
      <4> QED
        BY <4>1, <4>4 DEF LoopInv
    <3> QED
      BY <3>4, <3>5
  <2> QED
    BY <2>1, <2>2
<1> QED
  BY <1>6, <1>7

LEMMA LoopAlways ==
    ASSUME ~building, TableInv, NEW url \in Seq(Field)
    PROVE  \A i \in 0..Len(url) : LoopInv(url, i)
<1> DEFINE Bad == {i \in 0..Len(url) : ~LoopInv(url, i)}
<1>0. Len(url) \in Nat
  BY LenProperties
<1>1. LoopInv(url, 0)
  <2>1. Rounds(url)[0] = [done |-> FALSE, answer |-> fallback]
    <3>1. 0 \in 0..Len(url)
      BY <1>0
    <3>2. Rounds(url)[0] = RoundFrom(url, 0, Rounds(url))
      BY <3>1, RoundsDefined
    <3> QED
      BY <3>2 DEF RoundFrom
  <2>2. Candidate(url, 0, fallback)
    BY DEF Candidate
  <2> QED
    BY <2>1, <2>2 DEF LoopInv
<1>2. Bad = {}
  <2> SUFFICES ASSUME Bad # {} PROVE FALSE
    OBVIOUS
  <2>1. PICK i \in Bad : \A m \in Bad : i <= m
    <3>1. Bad \subseteq Nat
      BY <1>0
    <3> HIDE DEF Bad
    <3> QED
      BY <3>1, LeastNat
  <2>2. i # 0 /\ i \in 1..Len(url) /\ i - 1 \in 0..Len(url) /\ ~(i <= i - 1)
    BY <1>0, <1>1
  <2>3. LoopInv(url, i - 1)
    BY <2>1, <2>2
  <2>4. LoopInv(url, i)
    BY <2>2, <2>3, LoopStep
  <2> QED
    BY <2>4
<1> QED
  BY <1>2

LEMMA InvExpected ==
    ASSUME TableInv, ~building, NEW url \in Url
    PROVE  find(url) = Expected(url)
<1>0. url \in Seq(Field) /\ Len(url) \in Nat
  BY RouteAssumption, LenProperties
<1> DEFINE last == Rounds(url)[Len(url)]
<1>1. find(url) = IF url # <<>> /\ ~last.done THEN tree[url] ELSE last.answer
  BY DEF find
<1>2. LoopInv(url, Len(url)) /\ Len(url) \in 0..Len(url)
  BY <1>0, LoopAlways
<1>3. CASE last.done
  BY <1>1, <1>2, <1>3 DEF LoopInv
<1>4. CASE ~last.done
  <2>1. /\ \A m \in 0..(Len(url)-1) : m \notin Places(url, "*")
        /\ Len(url) > 0 => Named(Prefix(url, Len(url)))
        /\ Candidate(url, Len(url), last.answer)
    BY <1>2, <1>4 DEF LoopInv
  <2>2. Places(url, "*") = {} /\ Places(url, "") \subseteq 0..(Len(url)-1)
    BY <2>1, Zenon DEF Places
  <2>3. \A m \in Places(url, "") : m < Len(url)
    <3>1. \A N \in Nat : \A m \in 0..(N-1) : m < N
      OBVIOUS
    <3> QED
      BY <1>0, <2>2, <3>1, Zenon
  <2>4. CASE url # <<>>
    <3>1. Len(url) > 0 /\ Prefix(url, Len(url)) = url
      <4>1. Len(url) > 0
        BY <1>0, <2>4, EmptySeq
      <4>2. Prefix(url, Len(url)) \in Seq(Field) /\ Len(Prefix(url, Len(url))) = Len(url)
            /\ \A k \in 1..Len(url) : Prefix(url, Len(url))[k] = url[k]
        BY <1>0, <1>2, PrefixOf
      <4> QED
        BY <1>0, <4>1, <4>2, SeqEqual
    <3>2. Named(url) /\ tree[url] = FirstFor(url)
      BY <1>0, <2>1, <2>4, <3>1, NodesAreNamed
    <3> HIDE DEF last
    <3> QED
      BY <1>1, <1>4, <2>2, <2>4, <3>2 DEF Expected
  <2>5. CASE url = <<>>
    <3>2. last.answer = Expected(url)
      BY <1>0, <1>2, <2>1, <2>2, <2>3, <2>5, CandidateExpected
    <3> HIDE DEF last
    <3> QED
      BY <1>1, <2>5, <3>2
  <2> QED
    BY <2>4, <2>5
<1> QED
  BY <1>3, <1>4

(* A path whose own rule is the first that leads through it is named by    *)
(* the rules exactly if it has a rule, and gets that rule's handler.       *)
LEMMA OwnRule ==
    ASSUME TableInv, NEW p \in Seq(Field), p # <<>>, OwnRuleFirst(p)
    PROVE  /\ Named(p) <=> RulesFor(p) # {}
           /\ Named(p) => FirstFor(p) = HandlerFor(p)
<1>0. rules \in Seq(Rule) /\ Len(rules) \in Nat
  BY DEF TableInv, TableTypeOK
<1>1. ASSUME NEW i \in RulesFor(p) PROVE i \in 1..Len(rules) /\ Begins(i, p)
  <2>1. i \in 1..Len(rules) /\ rules[i].url = p
    BY <1>1 DEF RulesFor
  <2>2. Prefix(p, Len(p)) = p /\ Len(p) <= Len(p)
    <3>1. Len(p) \in Nat /\ Len(p) \in 0..Len(p)
      BY LenProperties
    <3>2. /\ Prefix(p, Len(p)) \in Seq(Field) /\ Len(Prefix(p, Len(p))) = Len(p)
          /\ \A k \in 1..Len(p) : Prefix(p, Len(p))[k] = p[k]
      BY <3>1, PrefixOf
    <3> QED
      BY <3>1, <3>2, SeqEqual
  <2> QED
    BY <2>1, <2>2 DEF Begins
<1>2. RulesFor(p) # {} => Named(p)
  BY <1>1 DEF Named
<1>3. ASSUME Named(p) PROVE RulesFor(p) # {} /\ FirstFor(p) = HandlerFor(p)
  <2>1. PICK i \in RulesFor(p) : \A j \in 1..(i-1) : ~Begins(j, p)
    BY <1>3 DEF OwnRuleFirst
  <2>2. FirstFor(p) = rules[i].handler
    BY <1>0, <1>1, <2>1, FirstIsChosen DEF First
  <2>3. Least(RulesFor(p)) = i
    <3>1. RulesFor(p) \subseteq Nat
      BY <1>1
    <3>2. \A m \in RulesFor(p) : i <= m
      <4> SUFFICES ASSUME NEW m \in RulesFor(p), ~(i <= m) PROVE FALSE
        OBVIOUS
      <4>1. i \in Nat /\ m \in 1..(i-1)
        BY <1>1, <3>1
      <4> QED
        BY <1>1, <2>1, <4>1
    <3> QED
      BY <3>1, <3>2, LeastIs
  <2> QED
    BY <2>1, <2>2, <2>3 DEF HandlerFor
<1> QED
  BY <1>2, <1>3

(* Where every path consulted has its own rule first, the tree answers     *)
(* what is documented.                                                     *)
LEMMA ExpectedDocumented ==
    ASSUME TableInv, NEW url \in Seq(Field), \A p \in Consulted(url) : OwnRuleFirst(p)
    PROVE  Expected(url) = Documented(url)
<1>0. "*" \in Field /\ "" \in Field
  BY RouteAssumption
<1>1. ASSUME NEW n \in 0..(Len(url) - 1), NEW f \in {"", "*"}
      PROVE  /\ Named(At(url, n, f)) <=> RulesFor(At(url, n, f)) # {}
             /\ Named(At(url, n, f)) => FirstFor(At(url, n, f)) = HandlerFor(At(url, n, f))
  <2>1. At(url, n, f) \in Seq(Field) /\ At(url, n, f) # <<>>
    BY <1>0, AtFacts
  <2>2. At(url, n, f) \in OnTheWay(url, f)
    BY Zenon DEF OnTheWay
  <2>3. At(url, n, f) \in Consulted(url)
    BY <2>1, <2>2 DEF Consulted
  <2> QED
    BY <2>1, <2>3, OwnRule
<1>2. ASSUME NEW f \in {"", "*"} PROVE Places(url, f) = RulesAt(url, f)
  <2>1. \A n \in 0..(Len(url) - 1) : Named(At(url, n, f)) <=> RulesFor(At(url, n, f)) # {}
    BY <1>1
  <2> QED
    BY <2>1, Zenon DEF Places, RulesAt
<1>3. ASSUME NEW f \in {"", "*"}, NEW n \in Places(url, f)
      PROVE  FirstFor(At(url, n, f)) = HandlerFor(At(url, n, f))
  <2>1. n \in 0..(Len(url) - 1) /\ Named(At(url, n, f))
    BY <1>3, Zenon DEF Places
  <2> QED
    BY <1>1, <2>1
<1>4. ASSUME url # <<>> PROVE /\ Named(url) <=> RulesFor(url) # {}
                              /\ Named(url) => FirstFor(url) = HandlerFor(url)
  <2>1. url \in Consulted(url)
    BY <1>4 DEF Consulted
  <2> QED
    BY <1>4, <2>1, OwnRule
<1>5. url = <<>> => RulesFor(url) = {}
  <2> SUFFICES ASSUME url = <<>>, NEW i \in RulesFor(url) PROVE FALSE
    OBVIOUS
  <2>1. i \in 1..Len(rules) /\ rules[i].url = <<>>
    BY DEF RulesFor
  <2>2. rules[i] \in Rule
    BY <2>1 DEF TableInv, TableTypeOK
  <2>3. \A q \in Rule : q.url # <<>>
    BY RouteAssumption DEF Rule
  <2> QED
    BY <2>1, <2>2, <2>3
<1>6. Places(url, "*") \subseteq Nat /\ Places(url, "") \subseteq 0..(Len(url) - 1) /\ Len(url) \in Nat
  <2>1. Len(url) \in Nat
    BY LenProperties
  <2>2. Places(url, "*") \subseteq 0..(Len(url) - 1) /\ Places(url, "") \subseteq 0..(Len(url) - 1)
    BY Zenon DEF Places
  <2>3. \A N \in Nat : 0..(N - 1) \subseteq Nat
    OBVIOUS
  <2>4. Places(url, "*") \subseteq Nat
    BY <2>1, <2>2, <2>3, Zenon
  <2> QED
    BY <2>1, <2>2, <2>4
<1>7. CASE Places(url, "*") # {}
  <2>1. Least(Places(url, "*")) \in Places(url, "*")
    <3>1. PICK n \in Places(url, "*") : \A m \in Places(url, "*") : n <= m
      BY <1>6, <1>7, LeastNat
    <3> QED
      BY <1>6, <3>1, LeastIs
  <2>2. /\ Expected(url) = FirstFor(At(url, Least(Places(url, "*")), "*"))
        /\ Documented(url) = HandlerFor(At(url, Least(Places(url, "*")), "*"))
    BY <1>2, <1>7 DEF Expected, Documented
  <2> QED
    BY <1>3, <2>1, <2>2
<1>8. CASE Places(url, "*") = {} /\ url # <<>> /\ Named(url)
  <2>1. RulesAt(url, "*") = {} /\ RulesFor(url) # {}
    BY <1>2, <1>4, <1>8
  <2> QED
    BY <1>4, <1>8, <2>1 DEF Expected, Documented
<1>9. CASE Places(url, "*") = {} /\ (url = <<>> \/ ~Named(url)) /\ Places(url, "") # {}
  <2>1. RulesAt(url, "*") = {} /\ RulesFor(url) = {} /\ RulesAt(url, "") # {}
    BY <1>2, <1>4, <1>5, <1>9
  <2>2. Greatest(Places(url, "")) \in Places(url, "")
    BY <1>6, <1>9, GreatestIn
  <2>3. /\ Expected(url) = FirstFor(At(url, Greatest(Places(url, "")), ""))
        /\ Documented(url) = HandlerFor(At(url, Greatest(Places(url, "")), ""))
    BY <1>2, <1>9, <2>1 DEF Expected, Documented
  <2> QED
    BY <1>3, <2>2, <2>3
<1>10. CASE Places(url, "*") = {} /\ (url = <<>> \/ ~Named(url)) /\ Places(url, "") = {}
  <2>1. RulesAt(url, "*") = {} /\ RulesFor(url) = {} /\ RulesAt(url, "") = {}
    BY <1>2, <1>4, <1>5, <1>10
  <2> QED
    BY <1>10, <2>1 DEF Expected, Documented
<1> QED
  BY <1>7, <1>8, <1>9, <1>10

LEMMA InvFollows == TableInv => FindFollowsRules
<1> SUFFICES ASSUME TableInv, ~building, NEW url \in Url,
                    \A p \in Consulted(url) : OwnRuleFirst(p)
             PROVE  find(url) = Documented(url)
  BY DEF FindFollowsRules
<1>1. url \in Seq(Field)
  BY RouteAssumption
<1> QED
  BY <1>1, InvExpected, ExpectedDocumented

-----------------------------------------------------------------------------
(* The inductive invariant of the table: every node is a prefix of a rule, *)
(* and its handler is that of the first such rule.                         *)
THEOREM TableInvariance == TableSpec => []TableInv
BY TableInitInv, TableStep, PTL DEF TableSpec

(* The types hold; in particular every node has a handler, and none the    *)
(* empty function a request would fail on (http_server.h:44, 80-85).       *)
THEOREM TableTypeCorrect == TableSpec => []TableTypeOK
BY TableInvariance, PTL DEF TableInv

(* For any rules and URLs, of any number and length, find answers what the *)
(* documented rules say of the URL, provided that of the rules that lead   *)
(* through a path consulted on the way its own is the first                *)
(* (http_server.h:26-36, 62-126).  Without that the run of route_docs      *)
(* shows the node of a longer rule answering in its place.                 *)
THEOREM EveryRequestFollowsRules == TableSpec => []FindFollowsRules
BY TableInvariance, InvFollows, PTL
=============================================================================
