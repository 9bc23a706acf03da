----------------------------- MODULE HttpSocket -----------------------------
(***************************************************************************)
(* HttpSocket::readRequest of mjber/http_socket.h on each connection.  A   *)
(* request is its lengths: head bytes, of which the last Delim are the     *)
(* empty line that ends it, and body bytes; whether its method is POST,    *)
(* and what its Content-Length is: absent, the length of the body, or no   *)
(* number.  A client sends the next request after the answer to the last.  *)
(***************************************************************************)
EXTENDS Integers

CONSTANTS Client,   \* connections
          Request,  \* the requests clients send: [head, post, body, length]
          Delim,    \* length of "\r\n\r\n"
          Buf,      \* size of the read buffer
          SizeMax   \* the largest size_t

ASSUME SocketAssumption ==
    /\ Delim \in Nat \ {0} /\ Buf \in Nat \ {0} /\ SizeMax \in Nat
    /\ Request \subseteq [head : Nat, post : BOOLEAN, body : 0..SizeMax,
                          length : {"none", "sound", "broken"}]
    /\ \A r \in Request : r.head > Delim

VARIABLES req,     \* the request a client is sending
          sent,    \* how many bytes of it are on the wire
          got,     \* how many of those the server has read
          closed,  \* clients that have closed their side
          phase,   \* where readRequest is: "head", "body" or returned
          content, \* content_len, counted down in the body loop
          ragged   \* history: the reads did not fall on the parts' ends

stream == <<req, sent, got>>
parser == <<phase, content, ragged>>
sockvars == <<stream, closed, parser>>

(* "ok", "eof" and "error": readRequest has returned a length, 0 or -1, or *)
(* has thrown.                                                             *)
Phase == {"head", "body", "ok", "eof", "error"}

Message == {m \in [head : Nat, post : BOOLEAN, body : 0..SizeMax,
                   length : {"none", "sound", "broken"}] : m.head > Delim}

SocketTypeOK == /\ req \in [Client -> Message]
                /\ sent \in [Client -> Nat]
                /\ got \in [Client -> Nat]
                /\ \A c \in Client : got[c] <= sent[c] /\ sent[c] <= req[c].head + req[c].body
                /\ closed \subseteq Client
                /\ phase \in [Client -> Phase]
                /\ content \in [Client -> 0..SizeMax]
                /\ ragged \subseteq Client

SocketInit == /\ \E r \in Request : req = [c \in Client |-> r]
              /\ sent = [c \in Client |-> 0]
              /\ got = [c \in Client |-> 0]
              /\ closed = {}
              /\ phase = [c \in Client |-> "head"]
              /\ content = [c \in Client |-> 0]
              /\ ragged = {}

Size(c) == req[c].head + req[c].body
Available(c) == sent[c] - got[c]

(* read takes what is there, up to the size of the buffer.                 *)
Chunk(c) == IF Available(c) < Buf THEN Available(c) ELSE Buf

(* The client.                                                             *)
Send(c) == /\ c \notin closed
           /\ \E n \in 1..(Size(c) - sent[c]) : sent' = [sent EXCEPT ![c] = @ + n]
           /\ UNCHANGED <<req, got, closed, parser>>

Close(c) == /\ closed' = closed \cup {c}
            /\ c \notin closed
            /\ UNCHANGED <<stream, parser>>
-----------------------------------------------------------------------------
(* The head ends in what has been read, and its last bytes all came with   *)
(* the last read: the search starts where that read began.                 *)
(* Mutant: the search starts one byte too late.                            *)
HeadFoundLate(c, from, to) == req[c].head - Delim > from /\ req[c].head <= to
HeadFoundIn(c, from, to) == /\ req[c].head - Delim >= from
                            /\ req[c].head <= to

(* The read that ends the head begins inside the empty line, or takes a    *)
(* part of the body with it.                                               *)
Ragged(c, from, to) == /\ from < req[c].head /\ req[c].head <= to
                       /\ req[c].head - Delim < from \/ req[c].head < to

Returned(c, how) == phase' = [phase EXCEPT ![c] = how] /\ UNCHANGED content

(* Where readRequest goes from the end of the head.  Only a POST with a    *)
(* Content-Length has its body read; stoi throws if that is no number.     *)
AfterHead(r) == CASE r.post /\ r.length = "broken"               -> "error"
                  [] r.post /\ r.length = "sound" /\ r.body > 0 -> "body"
                  [] OTHER                                       -> "ok"

(* A read while the head is incomplete.  The body loop counts all of       *)
(* Content-Length down, whatever part of the body is here.                 *)
(* Mutant: a POST is answered at the end of its head.                      *)
ReadHeadNoBody(c) ==
    /\ phase[c] = "head" /\ Available(c) > 0
    /\ got' = [got EXCEPT ![c] = @ + Chunk(c)]
    /\ IF HeadFoundIn(c, got[c], got'[c]) THEN Returned(c, "ok") ELSE UNCHANGED <<phase, content>>
    /\ UNCHANGED <<req, sent, closed, ragged>>

ReadHead(c) ==
    /\ phase[c] = "head" /\ Available(c) > 0
    /\ got' = [got EXCEPT ![c] = @ + Chunk(c)]
    /\ IF HeadFoundIn(c, got[c], got'[c])
       THEN /\ phase' = [phase EXCEPT ![c] = AfterHead(req[c])]
            /\ content' = [content EXCEPT ![c] = IF AfterHead(req[c]) = "body" THEN req[c].body ELSE @]
       ELSE UNCHANGED <<phase, content>>
    /\ ragged' = IF Ragged(c, got[c], got'[c]) THEN ragged \cup {c} ELSE ragged
    /\ UNCHANGED <<req, sent, closed>>

(* A read in the body loop: content_len is unsigned.                       *)
ReadBody(c) ==
    /\ phase[c] = "body" /\ Available(c) > 0
    /\ got' = [got EXCEPT ![c] = @ + Chunk(c)]
    /\ content' = [content EXCEPT ![c] = (@ - Chunk(c)) % (SizeMax + 1)]
    /\ phase' = [phase EXCEPT ![c] = IF content'[c] = 0 THEN "ok" ELSE "body"]
    /\ UNCHANGED <<req, sent, closed, ragged>>

(* The peer has closed: read returns 0, which in the body loop leads back  *)
(* to the read of the head, or fails: the -1 is thrown away as a length.   *)
ReadEnd(c) == /\ phase[c] \in {"head", "body"} /\ Available(c) = 0 /\ c \in closed
              /\ \E how \in {"eof", "error"} : Returned(c, how)
              /\ UNCHANGED <<stream, closed, ragged>>

Read(c) == ReadHead(c) \/ ReadBody(c) \/ ReadEnd(c)

(* The next request, once the response to this one is written.  What was   *)
(* not read of the body comes before it, and is taken for its beginning:   *)
(* the method is then whatever stands there, which is taken not to be POST.*)
Unread(c) == Size(c) - got[c]
NextRequest(c) ==
    /\ \E r \in Request :
          req' = [req EXCEPT ![c] = IF Unread(c) = 0 THEN r
                                    ELSE [r EXCEPT !.head = @ + Unread(c), !.post = FALSE]]
    /\ sent' = [sent EXCEPT ![c] = @ - got[c]]
    /\ got' = [got EXCEPT ![c] = 0]
    /\ phase' = [phase EXCEPT ![c] = "head"]
    /\ content' = [content EXCEPT ![c] = 0]
    /\ ragged' = ragged \ {c}
    /\ UNCHANGED closed
=============================================================================
