------------------------------ MODULE BodyLimit ------------------------------
(***************************************************************************)
(* BodySizeLimitMiddleware (middleware.py): what an application gets to    *)
(* read of the body of a request.  A declared Content-Length is compared   *)
(* once; bytes are counted as they arrive whatever was declared.           *)
(***************************************************************************)
EXTENDS Integers

CONSTANTS Slots,     \* requests served at a time
          MaxBody,   \* settings.max_request_body_bytes
          Bodies,    \* bound: the lengths of the bodies clients send
          Lengths    \* bound: what Content-Length is worth: {} when it is
                     \* missing or malformed, else {number}

ASSUME BodyAssumption ==
  /\ MaxBody \in Nat /\ Bodies \subseteq Nat /\ Lengths \subseteq SUBSET Int

VARIABLE body   \* slot -> the body of its request

\* sent, declared: what the client does; received: the count; handed: what
\* the application was given.
Body(pc, sent, declared, received, handed) ==
  [pc |-> pc, sent |-> sent, declared |-> declared, received |-> received,
   handed |-> handed]

NoBody == Body("none", 0, {}, 0, 0)

BodyInit == body = [p \in Slots |-> NoBody]

TooLong(n) == n > MaxBody
Left(p) == body[p].sent - body[p].received

Declare(p, n, declared) ==
  body' = [body EXCEPT ![p] =
    Body(IF \E d \in declared : TooLong(d) THEN "refused" ELSE "streaming",
         n, declared, 0, 0)]

\* limited_receive: count the c bytes of a message, then hand it over.
Receive_HandsOverFirst(p, c) ==
  LET b == body[p]
  IN body' = [body EXCEPT ![p] =
       Body(IF TooLong(b.received) THEN "refused"
            ELSE IF c = Left(p) THEN "read" ELSE "streaming",
            b.sent, b.declared, b.received + c, b.handed + c)]

Receive(p, c) ==
  LET b == body[p]
  IN body' = [body EXCEPT ![p] =
       IF TooLong(b.received + c)
       THEN Body("refused", b.sent, b.declared, b.received + c, b.handed)
       ELSE Body(IF c = Left(p) THEN "read" ELSE "streaming",
                 b.sent, b.declared, b.received + c, b.handed + c)]

\* A message of the body: some bytes, or the empty one of an empty body.
Message(p, c) ==
  /\ body[p].pc = "streaming"
  /\ c \in 0 .. Left(p) /\ (c = 0 => Left(p) = 0)
  /\ Receive(p, c)

\* The request is over.
Dismiss(p) == body' = [body EXCEPT ![p] = NoBody]

BodyTypeOK ==
  body \in [Slots -> [pc : {"none", "streaming", "read", "refused"},
                      sent : Nat, declared : SUBSET Int, received : Nat,
                      handed : Nat]]
============================================================================
