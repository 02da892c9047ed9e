--------------------------- MODULE Uploads_proofs ---------------------------
(***************************************************************************)
(* Proofs about BodyLimit and Uploads: their type invariant, that what the *)
(* database knows is on disk, that a URL keeps its answer, that no file    *)
(* stays behind, and that input is bounded.                                *)
(***************************************************************************)
EXTENDS Uploads, TLAPS

----------------------------------------------------------------------------
(* The inductive invariant *)

\* What is counted is what was handed over, until a message crosses the limit.
BodyOK(p) ==
  /\ ~TooLong(body[p].handed)
  /\ body[p].pc \in {"streaming", "read"}
       => /\ body[p].handed = body[p].received
          /\ body[p].received <= body[p].sent
  /\ body[p].pc = "refused" =>
       TooLong(body[p].sent) \/ \E d \in body[p].declared : TooLong(d)

Uploading(p) == req[p].pc \in {"copy", "insert"}
InDatabase == { i \in Ids : record[i] # Absent }

\* An upload in progress owns its id: it knows all that is in the file, and
\* nobody was told of it yet.
UploadOK(p, i) ==
  /\ sent[i] = req[p].size + req[p].left /\ sent[i] > 0
  /\ file[i] = [kind |-> req[p].kind, bytes |-> req[p].size]
  /\ req[p].size <= Cap[req[p].kind]
  /\ record[i] = Absent

SlotOK(p) ==
  /\ Uploading(p) => UploadOK(p, req[p].id)
  /\ req[p].pc = "insert" => req[p].left = 0
  /\ req[p].pc = "serve" => req[p].id \in InDatabase
  /\ req[p].pc = "check" => req[p].media \ req[p].todo \subseteq InDatabase

IdOK(i) ==
  /\ sent[i] = 0 => file[i] = Absent /\ record[i] = Absent
  /\ record[i] # Absent =>
       /\ file[i] = [kind |-> record[i].kind, bytes |-> record[i].size]
       /\ record[i].size = sent[i]
  /\ shown[i] # {} => record[i] # Absent /\ shown[i] = {file[i]}
  /\ file[i] # Absent => file[i].bytes <= Cap[file[i].kind]
  /\ file[i] # Absent /\ record[i] = Absent =>
       i \in lost \/ \E p \in Slots : Uploading(p) /\ req[p].id = i

Exclusive ==
  \A p, q \in Slots :
    Uploading(p) /\ Uploading(q) /\ req[p].id = req[q].id => p = q

BodiesOK == \A p \in Slots : BodyOK(p)
SlotsOK == \A p \in Slots : SlotOK(p)
IdsOK == \A i \in Ids : IdOK(i)

IInv == /\ TypeOK /\ BodiesOK /\ SlotsOK /\ IdsOK /\ Exclusive
        /\ linked \subseteq InDatabase

----------------------------------------------------------------------------
(* Types *)

LEMMA Constants ==
  /\ MaxBody \in Nat /\ Bodies \subseteq Nat /\ Lengths \subseteq SUBSET Int
  /\ Cap \in [Kinds -> Nat] /\ Head \in Nat \ {0} /\ Chunk \in Nat \ {0}
  /\ \A k \in Kinds : Head <= Cap[k]
  /\ Sizes \subseteq Nat \ {0} /\ Elsewhere \notin Ids
  /\ \A media \in Mentions : media \subseteq Ids \cup {Elsewhere}
  /\ Absent \notin Content /\ Absent \notin Metadata
BY BodyAssumption, UploadsAssumption DEF BodyAssumption, UploadsAssumption

\* What the step of a request says about its fields.
LEMMA RequestTypes ==
  ASSUME TypeOK, NEW p \in Slots
  PROVE  /\ req[p] \in Request
         /\ Uploading(p) => /\ req[p].id \in Ids /\ req[p].kind \in Kinds
                            /\ req[p].size \in Nat /\ req[p].left \in Nat
                            /\ req[p] = [pc |-> req[p].pc, id |-> req[p].id,
                                 kind |-> req[p].kind, size |-> req[p].size,
                                 left |-> req[p].left]
         /\ req[p].pc = "serve" => req[p].id \in Ids
         /\ req[p].pc = "check" =>
              /\ req[p].media \in Mentions
              /\ req[p].todo \subseteq Ids \cup {Elsewhere}
              /\ req[p] = [pc |-> "check", media |-> req[p].media,
                           todo |-> req[p].todo]
BY DEF TypeOK, Request, Uploading

LEMMA RequestMakers ==
  /\ \A n \in Nat : Over(n) \in Request
  /\ \A i \in Ids, k \in Kinds, m, n \in Nat : Copying(i, k, m, n) \in Request
  /\ \A i \in Ids : [pc |-> "serve", id |-> i] \in Request
  /\ [pc |-> "body"] \in Request
  /\ \A media \in Mentions : \A todo \in SUBSET (Ids \cup {Elsewhere}) :
       [pc |-> "check", media |-> media, todo |-> todo] \in Request
  /\ \A i \in Ids, k \in Kinds, m, n \in Nat :
       [pc |-> "insert", id |-> i, kind |-> k, size |-> m, left |-> n] \in Request
BY DEF Request, Over, Copying

----------------------------------------------------------------------------
(* Bodies *)

BodyInv == BodyTypeOK /\ BodiesOK

LEMMA NoBodyOK ==
  /\ NoBody \in [pc : {"none", "streaming", "read", "refused"}, sent : Nat,
                 declared : SUBSET Int, received : Nat, handed : Nat]
  /\ NoBody.handed = 0 /\ NoBody.pc = "none" /\ ~TooLong(0)
BY Constants DEF NoBody, Body, TooLong

LEMMA BodyStutter ==
  ASSUME BodyInv, UNCHANGED body
  PROVE  BodyInv'
BY DEF BodyInv, BodyTypeOK, BodiesOK, BodyOK

LEMMA DismissStep ==
  ASSUME BodyInv, NEW p \in Slots, Dismiss(p)
  PROVE  BodyInv'
<1> USE NoBodyOK DEF BodyInv
<1>1. BodyTypeOK'
  BY DEF Dismiss, BodyTypeOK
<1>2. ASSUME NEW q \in Slots PROVE BodyOK(q)'
  BY DEF Dismiss, BodyTypeOK, BodiesOK, BodyOK
<1> QED BY <1>1, <1>2 DEF BodiesOK

LEMMA DeclareStep ==
  ASSUME BodyInv, NEW p \in Slots, NEW n \in Bodies, NEW d \in Lengths,
         Declare(p, n, d)
  PROVE  BodyInv'
<1> USE NoBodyOK, Constants DEF BodyInv
<1> DEFINE step == IF \E m \in d : TooLong(m) THEN "refused" ELSE "streaming"
           b == Body(step, n, d, 0, 0)
<1>1. body' = [body EXCEPT ![p] = b]
  BY DEF Declare
<1>2. BodyTypeOK'
  <2>1. b \in [pc : {"none", "streaming", "read", "refused"}, sent : Nat,
               declared : SUBSET Int, received : Nat, handed : Nat]
    BY DEF Body
  <2> HIDE DEF b
  <2> QED BY <1>1, <2>1 DEF BodyTypeOK
<1>3. ASSUME NEW q \in Slots PROVE BodyOK(q)'
  <2>1. CASE q = p
    <3>1. body'[q] = b
      BY <1>1, <2>1 DEF BodyTypeOK
    <3> QED BY <3>1 DEF BodyOK, Body
  <2>2. CASE q # p
    <3>1. body'[q] = body[q]
      BY <1>1, <2>2 DEF BodyTypeOK
    <3> QED BY <3>1 DEF BodyOK, BodiesOK
  <2> QED BY <2>1, <2>2
<1> QED BY <1>2, <1>3 DEF BodiesOK

LEMMA MessageStep ==
  ASSUME BodyInv, NEW p \in Slots, NEW c, Message(p, c)
  PROVE  BodyInv'
<1> USE Constants DEF BodyInv
<1> DEFINE b == body[p]
           over == Body("refused", b.sent, b.declared, b.received + c, b.handed)
           next == Body(IF c = Left(p) THEN "read" ELSE "streaming",
                        b.sent, b.declared, b.received + c, b.handed + c)
           x == IF TooLong(b.received + c) THEN over ELSE next
<1>1. /\ b.sent \in Nat /\ b.declared \in SUBSET Int
      /\ b.received \in Nat /\ b.handed \in Nat
  BY DEF BodyTypeOK
<1>2. /\ b.handed = b.received /\ b.received <= b.sent /\ ~TooLong(b.handed)
      /\ c \in 0 .. b.sent - b.received
  BY DEF Message, Left, BodiesOK, BodyOK
<1>3. body' = [body EXCEPT ![p] = x]
  BY DEF Message, Receive
<1>4. BodyTypeOK'
  <2>1. x \in [pc : {"none", "streaming", "read", "refused"}, sent : Nat,
               declared : SUBSET Int, received : Nat, handed : Nat]
    BY <1>1, <1>2 DEF Body
  <2> HIDE DEF x
  <2> QED BY <1>3, <2>1 DEF BodyTypeOK
<1>5. ASSUME NEW q \in Slots PROVE BodyOK(q)'
  <2>1. CASE q = p
    <3>1. body'[q] = x
      BY <1>3, <2>1 DEF BodyTypeOK
    <3>2. CASE TooLong(b.received + c)
      <4>1. TooLong(b.sent)
        BY <1>1, <1>2, <3>2 DEF TooLong
      <4> QED BY <1>2, <3>1, <3>2, <4>1 DEF BodyOK, Body
    <3>3. CASE ~TooLong(b.received + c)
      <4>1. x = next
        BY <3>3
      <4> QED BY <1>1, <1>2, <3>1, <3>3, <4>1 DEF BodyOK, Body
    <3> QED BY <3>2, <3>3
  <2>2. CASE q # p
    <3>1. body'[q] = body[q]
      BY <1>3, <2>2 DEF BodyTypeOK
    <3> QED BY <3>1 DEF BodyOK, BodiesOK
  <2> QED BY <2>1, <2>2
<1> QED BY <1>4, <1>5 DEF BodiesOK

----------------------------------------------------------------------------
(* Steps of one request *)

\* TypeOK of the request that takes a step.
LEMMA RequestStep ==
  ASSUME TypeOK, NEW p \in Slots, NEW r \in Request, req' = [req EXCEPT ![p] = r]
  PROVE  /\ req' \in [Slots -> Request] /\ req'[p] = r
         /\ \A q \in Slots : q # p => req'[q] = req[q]
BY DEF TypeOK

\* A step that touches no file, document or answer, and neither begins nor
\* ends an upload.
LEMMA QuietStep ==
  ASSUME IInv, BodyInv', NEW p \in Slots, NEW r \in Request,
         req' = [req EXCEPT ![p] = r],
         UNCHANGED <<file, record, sent, shown, lost, faults, crashes>>,
         linked' \subseteq InDatabase, SlotOK(p)',
         Uploading(p)' <=> Uploading(p),
         Uploading(p) => r.id = req[p].id
  PROVE  IInv'
<1>1. /\ req' \in [Slots -> Request] /\ req'[p] = r
      /\ \A q \in Slots : q # p => req'[q] = req[q]
  BY RequestStep DEF IInv
<1>2. TypeOK'
  BY <1>1 DEF IInv, TypeOK, BodyInv, InDatabase
<1>3. /\ \A q \in Slots : Uploading(q)' <=> Uploading(q)
      /\ \A q \in Slots : Uploading(q) => req'[q].id = req[q].id
  BY <1>1 DEF Uploading
<1>4. ASSUME NEW q \in Slots PROVE SlotOK(q)'
  <2>1. CASE q = p
    BY <2>1
  <2>2. CASE q # p
    <3>1. SlotOK(q)
      BY DEF IInv, SlotsOK
    <3> QED BY <1>1, <2>2, <3>1 DEF SlotOK, Uploading, UploadOK, InDatabase
  <2> QED BY <2>1, <2>2
<1>5. ASSUME NEW i \in Ids PROVE IdOK(i)'
  <2>1. IdOK(i)
    BY DEF IInv, IdsOK
  <2> QED BY <1>3, <2>1 DEF IdOK
<1>6. Exclusive'
  BY <1>3 DEF IInv, Exclusive
<1> QED BY <1>2, <1>4, <1>5, <1>6 DEF IInv, BodyInv, BodiesOK, SlotsOK, IdsOK, InDatabase

\* A step of p on what belongs to one id, which no other upload owns.
LEMMA StepOn ==
  ASSUME IInv, TypeOK', UNCHANGED <<body, linked>>,
         NEW p \in Slots, NEW i \in Ids,
         \A q \in Slots : q # p => req'[q] = req[q],
         \A j \in Ids : j # i => /\ file'[j] = file[j] /\ record'[j] = record[j]
                                /\ sent'[j] = sent[j] /\ shown'[j] = shown[j],
         \A q \in Slots : q # p /\ Uploading(q) => req[q].id # i,
         Uploading(p) => req[p].id = i,
         Uploading(p)' => req'[p].id = i,
         i \in InDatabase => i \in InDatabase',
         lost \subseteq lost',
         SlotOK(p)', IdOK(i)'
  PROVE  IInv'
<1>1. InDatabase \subseteq InDatabase'
  BY DEF InDatabase
<1>2. \A q \in Slots : q # p => (Uploading(q)' <=> Uploading(q))
  BY DEF Uploading
<1>3. ASSUME NEW q \in Slots PROVE SlotOK(q)'
  <2>1. CASE q = p
    BY <2>1
  <2>2. CASE q # p
    <3>1. SlotOK(q) /\ req'[q] = req[q]
      BY <2>2 DEF IInv, SlotsOK
    <3>2. Uploading(q) => UploadOK(q, req[q].id)'
      <4>1. Uploading(q) => req[q].id \in Ids
        BY RequestTypes DEF IInv
      <4> QED BY <2>2, <3>1, <4>1 DEF SlotOK, UploadOK
    <3> QED BY <1>1, <1>2, <2>2, <3>1, <3>2 DEF SlotOK
  <2> QED BY <2>1, <2>2
<1>4. ASSUME NEW j \in Ids PROVE IdOK(j)'
  <2>1. CASE j = i
    BY <2>1
  <2>2. CASE j # i
    <3>1. /\ IdOK(j) /\ file'[j] = file[j] /\ record'[j] = record[j]
          /\ sent'[j] = sent[j] /\ shown'[j] = shown[j]
      BY <2>2 DEF IInv, IdsOK
    <3>2. \A q \in Slots : Uploading(q) /\ req[q].id = j
                            => Uploading(q)' /\ req'[q].id = j
      BY <1>2, <2>2
    <3> QED BY <3>1, <3>2 DEF IdOK
  <2> QED BY <2>1, <2>2
<1>5. Exclusive'
  BY <1>2 DEF IInv, Exclusive
<1>6. BodiesOK'
  BY DEF IInv, BodiesOK, BodyOK
<1> QED BY <1>1, <1>3, <1>4, <1>5, <1>6 DEF IInv, SlotsOK, IdsOK

\* Only the slot of an upload works on its id.
LEMMA OwnId ==
  ASSUME IInv, NEW p \in Slots, Uploading(p)
  PROVE  /\ req[p].id \in Ids /\ req[p].kind \in Kinds
         /\ req[p].size \in Nat /\ req[p].left \in Nat
         /\ UploadOK(p, req[p].id) /\ IdOK(req[p].id)
         /\ \A q \in Slots : q # p /\ Uploading(q) => req[q].id # req[p].id
<1>1. /\ req[p].id \in Ids /\ req[p].kind \in Kinds
      /\ req[p].size \in Nat /\ req[p].left \in Nat
  BY RequestTypes DEF IInv
<1>2. UploadOK(p, req[p].id)
  BY DEF IInv, SlotsOK, SlotOK
<1>3. IdOK(req[p].id)
  BY <1>1 DEF IInv, IdsOK
<1>4. \A q \in Slots : q # p /\ Uploading(q) => req[q].id # req[p].id
  BY DEF IInv, Exclusive
<1> QED BY <1>1, <1>2, <1>3, <1>4

LEMMA Idle ==
  ASSUME NEW p, NEW n, req'[p] = Over(n)
  PROVE  ~Uploading(p)' /\ SlotOK(p)'
BY DEF Over, Uploading, SlotOK

LEMMA StutterBody == ASSUME IInv, UNCHANGED body PROVE BodyInv'
BY BodyStutter DEF IInv, BodyInv, TypeOK

LEMMA UploadUnknownStep ==
  ASSUME IInv, NEW p \in Slots, UploadUnknown(p)
  PROVE  IInv'
<1>1. Over(415) \in Request /\ req' = [req EXCEPT ![p] = Over(415)]
  BY RequestMakers DEF UploadUnknown, Answer
<1>2. req'[p] = Over(415)
  BY <1>1, RequestStep DEF IInv
<1>3. ~Uploading(p) /\ ~Uploading(p)' /\ SlotOK(p)'
  BY <1>2, Idle DEF UploadUnknown, At, Uploading
<1> QED BY <1>1, <1>3, QuietStep, StutterBody DEF UploadUnknown, stores, history, IInv

LEMMA UploadOpenStep ==
  ASSUME IInv, NEW p \in Slots, NEW i \in Ids, NEW k \in Kinds, NEW n \in Sizes,
         UploadOpen(p, i, k, n)
  PROVE  IInv'
<1> DEFINE size == LessOf(Head, n)
           r == Copying(i, k, size, n - size)
           f == [kind |-> k, bytes |-> size]
<1>1. /\ n \in Nat /\ n > 0 /\ size \in Nat /\ n - size \in Nat
      /\ n = size + (n - size) /\ size <= Cap[k]
  BY Constants DEF LessOf
<1>2. r \in Request /\ f \in Content
  BY <1>1, RequestMakers DEF Content
<1>3. /\ req' = [req EXCEPT ![p] = r] /\ file' = [file EXCEPT ![i] = f]
      /\ sent' = [sent EXCEPT ![i] = n] /\ sent[i] = 0
      /\ UNCHANGED <<body, record, linked, shown, lost, faults, crashes>>
  BY DEF UploadOpen, OpenAs, Store
<1>4. /\ r.pc = "copy" /\ r.id = i /\ r.kind = k /\ r.size = size
      /\ r.left = n - size /\ f.kind = k /\ f.bytes = size
  BY DEF Copying
<1> HIDE DEF r, f, size
<1>5. /\ req' \in [Slots -> Request] /\ req'[p] = r
      /\ \A q \in Slots : q # p => req'[q] = req[q]
  BY <1>2, <1>3, RequestStep DEF IInv
<1>6. TypeOK'
  BY <1>1, <1>2, <1>3, <1>5 DEF IInv, TypeOK, BodyTypeOK
<1>7. /\ file'[i] = f /\ sent'[i] = n /\ record'[i] = record[i]
      /\ shown'[i] = shown[i]
      /\ \A j \in Ids : j # i => /\ file'[j] = file[j] /\ record'[j] = record[j]
                             /\ sent'[j] = sent[j] /\ shown'[j] = shown[j]
  BY <1>3 DEF IInv, TypeOK
<1>8. ~Uploading(p) /\ Uploading(p)' /\ IdOK(i)
  BY <1>4, <1>5 DEF UploadOpen, OpenAs, At, Uploading, IInv, IdsOK
<1>9. ASSUME NEW q \in Slots, Uploading(q) PROVE req[q].id # i
  <2>1. sent[req[q].id] > 0
    BY <1>9, OwnId DEF UploadOK
  <2> QED BY <1>3, <2>1
<1>10. record[i] = Absent /\ shown[i] = {}
  BY <1>3, <1>8 DEF IdOK
<1>11. SlotOK(p)'
  <2>1. UploadOK(p, i)'
    BY <1>1, <1>4, <1>5, <1>7, <1>10 DEF UploadOK, f
  <2> QED BY <1>4, <1>5, <2>1 DEF SlotOK
<1>12. IdOK(i)'
  BY <1>1, <1>4, <1>5, <1>7, <1>8, <1>10 DEF IdOK
<1> QED BY <1>3, <1>4, <1>5, <1>6, <1>7, <1>8, <1>9, <1>10, <1>11, <1>12, StepOn DEF InDatabase

LEMMA UploadChunkStep ==
  ASSUME IInv, NEW p \in Slots, UploadChunk(p)
  PROVE  IInv'
<1>0. Uploading(p)
  BY DEF UploadChunk, At, Uploading
<1>i. PICK i \in Ids : i = req[p].id
  BY <1>0, OwnId
<1> DEFINE k == req[p].kind
           m == NextSize(req[p])
           l == req[p].left - LessOf(Chunk, req[p].left)
           r == Copying(i, k, m, l)
           f == [kind |-> k, bytes |-> m]
<1>1. /\ i \in Ids /\ k \in Kinds /\ UploadOK(p, i) /\ IdOK(i)
      /\ req[p].size \in Nat /\ req[p].left \in Nat
      /\ \A q \in Slots : q # p /\ Uploading(q) => req[q].id # i
  BY <1>0, <1>i, OwnId
<1>2. /\ m \in Nat /\ l \in Nat /\ m + l = req[p].size + req[p].left /\ m <= Cap[k]
  BY <1>1, <1>i, Constants DEF NextSize, LessOf, UploadChunk, Fits
<1>3. r \in Request /\ f \in Content
  BY <1>1, <1>2, RequestMakers DEF Content
<1>4. /\ req' = [req EXCEPT ![p] = r] /\ file' = [file EXCEPT ![i] = f]
      /\ UNCHANGED <<body, record, linked, sent, shown, lost, faults, crashes>>
  BY <1>i DEF UploadChunk, Store, history
<1>5. /\ r.pc = "copy" /\ r.id = i /\ r.kind = k /\ r.size = m
      /\ r.left = l /\ f.kind = k /\ f.bytes = m
  BY DEF Copying
<1>6. sent[i] = m + l /\ sent[i] > 0 /\ record[i] = Absent /\ shown[i] = {}
  BY <1>1, <1>2, <1>i DEF UploadOK, IdOK
<1> HIDE DEF r, f, m, l, k
<1>7. /\ req' \in [Slots -> Request] /\ req'[p] = r
      /\ \A q \in Slots : q # p => req'[q] = req[q]
  BY <1>3, <1>4, RequestStep DEF IInv
<1>8. TypeOK'
  BY <1>1, <1>3, <1>4, <1>7 DEF IInv, TypeOK, BodyTypeOK
<1>9. /\ file'[i] = f /\ sent'[i] = sent[i] /\ record'[i] = record[i]
      /\ shown'[i] = shown[i]
      /\ \A j \in Ids : j # i => /\ file'[j] = file[j] /\ record'[j] = record[j]
                             /\ sent'[j] = sent[j] /\ shown'[j] = shown[j]
  BY <1>1, <1>4 DEF IInv, TypeOK
<1>10. Uploading(p)' /\ req[p].id = i /\ req'[p].id = i
  BY <1>i, <1>5, <1>7 DEF Uploading
<1>11. SlotOK(p)'
  <2>1. UploadOK(p, i)'
    BY <1>2, <1>5, <1>6, <1>7, <1>9 DEF UploadOK, f
  <2> QED BY <1>5, <1>7, <2>1 DEF SlotOK
<1>12. IdOK(i)'
  <2>1. p \in Slots /\ Uploading(p)' /\ req'[p].id = i
    BY <1>10
  <2> QED BY <1>2, <1>5, <1>6, <1>9, <2>1 DEF IdOK
<1> QED BY <1>1, <1>4, <1>6, <1>7, <1>8, <1>9, <1>10, <1>11, <1>12, StepOn DEF InDatabase

\* An upload given up before its document: its file goes.
LEMMA GiveUpStep ==
  ASSUME IInv, NEW p \in Slots, req[p].pc = "copy", NEW n \in Nat,
         Unlink(req[p].id), Answer(p, n), faults' \in Nat,
         UNCHANGED <<body, record, linked, sent, shown, lost, crashes>>
  PROVE  IInv'
<1>0. Uploading(p)
  BY DEF Uploading
<1>i. PICK i \in Ids : i = req[p].id
  BY <1>0, OwnId
<1>1. /\ i \in Ids /\ UploadOK(p, i) /\ IdOK(i)
      /\ \A q \in Slots : q # p /\ Uploading(q) => req[q].id # i
  BY <1>0, <1>i, OwnId
<1>2. Over(n) \in Request /\ req' = [req EXCEPT ![p] = Over(n)]
  BY RequestMakers DEF Answer
<1>3. /\ req' \in [Slots -> Request] /\ req'[p] = Over(n)
      /\ \A q \in Slots : q # p => req'[q] = req[q]
  BY <1>2, RequestStep DEF IInv
<1>4. file' = [file EXCEPT ![i] = Absent]
  BY <1>i DEF Unlink, Store
<1>5. ~Uploading(p)' /\ SlotOK(p)'
  BY <1>3, Idle
<1>6. sent[i] > 0 /\ record[i] = Absent /\ shown[i] = {}
  BY <1>1 DEF UploadOK, IdOK
<1>7. TypeOK'
  BY <1>1, <1>3, <1>4 DEF IInv, TypeOK, BodyTypeOK
<1>8. /\ file'[i] = Absent /\ sent'[i] = sent[i] /\ record'[i] = record[i]
      /\ shown'[i] = shown[i]
      /\ \A j \in Ids : j # i => /\ file'[j] = file[j] /\ record'[j] = record[j]
                             /\ sent'[j] = sent[j] /\ shown'[j] = shown[j]
  BY <1>1, <1>4 DEF IInv, TypeOK
<1>9. IdOK(i)'
  BY <1>6, <1>8 DEF IdOK
<1>10. Uploading(p) => req[p].id = i
  BY <1>i
<1> QED BY <1>1, <1>3, <1>5, <1>6, <1>7, <1>8, <1>9, <1>10, StepOn DEF InDatabase

LEMMA UploadTooLargeStep ==
  ASSUME IInv, NEW p \in Slots, UploadTooLarge(p)
  PROVE  IInv'
BY GiveUpStep DEF UploadTooLarge, At, IInv, TypeOK, history

LEMMA UploadFailsStep ==
  ASSUME IInv, NEW p \in Slots, UploadFails(p)
  PROVE  IInv'
BY GiveUpStep DEF UploadFails, At, IInv, TypeOK, Fault

LEMMA UploadCompleteStep ==
  ASSUME IInv, NEW p \in Slots, UploadComplete(p)
  PROVE  IInv'
<1>0. req[p].pc = "copy" /\ req[p].left = 0 /\ Uploading(p)
  BY DEF UploadComplete, At, Uploading
<1>i. PICK i \in Ids : i = req[p].id
  BY <1>0, OwnId
<1> DEFINE r == [pc |-> "insert", id |-> i, kind |-> req[p].kind,
                 size |-> req[p].size, left |-> req[p].left]
<1>1. /\ req[p].kind \in Kinds /\ req[p].size \in Nat /\ req[p].left \in Nat
      /\ UploadOK(p, i)
  BY <1>0, <1>i, OwnId
<1>2. r \in Request
  BY <1>1, RequestMakers
<1>3. [req[p] EXCEPT !.pc = "insert"] = r
  <2> DEFINE s == [pc |-> "copy", id |-> i, kind |-> req[p].kind,
                   size |-> req[p].size, left |-> req[p].left]
  <2>1. req[p] = s
    BY <1>0, <1>i, RequestTypes DEF IInv
  <2>2. [s EXCEPT !.pc = "insert"] = r
    OBVIOUS
  <2> HIDE DEF s
  <2> QED BY <2>1, <2>2
<1>4. req' = [req EXCEPT ![p] = r]
  BY <1>3 DEF UploadComplete, IInv, TypeOK
<1>5. /\ r.pc = "insert" /\ r.id = i /\ r.kind = req[p].kind
      /\ r.size = req[p].size /\ r.left = req[p].left
  OBVIOUS
<1> HIDE DEF r
<1>6. req'[p] = r
  BY <1>2, <1>4, RequestStep DEF IInv
<1>7. Uploading(p)' /\ (Uploading(p) => r.id = req[p].id)
  BY <1>i, <1>5, <1>6 DEF Uploading
<1>8. SlotOK(p)'
  <2>1. UploadOK(p, i)'
    BY <1>1, <1>5, <1>6 DEF UploadOK, UploadComplete, stores, history
  <2> QED BY <1>0, <1>5, <1>6, <2>1 DEF SlotOK
<1> QED BY <1>0, <1>2, <1>4, <1>7, <1>8, QuietStep, StutterBody
        DEF UploadComplete, stores, history, IInv

\* insert_one, answered or not: the document is stored.
LEMMA RecordStep ==
  ASSUME IInv, NEW p \in Slots, req[p].pc = "insert", NEW n \in Nat, Answer(p, n),
         record' = [record EXCEPT ![req[p].id] = Recorded(req[p])],
         faults' \in Nat, lost \subseteq lost', lost' \subseteq Ids,
         UNCHANGED <<body, file, linked, sent, shown, crashes>>
  PROVE  IInv'
<1>0. Uploading(p) /\ req[p].left = 0
  BY DEF Uploading, IInv, SlotsOK, SlotOK
<1>i. PICK i \in Ids : i = req[p].id
  BY <1>0, OwnId
<1>1. /\ UploadOK(p, i) /\ IdOK(i)
      /\ req[p].kind \in Kinds /\ req[p].size \in Nat
      /\ \A q \in Slots : q # p /\ Uploading(q) => req[q].id # i
  BY <1>0, <1>i, OwnId
<1> DEFINE d == Recorded(req[p])
<1>2. /\ d \in Metadata /\ d # Absent
      /\ d.kind = req[p].kind /\ d.size = req[p].size
  BY <1>1, Constants DEF Recorded, Metadata
<1>3. /\ sent[i] = d.size /\ sent[i] > 0 /\ shown[i] = {}
      /\ file[i] = [kind |-> d.kind, bytes |-> d.size] /\ d.size <= Cap[d.kind]
  BY <1>0, <1>1, <1>2 DEF UploadOK, IdOK
<1>4. file[i] # Absent /\ file[i].kind = d.kind /\ file[i].bytes = d.size
  <2>1. file[i] \in Content
    BY <1>1, <1>2, <1>3 DEF Content
  <2> QED BY <1>3, <2>1, Constants
<1> HIDE DEF d
<1>5. record' = [record EXCEPT ![i] = d]
  BY <1>i DEF d
<1>6. /\ req' \in [Slots -> Request] /\ req'[p] = Over(n)
      /\ \A q \in Slots : q # p => req'[q] = req[q]
  BY RequestMakers, RequestStep DEF IInv, Answer
<1>7. ~Uploading(p)' /\ SlotOK(p)'
  BY <1>6, Idle
<1>8. TypeOK'
  <2>1. record' \in [Ids -> Metadata \cup {Absent}]
    BY <1>2, <1>5 DEF IInv, TypeOK
  <2>2. BodyTypeOK'
    BY DEF IInv, TypeOK, BodyTypeOK
  <2> QED BY <1>6, <2>1, <2>2 DEF IInv, TypeOK
<1>9. /\ record'[i] = d /\ file'[i] = file[i] /\ sent'[i] = sent[i]
      /\ shown'[i] = shown[i]
      /\ \A j \in Ids : j # i => /\ file'[j] = file[j] /\ record'[j] = record[j]
                             /\ sent'[j] = sent[j] /\ shown'[j] = shown[j]
  BY <1>5 DEF IInv, TypeOK
<1>10. IdOK(i)'
  BY <1>2, <1>3, <1>4, <1>9 DEF IdOK
<1>11. i \in InDatabase'
  BY <1>2, <1>9 DEF InDatabase
<1>12. Uploading(p) => req[p].id = i
  BY <1>i
<1> QED BY <1>1, <1>6, <1>7, <1>8, <1>9, <1>10, <1>11, <1>12, StepOn

LEMMA UploadInsertStep ==
  ASSUME IInv, NEW p \in Slots, UploadInsert(p)
  PROVE  IInv'
<1>1. faults' \in Nat /\ lost' = lost /\ lost \subseteq Ids
  BY DEF UploadInsert, history, IInv, TypeOK
<1> QED BY <1>1, RecordStep DEF UploadInsert, At, history

LEMMA UploadInsertFailsStep ==
  ASSUME IInv, NEW p \in Slots, UploadInsertFails(p)
  PROVE  IInv'
<1>0. Uploading(p) /\ req[p].pc = "insert"
  BY DEF UploadInsertFails, At, Uploading
<1>i. PICK i \in Ids : i = req[p].id
  BY <1>0, OwnId
<1>1. /\ faults' \in Nat /\ lost' = lost \cup {i} /\ lost' \subseteq Ids
      /\ UNCHANGED <<body, file, linked, sent, shown, crashes>> /\ Answer(p, 500)
  BY <1>i DEF UploadInsertFails, Fault, IInv, TypeOK
<1>2. CASE record' = [record EXCEPT ![req[p].id] = Recorded(req[p])]
  <2>1. 500 \in Nat /\ lost \subseteq lost'
    BY <1>1
  <2> QED BY <1>0, <1>1, <1>2, <2>1, RecordStep
<1>3. CASE UNCHANGED record
  <2>1. /\ UploadOK(p, i) /\ IdOK(i)
        /\ \A q \in Slots : q # p /\ Uploading(q) => req[q].id # i
    BY <1>0, <1>i, OwnId
  <2>2. /\ req' \in [Slots -> Request] /\ req'[p] = Over(500)
        /\ \A q \in Slots : q # p => req'[q] = req[q]
    <3>1. Over(500) \in Request
      BY RequestMakers
    <3> QED BY <1>1, <3>1, RequestStep DEF IInv, Answer
  <2>3. ~Uploading(p)' /\ SlotOK(p)'
    BY <2>2, Idle
  <2>4. TypeOK'
    BY <1>1, <1>3, <2>2 DEF IInv, TypeOK, BodyTypeOK
  <2>5. IdOK(i)'
    BY <1>1, <1>3, <2>1 DEF IdOK
  <2>6. i \in InDatabase => i \in InDatabase'
    BY <1>3 DEF InDatabase
  <2> QED BY <1>i, <1>1, <1>3, <2>1, <2>2, <2>3, <2>4, <2>5, <2>6, StepOn
<1> QED BY <1>2, <1>3 DEF UploadInsertFails

LEMMA ServeUnknownStep ==
  ASSUME IInv, NEW p \in Slots, NEW i \in Ids, ServeUnknown(p, i)
  PROVE  IInv'
<1>1. Over(404) \in Request /\ req' = [req EXCEPT ![p] = Over(404)]
  BY RequestMakers DEF ServeUnknown, Answer
<1>2. req'[p] = Over(404)
  BY <1>1, RequestStep DEF IInv
<1>3. ~Uploading(p) /\ ~Uploading(p)' /\ SlotOK(p)'
  BY <1>2, Idle DEF ServeUnknown, At, Uploading
<1>4. shown' = shown
  BY DEF ServeUnknown, Show, IInv, IdsOK, IdOK
<1> QED BY <1>1, <1>3, <1>4, QuietStep, StutterBody DEF ServeUnknown, stores, IInv

LEMMA ServeLookupStep ==
  ASSUME IInv, NEW p \in Slots, NEW i \in Ids, ServeLookup(p, i)
  PROVE  IInv'
<1> DEFINE r == [pc |-> "serve", id |-> i]
<1>1. r \in Request /\ req' = [req EXCEPT ![p] = r]
  BY RequestMakers DEF ServeLookup
<1>2. req'[p] = r
  BY <1>1, RequestStep DEF IInv
<1>3. ~Uploading(p) /\ ~Uploading(p)'
  BY <1>2 DEF ServeLookup, At, Uploading
<1>4. SlotOK(p)'
  BY <1>2, <1>3 DEF SlotOK, InDatabase, ServeLookup, stores
<1> HIDE DEF r
<1> QED BY <1>1, <1>3, <1>4, QuietStep, StutterBody
        DEF ServeLookup, stores, history, IInv

LEMMA ServeFileStep ==
  ASSUME IInv, NEW p \in Slots, ServeFile(p)
  PROVE  IInv'
<1>0. req[p].pc = "serve" /\ ~Uploading(p) /\ SlotOK(p)
  BY DEF ServeFile, At, Uploading, IInv, SlotsOK
<1>i. PICK i \in Ids : i = req[p].id
  BY <1>0, RequestTypes DEF IInv
<1>1. record[i] # Absent /\ IdOK(i)
  BY <1>0, <1>i DEF SlotOK, InDatabase, IInv, IdsOK
<1>2. PICK n \in Nat : Answer(p, n)
  BY DEF ServeFile
<1>3. UNCHANGED <<body, file, record, linked, sent, lost, faults, crashes>>
  BY DEF ServeFile, stores
<1>4. /\ req' \in [Slots -> Request] /\ req'[p] = Over(n)
      /\ \A q \in Slots : q # p => req'[q] = req[q]
  BY <1>2, RequestMakers, RequestStep DEF IInv, Answer
<1>5. ~Uploading(p)' /\ SlotOK(p)'
  BY <1>4, Idle
<1>6. file[i] # Absent /\ file[i] \in Content
  <2>1. record[i] \in Metadata
    BY <1>1 DEF IInv, TypeOK
  <2>2. [kind |-> record[i].kind, bytes |-> record[i].size] \in Content
    BY <2>1 DEF Metadata, Content
  <2> QED BY <1>1, <2>2, Constants DEF IdOK
<1>7. shown' = [shown EXCEPT ![i] = @ \cup {file[i]}]
  BY <1>i, <1>6 DEF ServeFile, Show
<1>8. shown'[i] = {file[i]}
  BY <1>1, <1>7 DEF IdOK, IInv, TypeOK
<1>9. \A j \in Ids : j # i => shown'[j] = shown[j]
  BY <1>7 DEF IInv, TypeOK
<1>10. TypeOK'
  BY <1>3, <1>4, <1>6, <1>7 DEF IInv, TypeOK, BodyTypeOK
<1>11. IdOK(i)'
  BY <1>1, <1>3, <1>8 DEF IdOK
<1>12. ASSUME NEW q \in Slots, Uploading(q) PROVE req[q].id # i
  <2>1. record[req[q].id] = Absent
    BY <1>12, OwnId DEF UploadOK
  <2> QED BY <1>1, <2>1
<1>13. i \in InDatabase => i \in InDatabase'
  BY <1>3 DEF InDatabase
<1> QED BY <1>0, <1>3, <1>4, <1>5, <1>9, <1>10, <1>11, <1>12, <1>13, StepOn

\* A request that ends without an upload.
LEMMA EndStep ==
  ASSUME IInv, BodyInv', NEW p \in Slots, ~Uploading(p), NEW n \in Nat, Answer(p, n),
         UNCHANGED <<file, record, sent, shown, lost, faults, crashes>>,
         linked' \subseteq InDatabase
  PROVE  IInv'
<1>1. Over(n) \in Request /\ req' = [req EXCEPT ![p] = Over(n)]
  BY RequestMakers DEF Answer
<1>2. req'[p] = Over(n)
  BY <1>1, RequestStep DEF IInv
<1>3. ~Uploading(p)' /\ SlotOK(p)'
  BY <1>2, Idle
<1> QED BY <1>1, <1>3, QuietStep

\* A request that goes on and is no upload.
LEMMA GoOnStep ==
  ASSUME IInv, BodyInv', NEW p \in Slots, ~Uploading(p), NEW r \in Request,
         req' = [req EXCEPT ![p] = r], r.pc \in {"body", "check"},
         r.pc = "check" => r.media \ r.todo \subseteq InDatabase,
         UNCHANGED <<stores, history>>
  PROVE  IInv'
<1>1. req'[p] = r
  BY RequestStep DEF IInv
<1>2. ~Uploading(p)'
  BY <1>1 DEF Uploading
<1>3. SlotOK(p)'
  BY <1>1, <1>2 DEF SlotOK, InDatabase, stores
<1> QED BY <1>2, <1>3, QuietStep DEF stores, history, IInv

LEMMA CommentArriveStep ==
  ASSUME IInv, NEW p \in Slots, NEW n \in Bodies, NEW d \in Lengths,
         CommentArrive(p, n, d)
  PROVE  IInv'
<1>1. BodyInv'
  BY DeclareStep DEF CommentArrive, IInv, BodyInv, TypeOK
<1>2. ~Uploading(p)
  BY DEF CommentArrive, At, Uploading
<1> DEFINE r == [pc |-> "body"]
<1>3. r \in Request /\ r.pc = "body" /\ req' = [req EXCEPT ![p] = r]
  BY RequestMakers DEF CommentArrive
<1> HIDE DEF r
<1> QED BY <1>1, <1>2, <1>3, GoOnStep DEF CommentArrive

LEMMA CommentReceiveStep ==
  ASSUME IInv, NEW p \in Slots, NEW c, CommentReceive(p, c)
  PROVE  IInv'
<1>1. BodyInv'
  BY MessageStep DEF CommentReceive, IInv, BodyInv, TypeOK
<1>2. ~Uploading(p) /\ req[p].pc = "body"
  BY DEF CommentReceive, At, Uploading
<1>3. req[p] \in Request /\ req' = [req EXCEPT ![p] = req[p]]
  BY DEF CommentReceive, IInv, TypeOK
<1> QED BY <1>1, <1>2, <1>3, GoOnStep DEF CommentReceive

LEMMA CommentEndStep ==
  ASSUME IInv, NEW p \in Slots, CommentRefused(p) \/ CommentAbandoned(p)
  PROVE  IInv'
<1>1. ~Uploading(p) /\ Dismiss(p) /\ UNCHANGED <<stores, history>>
  BY DEF CommentRefused, CommentAbandoned, At, Uploading
<1>2. BodyInv'
  BY <1>1, DismissStep DEF IInv, BodyInv, TypeOK
<1>3. PICK n \in Nat : Answer(p, n)
  BY DEF CommentRefused, CommentAbandoned
<1> QED BY <1>1, <1>2, <1>3, EndStep DEF stores, history, IInv

LEMMA CommentReadStep ==
  ASSUME IInv, NEW p \in Slots, NEW media \in Mentions, CommentRead(p, media)
  PROVE  IInv'
<1>1. ~Uploading(p) /\ Dismiss(p) /\ UNCHANGED <<stores, history>>
  BY DEF CommentRead, At, Uploading
<1>2. BodyInv'
  BY <1>1, DismissStep DEF IInv, BodyInv, TypeOK
<1> DEFINE r == [pc |-> "check", media |-> media, todo |-> media]
<1>3. r \in Request /\ req' = [req EXCEPT ![p] = r]
  BY Constants, RequestMakers DEF CommentRead
<1>4. r.pc = "check" /\ r.media \ r.todo = {}
  OBVIOUS
<1> HIDE DEF r
<1> QED BY <1>1, <1>2, <1>3, <1>4, GoOnStep

LEMMA CommentCheckStep ==
  ASSUME IInv, NEW p \in Slots, NEW url, CommentCheck(p, url)
  PROVE  IInv'
<1>1. ~Uploading(p) /\ req[p].pc = "check" /\ BodyInv' /\ UNCHANGED <<stores, history>>
  BY StutterBody DEF CommentCheck, At, Uploading
<1>2. CASE Exists(url)
  <2> DEFINE r == [pc |-> "check", media |-> req[p].media,
                   todo |-> req[p].todo \ {url}]
  <2>1. /\ req[p].media \in Mentions /\ req[p].todo \subseteq Ids \cup {Elsewhere}
        /\ req[p] = [pc |-> "check", media |-> req[p].media, todo |-> req[p].todo]
    BY <1>1, RequestTypes DEF IInv
  <2>2. r \in Request
    BY <2>1, RequestMakers
  <2>3. [req[p] EXCEPT !.todo = @ \ {url}] = r
    BY <2>1
  <2>4. req' = [req EXCEPT ![p] = r]
    BY <1>2, <2>3 DEF CommentCheck, IInv, TypeOK
  <2>5. r.pc = "check" /\ r.media \ r.todo \subseteq InDatabase
    BY <1>1, <1>2 DEF Exists, InDatabase, IInv, SlotsOK, SlotOK
  <2> HIDE DEF r
  <2> QED BY <1>1, <2>2, <2>4, <2>5, GoOnStep
<1>3. CASE ~Exists(url)
  <2>1. 422 \in Nat /\ Answer(p, 422)
    BY <1>3 DEF CommentCheck
  <2> QED BY <1>1, <2>1, EndStep DEF stores, history, IInv
<1> QED BY <1>2, <1>3

LEMMA CommentInsertStep ==
  ASSUME IInv, NEW p \in Slots, CommentInsert(p)
  PROVE  IInv'
<1>1. ~Uploading(p) /\ req[p].pc = "check" /\ req[p].todo = {} /\ BodyInv'
  BY StutterBody DEF CommentInsert, At, Uploading
<1>2. req[p].media \subseteq InDatabase
  BY <1>1 DEF IInv, SlotsOK, SlotOK
<1>3. linked' \subseteq InDatabase
  BY <1>2 DEF CommentInsert, IInv
<1>4. 201 \in Nat
  OBVIOUS
<1> QED BY <1>1, <1>3, <1>4, EndStep DEF CommentInsert, history

----------------------------------------------------------------------------
(* A crash *)

\* An id is of one upload at most: being copied, being recorded, or neither.
LEMMA CrashedIds ==
  ASSUME IInv, NEW i \in Ids, NEW done \in SUBSET Writing("insert")
  PROVE  /\ i \in IdsOf(Writing("copy")) =>
              \E p \in Slots : req[p].pc = "copy" /\ UploadOK(p, i) /\ req[p].id = i
         /\ i \in IdsOf(done) =>
              \E p \in done : /\ p \in Slots /\ req[p].pc = "insert" /\ req[p].id = i
                              /\ UploadOK(p, i)
         /\ ~(i \in IdsOf(Writing("copy")) /\ i \in IdsOf(done))
<1>1. \A p \in Slots : Uploading(p) => UploadOK(p, req[p].id)
  BY DEF IInv, SlotsOK, SlotOK
<1> QED BY <1>1 DEF IdsOf, Writing, At, Uploading, IInv, Exclusive

LEMMA TornFile ==
  ASSUME IInv, NEW i \in Ids, file'[i] \in Torn(i)
  PROVE  /\ i \notin IdsOf(Writing("copy")) => file'[i] = file[i]
         /\ file'[i] \in Content \cup {Absent}
         /\ file'[i] # Absent => file'[i].bytes <= Cap[file'[i].kind]
<1>1. /\ file[i] \in Content \cup {Absent}
      /\ file[i] # Absent => file[i].bytes <= Cap[file[i].kind]
  BY DEF IInv, TypeOK, IdsOK, IdOK
<1>2. CASE i \in IdsOf(Writing("copy"))
  <2>1. PICK p \in Slots : req[p].pc = "copy" /\ UploadOK(p, i) /\ req[p].id = i
    BY <1>2, CrashedIds
  <2>2. req[p].kind \in Kinds /\ req[p].size \in Nat /\ Cap[req[p].kind] \in Nat
    BY <2>1, RequestTypes, Constants DEF IInv, Uploading
  <2>3. /\ file[i] = [kind |-> req[p].kind, bytes |-> req[p].size]
        /\ req[p].size <= Cap[req[p].kind]
    BY <2>1 DEF UploadOK
  <2>4. PICK n \in 0 .. file[i].bytes : file'[i] = [file[i] EXCEPT !.bytes = n]
    BY <1>2 DEF Torn
  <2>5. file'[i] = [kind |-> req[p].kind, bytes |-> n] /\ n \in 0 .. req[p].size
    BY <2>3, <2>4
  <2> QED BY <1>2, <2>2, <2>3, <2>5 DEF Content
<1>3. CASE i \notin IdsOf(Writing("copy"))
  <2>1. file'[i] = file[i]
    BY <1>3 DEF Torn
  <2> QED BY <1>1, <1>3, <2>1
<1> QED BY <1>2, <1>3

LEMMA CrashStep ==
  ASSUME IInv, Crash
  PROVE  IInv'
<1> DEFINE Chosen(done, i) == CHOOSE p \in done : req[p].id = i
<1>1. PICK done \in SUBSET Writing("insert") :
        record' = [i \in Ids |-> IF i \in IdsOf(done)
                    THEN Recorded(req[Chosen(done, i)]) ELSE record[i]]
  BY DEF Crash
<1>2. /\ file' \in [Ids -> UNION { Torn(i) : i \in Ids }]
      /\ \A i \in Ids : file'[i] \in Torn(i)
      /\ lost' = lost \cup IdsOf(Writing("copy") \cup Writing("insert"))
      /\ req' = [p \in Slots |-> Over(0)] /\ body' = [p \in Slots |-> NoBody]
      /\ crashes' = crashes + 1 /\ UNCHANGED <<linked, sent, shown, faults>>
  BY DEF Crash
\* Where insert_one got through, the document is that of the one upload of its id.
<1>3. ASSUME NEW i \in Ids, i \in IdsOf(done)
      PROVE  \E q \in Slots : /\ req[q].pc = "insert" /\ req[q].id = i
                               /\ UploadOK(q, i) /\ record'[i] = Recorded(req[q])
  <2>1. \E p \in done : req[p].id = i
    BY <1>3, CrashedIds
  <2>2. Chosen(done, i) \in done /\ req[Chosen(done, i)].id = i
    BY <2>1
  <2> DEFINE q == Chosen(done, i)
  <2>3. q \in Slots /\ req[q].pc = "insert" /\ req[q].id = i
    BY <2>2 DEF Writing, At
  <2>4. UploadOK(q, i)
    BY <2>3 DEF IInv, SlotsOK, SlotOK, Uploading
  <2>5. record'[i] = Recorded(req[q])
    BY <1>1, <1>3
  <2> HIDE DEF q
  <2> QED BY <2>3, <2>4, <2>5
<1>4. \A i \in Ids : i \notin IdsOf(done) => record'[i] = record[i]
  BY <1>1
<1>5. \A i \in Ids : i \in InDatabase => record'[i] = record[i]
  <2>1. ASSUME NEW i \in Ids, i \in IdsOf(done) PROVE record[i] = Absent
    BY <2>1, <1>3 DEF UploadOK
  <2> QED BY <1>4, <2>1 DEF InDatabase
<1>6. TypeOK'
  <2>1. \A i \in Ids : file'[i] \in Content \cup {Absent}
    BY <1>2, TornFile
  <2>2. file' \in [Ids -> Content \cup {Absent}]
    BY <1>2, <2>1
  <2>3. ASSUME NEW i \in Ids PROVE record'[i] \in Metadata \cup {Absent}
    <3>1. CASE i \in IdsOf(done)
      <4>1. PICK q \in Slots : req[q].pc = "insert" /\ record'[i] = Recorded(req[q])
        BY <1>3, <3>1
      <4>2. req[q].kind \in Kinds /\ req[q].size \in Nat
        BY <4>1, RequestTypes DEF IInv, Uploading
      <4> QED BY <4>1, <4>2 DEF Recorded, Metadata
    <3>2. CASE i \notin IdsOf(done)
      BY <1>4, <3>2 DEF IInv, TypeOK
    <3> QED BY <3>1, <3>2
  <2>4. record' \in [Ids -> Metadata \cup {Absent}]
    BY <1>1, <2>3
  <2>5. lost' \subseteq Ids
    <3>1. \A p \in Writing("copy") \cup Writing("insert") : req[p].id \in Ids
      BY RequestTypes DEF IInv, Writing, At, Uploading
    <3> QED BY <1>2, <3>1 DEF IdsOf, IInv, TypeOK
  <2>6. req' \in [Slots -> Request]
    BY <1>2, RequestMakers
  <2>7. BodyTypeOK'
    BY <1>2, NoBodyOK DEF BodyTypeOK
  <2>8. {faults, crashes}' \subseteq Nat
    BY <1>2 DEF IInv, TypeOK
  <2> QED BY <1>2, <2>2, <2>4, <2>5, <2>6, <2>7, <2>8 DEF IInv, TypeOK
<1>7. \A p \in Slots : ~Uploading(p)' /\ SlotOK(p)'
  BY <1>2, Idle
<1>8. \A p \in Slots : BodyOK(p)'
  BY <1>2, NoBodyOK DEF BodyOK
<1>9. ASSUME NEW i \in Ids PROVE IdOK(i)'
  <2>0. IdOK(i) /\ sent'[i] = sent[i] /\ shown'[i] = shown[i]
    BY <1>2 DEF IInv, IdsOK
  <2>f. /\ i \notin IdsOf(Writing("copy")) => file'[i] = file[i]
        /\ file'[i] # Absent => file'[i].bytes <= Cap[file'[i].kind]
    BY <1>2, TornFile
  <2>1. CASE i \in IdsOf(Writing("copy"))
    <3>1. PICK p \in Slots : req[p].pc = "copy" /\ UploadOK(p, i) /\ req[p].id = i
      BY <2>1, CrashedIds
    <3>2. record'[i] = Absent /\ shown'[i] = {} /\ sent'[i] > 0
      BY <1>4, <2>0, <2>1, <3>1, CrashedIds DEF UploadOK, IdOK
    <3>3. i \in lost'
      BY <1>2, <2>1 DEF IdsOf
    <3> QED BY <2>0, <2>f, <3>2, <3>3 DEF IdOK
  <2>2. CASE i \in IdsOf(done)
    <3>1. PICK q \in Slots : /\ req[q].pc = "insert" /\ req[q].id = i
                             /\ UploadOK(q, i) /\ record'[i] = Recorded(req[q])
      BY <1>3, <2>2
    <3>2. req[q].kind \in Kinds /\ req[q].size \in Nat /\ req[q].left = 0
      BY <3>1, RequestTypes DEF IInv, Uploading, SlotsOK, SlotOK
    <3>3. /\ record'[i] \in Metadata /\ record'[i].kind = req[q].kind
          /\ record'[i].size = req[q].size
      BY <3>1, <3>2 DEF Recorded, Metadata
    <3>4. /\ file'[i] = [kind |-> req[q].kind, bytes |-> req[q].size]
          /\ sent'[i] = req[q].size /\ sent'[i] > 0 /\ shown'[i] = {}
      BY <2>0, <2>2, <2>f, <3>1, <3>2, CrashedIds DEF UploadOK, IdOK
    <3> QED BY <2>f, <3>3, <3>4, Constants DEF IdOK
  <2>3. CASE i \notin IdsOf(Writing("copy")) /\ i \notin IdsOf(done)
    <3>1. file'[i] = file[i] /\ record'[i] = record[i]
      BY <1>4, <2>3, <2>f
    <3>2. file[i] # Absent /\ record[i] = Absent => i \in lost'
      <4>1. ASSUME NEW p \in Slots, Uploading(p), req[p].id = i PROVE i \in lost'
        BY <1>2, <4>1 DEF IdsOf, Writing, At, Uploading
      <4> QED BY <1>2, <2>0, <4>1 DEF IdOK
    <3> QED BY <2>0, <3>1, <3>2 DEF IdOK
  <2> QED BY <2>1, <2>2, <2>3
<1>10. Exclusive'
  BY <1>7 DEF Exclusive
<1>11. linked' \subseteq InDatabase'
  BY <1>2, <1>5 DEF IInv, InDatabase
<1> QED BY <1>6, <1>7, <1>8, <1>9, <1>10, <1>11 DEF IInv, BodiesOK, SlotsOK, IdsOK

----------------------------------------------------------------------------
(* Theorems *)

LEMMA InitIInv == ASSUME Init PROVE IInv
<1>1. TypeOK
  BY RequestMakers, NoBodyOK DEF Init, BodyInit, TypeOK, BodyTypeOK
<1>2. \A p \in Slots : BodyOK(p)
  BY NoBodyOK DEF Init, BodyInit, BodyOK
<1>3. \A p \in Slots : ~Uploading(p) /\ SlotOK(p)
  BY DEF Init, Over, Uploading, SlotOK
<1>4. \A i \in Ids : IdOK(i)
  BY DEF Init, IdOK
<1> QED BY <1>1, <1>2, <1>3, <1>4
        DEF IInv, BodiesOK, SlotsOK, IdsOK, Exclusive, Init

LEMMA NextIInv == ASSUME IInv, [Next]_vars PROVE IInv'
<1>1. CASE UNCHANGED vars
  <2>1. UNCHANGED <<body, req, file, record, linked, sent, shown, lost, faults, crashes>>
    BY <1>1 DEF vars, stores, history
  <2> QED BY <2>1 DEF IInv, TypeOK, BodyTypeOK, BodiesOK, BodyOK, SlotsOK, SlotOK,
                      UploadOK, IdsOK, IdOK, Exclusive, Uploading, InDatabase
<1>2. CASE Crash
  BY <1>2, CrashStep
<1>3. ASSUME NEW p \in Slots, Upload(p) PROVE IInv'
  BY <1>3, UploadUnknownStep, UploadOpenStep, UploadChunkStep, UploadTooLargeStep,
     UploadCompleteStep, UploadFailsStep, UploadInsertStep, UploadInsertFailsStep
     DEF Upload
<1>4. ASSUME NEW p \in Slots, Serve(p) PROVE IInv'
  BY <1>4, ServeFileStep, ServeUnknownStep, ServeLookupStep DEF Serve
<1>5. ASSUME NEW p \in Slots, Comment(p) PROVE IInv'
  BY <1>5, CommentArriveStep, CommentReceiveStep, CommentEndStep, CommentReadStep,
     CommentCheckStep, CommentInsertStep DEF Comment
<1> QED BY <1>1, <1>2, <1>3, <1>4, <1>5 DEF Next

\* Files, documents, requests and history keep their types in every behaviour.
THEOREM TypeCorrect == Spec => []TypeOK
<1>1. IInv => TypeOK
  BY DEF IInv
<1> QED BY <1>1, InitIInv, NextIInv, PTL DEF Spec

\* Every recorded upload is on disk, whole, and comments refer to nothing else,
\* for every number of requests, ids, sizes, faults and crashes.
THEOREM RecordedIsOnDisk == Spec => []MediaServed
<1>1. IInv => MediaServed
  BY DEF IInv, MediaServed, InDatabase, IdsOK, IdOK
<1> QED BY <1>1, InitIInv, NextIInv, PTL DEF Spec

\* What serve answered for a URL that worked is what it answers ever after.
THEOREM Immutable == Spec => []ServedForever
<1>1. IInv => ServedForever
  BY DEF IInv, ServedForever, IdsOK, IdOK
<1> QED BY <1>1, InitIInv, NextIInv, PTL DEF Spec

\* A file without a document belongs to an upload in progress or cut off.
THEOREM NothingLeftBehind == Spec => []Tidy
<1>1. IInv => Tidy
  <2>1. ASSUME IInv, NEW i \in Ids, file[i] # Absent, record[i] = Absent, i \notin lost
        PROVE  i \in IdsOf(Writing("copy") \cup Writing("insert"))
    <3>1. PICK p \in Slots : Uploading(p) /\ req[p].id = i
      BY <2>1 DEF IInv, IdsOK, IdOK
    <3> QED BY <3>1 DEF IdsOf, Writing, At, Uploading
  <2> QED BY <2>1 DEF Tidy
<1> QED BY <1>1, InitIInv, NextIInv, PTL DEF Spec

\* Handlers and files get no more than the limits, whatever is declared and
\* however the bytes are cut into messages.
THEOREM Bounded == Spec => []InputBounded
<1>1. IInv => InputBounded
  BY DEF IInv, InputBounded, BodiesOK, BodyOK, IdsOK, IdOK
<1> QED BY <1>1, InitIInv, NextIInv, PTL DEF Spec
=============================================================================
