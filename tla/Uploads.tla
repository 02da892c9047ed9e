------------------------------- MODULE Uploads -------------------------------
(***************************************************************************)
(* Media of the api-service: an upload is copied to a file and then        *)
(* recorded in the collection uploads (routers/uploads.py), a comment may  *)
(* refer to what is recorded (routers/comments.py), and GET /uploads/<id>  *)
(* serves it.  File system and database are two stores.  Uploads have      *)
(* their own limits; every other body passes BodyLimit.                    *)
(***************************************************************************)
EXTENDS BodyLimit

CONSTANTS Ids,        \* the random ids of uploads
          Elsewhere,  \* a URL that is none of /uploads/<id>
          Mentions,   \* bound: the sets of URLs comments refer to
          Cap,        \* kind -> max_image_bytes, max_video_bytes
          Head,       \* bytes read to recognise the kind
          Chunk,      \* _CHUNK
          Sizes,      \* bound: the sizes of the files clients send
          Absent,     \* no document, no file
          MaxFaults, MaxCrashes   \* bounds

Kinds == DOMAIN Cap
Content == [kind : Kinds, bytes : Nat]
Metadata == [kind : Kinds, size : Nat]

ASSUME UploadsAssumption ==
  /\ Cap \in [Kinds -> Nat] /\ {Head, Chunk} \subseteq Nat \ {0}
  /\ \A k \in Kinds : Head <= Cap[k]
  /\ Sizes \subseteq Nat \ {0} /\ Elsewhere \notin Ids
  /\ Mentions \subseteq SUBSET (Ids \cup {Elsewhere})
  /\ {MaxFaults, MaxCrashes} \subseteq Nat
  /\ Absent \notin Content \cup Metadata

VARIABLES req,      \* slot -> the request it serves, or the last answer
          file,     \* id -> the file of that name in uploads_dir
          record,   \* id -> its document in the collection uploads
          linked,   \* the URLs that stored comments refer to
          sent,     \* history: id -> bytes the client sent (0: id not drawn)
          shown,    \* history: id -> the answers its URL got since it first worked
                    \* (Absent is 404)
          lost,     \* history: ids of uploads that a crash or a failing
                    \* insert cut off
          faults, crashes

stores == <<file, record, linked>>
history == <<sent, shown, lost, faults, crashes>>
vars == <<body, req, stores, history>>

\* A request that is over, with its status code.
Over(status) == [pc |-> "idle", answer |-> status]
Copying(id, kind, size, left) ==
  [pc |-> "copy", id |-> id, kind |-> kind, size |-> size, left |-> left]

Init == /\ BodyInit
        /\ req = [p \in Slots |-> Over(0)]
        /\ file = [i \in Ids |-> Absent]
        /\ record = [i \in Ids |-> Absent]
        /\ linked = {} /\ lost = {} /\ faults = 0 /\ crashes = 0
        /\ sent = [i \in Ids |-> 0]
        /\ shown = [i \in Ids |-> {}]

At(p, step) == req[p].pc = step
Answer(p, status) == req' = [req EXCEPT ![p] = Over(status)]
Store(i, content) == file' = [file EXCEPT ![i] = content]
Unlink(i) == Store(i, Absent)
LessOf(m, n) == IF m < n THEN m ELSE n

----------------------------------------------------------------------------
(* upload *)

\* No magic number of an image or a video at the start.
UploadUnknown(p) ==
  /\ At(p, "idle") /\ Answer(p, 415)
  /\ UNCHANGED <<body, stores, history>>

\* A recognised upload of n bytes: the file is opened and gets the head.
OpenAs(p, i, kind, n) ==
  LET size == LessOf(Head, n)
  IN /\ At(p, "idle") /\ sent[i] = 0
     /\ sent' = [sent EXCEPT ![i] = n]
     /\ Store(i, [kind |-> kind, bytes |-> size])
     /\ req' = [req EXCEPT ![p] = Copying(i, kind, size, n - size)]
     /\ UNCHANGED <<body, linked, shown, lost, faults, crashes>>

UploadOpen_RecordsFirst(p, i, kind, n) ==
  /\ OpenAs(p, i, kind, n)
  /\ record' = [record EXCEPT ![i] = [kind |-> kind, size |-> n]]
UploadOpen(p, i, kind, n) == OpenAs(p, i, kind, n) /\ UNCHANGED record

NextSize(r) == r.size + LessOf(Chunk, r.left)
Fits(r) == NextSize(r) <= Cap[r.kind]

UploadChunk(p) ==
  LET r == req[p]
  IN /\ At(p, "copy") /\ r.left > 0 /\ Fits(r)
     /\ Store(r.id, [kind |-> r.kind, bytes |-> NextSize(r)])
     /\ req' = [req EXCEPT ![p] =
          Copying(r.id, r.kind, NextSize(r), r.left - LessOf(Chunk, r.left))]
     /\ UNCHANGED <<body, record, linked, history>>

UploadTooLarge_KeepsFile(p) ==
  /\ At(p, "copy") /\ req[p].left > 0 /\ ~Fits(req[p])
  /\ Answer(p, 413) /\ UNCHANGED <<body, stores, history>>
UploadTooLarge(p) ==
  /\ At(p, "copy") /\ req[p].left > 0 /\ ~Fits(req[p])
  /\ Unlink(req[p].id) /\ Answer(p, 413)
  /\ UNCHANGED <<body, record, linked, history>>

\* The last read is empty: the file is closed.
UploadComplete(p) ==
  /\ At(p, "copy") /\ req[p].left = 0
  /\ req' = [req EXCEPT ![p].pc = "insert"]
  /\ UNCHANGED <<body, stores, history>>

Fault == faults < MaxFaults /\ faults' = faults + 1

\* Reading or writing a chunk raises.
UploadFails_Recorded(p) ==
  /\ At(p, "copy") /\ Fault
  /\ req' = [req EXCEPT ![p].pc = "insert"]
  /\ UNCHANGED <<body, stores, sent, shown, lost, crashes>>
UploadFails(p) ==
  /\ At(p, "copy") /\ Fault
  /\ Unlink(req[p].id) /\ Answer(p, 500)
  /\ UNCHANGED <<body, record, linked, sent, shown, lost, crashes>>

Recorded(r) == [kind |-> r.kind, size |-> r.size]

UploadInsert(p) ==
  /\ At(p, "insert")
  /\ record' = [record EXCEPT ![req[p].id] = Recorded(req[p])]
  /\ Answer(p, 201)
  /\ UNCHANGED <<body, file, linked, history>>

\* insert_one raises, whether or not the document was stored.
UploadInsertFails(p) ==
  /\ At(p, "insert") /\ Fault
  /\ \/ record' = [record EXCEPT ![req[p].id] = Recorded(req[p])]
     \/ UNCHANGED record
  /\ lost' = lost \cup {req[p].id} /\ Answer(p, 500)
  /\ UNCHANGED <<body, file, linked, sent, shown, crashes>>

----------------------------------------------------------------------------
(* serve *)

Show(i, answer) ==
  shown' = IF answer = Absent /\ shown[i] = {} THEN shown
           ELSE [shown EXCEPT ![i] = @ \cup {answer}]

ServeUnknown(p, i) ==
  /\ At(p, "idle") /\ record[i] = Absent
  /\ Show(i, Absent) /\ Answer(p, 404)
  /\ UNCHANGED <<body, stores, sent, lost, faults, crashes>>

ServeLookup(p, i) ==
  /\ At(p, "idle") /\ record[i] # Absent
  /\ req' = [req EXCEPT ![p] = [pc |-> "serve", id |-> i]]
  /\ UNCHANGED <<body, stores, history>>

ServeFile(p) ==
  /\ At(p, "serve") /\ Show(req[p].id, file[req[p].id])
  /\ Answer(p, IF file[req[p].id] = Absent THEN 404 ELSE 200)
  /\ UNCHANGED <<body, stores, sent, lost, faults, crashes>>

----------------------------------------------------------------------------
(* add_comment, as far as media are concerned *)

\* The body of the request comes through the middleware.
CommentArrive(p, n, declared) ==
  /\ At(p, "idle") /\ Declare(p, n, declared)
  /\ req' = [req EXCEPT ![p] = [pc |-> "body"]]
  /\ UNCHANGED <<stores, history>>

CommentReceive(p, c) ==
  At(p, "body") /\ Message(p, c) /\ UNCHANGED <<req, stores, history>>

CommentRefused(p) ==
  /\ At(p, "body") /\ body[p].pc = "refused" /\ Dismiss(p) /\ Answer(p, 413)
  /\ UNCHANGED <<stores, history>>

\* http.disconnect: the client leaves in the middle of the body.
CommentAbandoned(p) ==
  /\ At(p, "body") /\ body[p].pc = "streaming" /\ Dismiss(p) /\ Answer(p, 0)
  /\ UNCHANGED <<stores, history>>

CommentRead(p, media) ==
  /\ At(p, "body") /\ body[p].pc = "read" /\ Dismiss(p)
  /\ req' = [req EXCEPT ![p] = [pc |-> "check", media |-> media, todo |-> media]]
  /\ UNCHANGED <<stores, history>>

\* upload_exists, one lookup per URL.
Exists(url) == url \in Ids /\ record[url] # Absent

CommentCheck(p, url) ==
  /\ At(p, "check") /\ url \in req[p].todo
  /\ IF Exists(url) THEN req' = [req EXCEPT ![p].todo = @ \ {url}]
     ELSE Answer(p, 422)
  /\ UNCHANGED <<body, stores, history>>

CommentInsert(p) ==
  /\ At(p, "check") /\ req[p].todo = {}
  /\ linked' = linked \cup req[p].media
  /\ Answer(p, 201) /\ UNCHANGED <<body, file, record, history>>

----------------------------------------------------------------------------

\* The process dies and is started again: of a file being written any prefix
\* is on disk, an insert under way may or may not have reached the database.
Writing(step) == { p \in Slots : At(p, step) }
IdsOf(slots) == { req[p].id : p \in slots }

Torn(i) ==
  IF i \in IdsOf(Writing("copy"))
  THEN { [file[i] EXCEPT !.bytes = n] : n \in 0 .. file[i].bytes }
  ELSE { file[i] }

Crash ==
  /\ crashes < MaxCrashes /\ crashes' = crashes + 1
  /\ file' \in [Ids -> UNION { Torn(i) : i \in Ids }]
  /\ \A i \in Ids : file'[i] \in Torn(i)
  /\ \E done \in SUBSET Writing("insert") :
       record' = [i \in Ids |->
         IF i \in IdsOf(done)
         THEN Recorded(req[CHOOSE p \in done : req[p].id = i]) ELSE record[i]]
  /\ lost' = lost \cup IdsOf(Writing("copy") \cup Writing("insert"))
  /\ req' = [p \in Slots |-> Over(0)] /\ body' = [p \in Slots |-> NoBody]
  /\ UNCHANGED <<linked, sent, shown, faults>>

Upload(p) ==
  \/ UploadUnknown(p) \/ UploadChunk(p) \/ UploadTooLarge(p)
  \/ UploadComplete(p) \/ UploadFails(p)
  \/ UploadInsert(p) \/ UploadInsertFails(p)
  \/ \E i \in Ids, k \in Kinds, n \in Sizes : UploadOpen(p, i, k, n)

Serve(p) ==
  ServeFile(p) \/ \E i \in Ids : ServeUnknown(p, i) \/ ServeLookup(p, i)

Comment(p) ==
  \/ \E n \in Bodies, d \in Lengths : CommentArrive(p, n, d)
  \/ \E c \in 0 .. Left(p) : CommentReceive(p, c)
  \/ CommentRefused(p) \/ CommentAbandoned(p)
  \/ \E media \in Mentions : CommentRead(p, media)
  \/ \E url \in Ids \cup {Elsewhere} : CommentCheck(p, url)
  \/ CommentInsert(p)

Next == Crash \/ \E p \in Slots : Upload(p) \/ Serve(p) \/ Comment(p)

Spec == Init /\ [][Next]_vars

----------------------------------------------------------------------------
(* Properties *)

Request ==
  [pc : {"idle"}, answer : Nat]
    \cup [pc : {"copy", "insert"}, id : Ids, kind : Kinds, size : Nat, left : Nat]
    \cup [pc : {"serve"}, id : Ids]
    \cup [pc : {"body"}]
    \cup [pc : {"check"}, media : Mentions, todo : SUBSET (Ids \cup {Elsewhere})]

\* Files, documents, requests and history have their types.
TypeOK ==
  /\ BodyTypeOK /\ req \in [Slots -> Request]
  /\ file \in [Ids -> Content \cup {Absent}]
  /\ record \in [Ids -> Metadata \cup {Absent}]
  /\ linked \subseteq Ids \cup {Elsewhere}
  /\ sent \in [Ids -> Nat]
  /\ shown \in [Ids -> SUBSET (Content \cup {Absent})]
  /\ lost \subseteq Ids /\ {faults, crashes} \subseteq Nat

\* What the database knows is on disk: the file of every recorded upload is
\* the whole of what the client sent, of the recorded kind and size, and
\* comments refer to nothing else, whatever fails or dies in between
\* (uploads.py "never leave a partial file behind"; comments.py "Media must be
\* something this gateway stored").
MediaServed ==
  /\ linked \subseteq { i \in Ids : record[i] # Absent }
  /\ \A i \in Ids : record[i] # Absent =>
       /\ file[i] = [kind |-> record[i].kind, bytes |-> record[i].size]
       /\ record[i].size = sent[i]

\* A URL that worked once gives the same answer for good, as serve promises
\* with "immutable" in Cache-Control.
ServedForever == \A i \in Ids : \A a, b \in shown[i] : a = b

\* No file stays behind: one without a document belongs to an upload that is
\* still going on, or that a crash or the failing insert itself cut off.
Tidy ==
  \A i \in Ids :
    file[i] # Absent /\ record[i] = Absent
      => i \in lost \cup IdsOf(Writing("copy") \cup Writing("insert"))

\* Whatever length is declared and however the bytes arrive, no handler gets
\* more than the limit of a body and no file grows over the cap of its kind;
\* and no body is refused that is within the limit and truly declared
\* (middleware.py, "bytes are counted as they arrive").
InputBounded ==
  /\ \A p \in Slots :
       /\ ~TooLong(body[p].handed)
       /\ body[p].pc = "refused" =>
            TooLong(body[p].sent) \/ \E d \in body[p].declared : TooLong(d)
  /\ \A i \in Ids : file[i] # Absent => file[i].bytes <= Cap[file[i].kind]
============================================================================
