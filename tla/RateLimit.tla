------------------------------ MODULE RateLimit ------------------------------
(***************************************************************************)
(* The sliding-window limiter of the api-service (rate_limit.py): which    *)
(* key a request is metered under, and the deques of hits behind the keys. *)
(* _check awaits nothing, so a request is metered in one step.             *)
(*                                                                         *)
(* The deque of a key is kept as the list of all requests ever admitted    *)
(* for the key and the position of the deque's first element in it: what   *)
(* popleft and the sweep remove stays visible to the properties.  Time is  *)
(* counted in ticks, Grain of them to the second.                          *)
(***************************************************************************)
EXTENDS Integers, Sequences, FiniteSets

CONSTANTS Users,       \* subjects of tokens
          Hosts,       \* addresses
          Nobody,      \* no user: the token is missing, expired or forged;
                       \* no address in X-Forwarded-For
          Requests,    \* bound: the requests that clients make
          TrustProxy,  \* settings.trust_proxy_headers
          LimitOf,     \* bucket -> rate_limit_requests, rate_limit_writes
          Window,      \* settings.rate_limit_window_seconds, in ticks
          SweepEvery,  \* _SWEEP_EVERY_SECONDS, in ticks
          Grain,       \* ticks per second
          MaxTime      \* bound: the last tick

Buckets == {"all", "write"}

\* The dependency of the endpoint, the method, the subject of the token, the
\* address of the peer and the first hop of X-Forwarded-For.
Request ==
  [dep : {"rate_limit", "rate_limit_writes", "rate_limit_by_method"},
   write : BOOLEAN, subject : Users \cup {Nobody}, peer : Hosts,
   forwarded : Hosts \cup {Nobody}]

ASSUME LimiterAssumption ==
  /\ LimitOf \in [Buckets -> Nat \ {0}]
  /\ {Window, SweepEvery, Grain} \subseteq Nat \ {0}
  /\ MaxTime \in Nat /\ TrustProxy \in BOOLEAN
  /\ Requests \subseteq Request /\ Nobody \notin Users \cup Hosts

VARIABLES now,
          admitted,   \* key -> times of its admitted requests
          head,       \* key -> position of hits[0] in admitted
          present,    \* the keys of the dictionary _hits
          lastSweep,
          rejection,  \* key -> its last 429: when, and Retry-After in ticks
          served      \* history: user -> bucket -> times of what the user
                      \* was admitted with, whatever key that was under

vars == <<now, admitted, head, present, lastSweep, rejection, served>>

----------------------------------------------------------------------------
(* The key of a request *)

Host(r) == IF TrustProxy /\ r.forwarded # Nobody THEN r.forwarded ELSE r.peer

ClientKey_ByAddress(r) == <<"ip", Host(r)>>
ClientKey(r) ==
  IF r.subject # Nobody THEN <<"user", r.subject>> ELSE <<"ip", Host(r)>>

Bucket(r) ==
  IF r.dep = "rate_limit_writes" \/ (r.dep = "rate_limit_by_method" /\ r.write)
  THEN "write" ELSE "all"

Key(r) == [bucket |-> Bucket(r), client |-> ClientKey(r)]
Keys == { Key(r) : r \in Requests }
Limit(k) == LimitOf[k.bucket]

NoRejection == [at |-> 0, wait |-> 0]

Init == /\ now = 0
        /\ admitted = [k \in Keys |-> << >>]
        /\ head = [k \in Keys |-> 1]
        /\ present = {} /\ lastSweep = 0
        /\ rejection = [k \in Keys |-> NoRejection]
        /\ served = [u \in Users |-> [b \in Buckets |-> << >>]]

----------------------------------------------------------------------------
(* _check and _sweep *)

Expired(k, i, time) == admitted[k][i] <= time - Window

\* _sweep: once per SweepEvery, the keys whose newest hit is out of the window
\* (or that have none) are dropped.
SweepDue == now - lastSweep >= SweepEvery

Swept_Oldest ==
  IF ~SweepDue THEN {}
  ELSE { k \in present : head[k] > Len(admitted[k]) \/ Expired(k, head[k], now) }

Swept ==
  IF ~SweepDue THEN {}
  ELSE { k \in present : \/ head[k] > Len(admitted[k])
                         \/ Expired(k, Len(admitted[k]), now) }

AfterSweep(k) == IF k \in Swept THEN Len(admitted[k]) + 1 ELSE head[k]

\* The loop that pops expired hits from the left stops at position j.
PopsTo(k, j) ==
  /\ j \in AfterSweep(k)..(Len(admitted[k]) + 1)
  /\ \A i \in AfterSweep(k)..(j - 1) : Expired(k, i, now)
  /\ j <= Len(admitted[k]) => ~Expired(k, j, now)

HitsLeft(k, j) == Len(admitted[k]) + 1 - j

\* int(window - (now - hits[0])) + 1 seconds, at least one.
RetryAfter_RoundsDown(k, j) ==
  Grain * ((Window - (now - admitted[k][j])) \div Grain)
RetryAfter(k, j) ==
  LET seconds == (Window - (now - admitted[k][j])) \div Grain + 1
  IN Grain * (IF seconds > 1 THEN seconds ELSE 1)

\* What _check leaves behind besides the admitted hit.
Bookkeeping(k, j) ==
  /\ head' = [x \in Keys |-> IF x = k THEN j ELSE AfterSweep(x)]
  /\ present' = (present \ Swept) \cup {k}
  /\ lastSweep' = IF SweepDue THEN now ELSE lastSweep
  /\ UNCHANGED now

Room(k, j) == HitsLeft(k, j) < Limit(k)

Serve(r) ==
  served' = IF r.subject = Nobody THEN served
            ELSE [served EXCEPT ![r.subject][Bucket(r)] = Append(@, now)]

AdmitAs(r, k) ==
  \E j \in 1..(Len(admitted[k]) + 1) :
    /\ PopsTo(k, j) /\ Room(k, j)
    /\ admitted' = [admitted EXCEPT ![k] = Append(@, now)]
    /\ Bookkeeping(k, j) /\ Serve(r)
    /\ UNCHANGED rejection
Admit(r) == AdmitAs(r, Key(r))

RejectAs(k) ==
  \E j \in 1..(Len(admitted[k]) + 1) :
    /\ PopsTo(k, j) /\ ~Room(k, j)
    /\ rejection' = [rejection EXCEPT ![k] =
                       [at |-> now, wait |-> RetryAfter(k, j)]]
    /\ Bookkeeping(k, j)
    /\ UNCHANGED <<admitted, served>>
Reject(r) == RejectAs(Key(r))

Tick == now < MaxTime /\ now' = now + 1
        /\ UNCHANGED <<admitted, head, present, lastSweep, rejection, served>>

Next == Tick \/ \E r \in Requests : Admit(r) \/ Reject(r)

Spec == Init /\ [][Next]_vars

----------------------------------------------------------------------------
(* Properties *)

\* Times are ordered ticks and the deque is a tail of what was admitted.
TypeOK ==
  /\ now \in Nat /\ lastSweep \in 0..now
  /\ admitted \in [Keys -> Seq(Nat)]
  /\ head \in [Keys -> Nat \ {0}]
  /\ \A k \in Keys :
       /\ head[k] <= Len(admitted[k]) + 1
       /\ \A i \in DOMAIN admitted[k] : admitted[k][i] <= now
       /\ \A i, j \in DOMAIN admitted[k] :
            i <= j => admitted[k][i] <= admitted[k][j]
  /\ present \subseteq Keys
  /\ rejection \in [Keys -> [at : Nat, wait : Nat]]
  /\ served \in [Users -> [Buckets -> Seq(Nat)]]

\* No window of time, wherever it starts, lets more than the limit of a user
\* through, whatever addresses and headers the user comes with and whatever
\* was popped and swept in between (rate_limit.py, "sliding-window rate
\* limits, metered per user").
WindowBound ==
  \A u \in Users, b \in Buckets : \A i \in DOMAIN served[u][b] :
    i + LimitOf[b] \in DOMAIN served[u][b]
      => served[u][b][i + LimitOf[b]] >= served[u][b][i] + Window

\* A user is turned away for its own requests only: it had its whole budget
\* within the window, whoever else shares its address (rate_limit.py, "one
\* abusive customer cannot lock out everyone behind the same NAT").
OwnBudget ==
  [][\A r \in Requests : Reject(r) /\ r.subject # Nobody =>
       Cardinality({ i \in DOMAIN served[r.subject][Bucket(r)] :
                       served[r.subject][Bucket(r)][i] > now - Window })
         >= LimitOf[Bucket(r)]]_vars

\* A client that waits as long as Retry-After says, and whose key was not
\* used for another admitted request since, is not rejected again.
RetryAfterSuffices ==
  [][\A r \in Requests : LET k == Key(r) IN
       Reject(r) /\ rejection[k] # NoRejection
         /\ now >= rejection[k].at + rejection[k].wait
       => \E i \in DOMAIN admitted[k] : admitted[k][i] > rejection[k].at]_vars
============================================================================
