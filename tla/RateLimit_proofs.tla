--------------------------- MODULE RateLimit_proofs ---------------------------
(***************************************************************************)
(* Proofs about RateLimit: its type invariant, that no window of time lets *)
(* more than the limit of a user through, that a user is turned away for   *)
(* its own requests only, that a client which waits Retry-After is let in, *)
(* that the deques compute what a log of all requests would, and that the  *)
(* memory they take is bounded.                                            *)
(***************************************************************************)
EXTENDS RateLimit, FiniteSetTheorems, WellFoundedInduction, TLAPS

----------------------------------------------------------------------------
(* The inductive invariant *)

\* What popleft and the sweep removed is out of the window.
PoppedExpired ==
  \A k \in Keys : \A i \in DOMAIN admitted[k] :
    i < head[k] => admitted[k][i] <= now - Window

\* The bound of a key, which is the bound of its user.
KeyBound ==
  \A k \in Keys : \A i \in DOMAIN admitted[k] :
    i + Limit(k) \in DOMAIN admitted[k]
      => admitted[k][i + Limit(k)] >= admitted[k][i] + Window

UserKey(u, b) == [bucket |-> b, client |-> <<"user", u>>]

\* A user is metered under one key per bucket, and nobody else is.
Metered ==
  \A u \in Users, b \in Buckets :
    served[u][b] = IF UserKey(u, b) \in Keys THEN admitted[UserKey(u, b)]
                   ELSE << >>

\* The hit that has to leave the window before the key gets room again.
Oldest(k) == Len(admitted[k]) - Limit(k) + 1

\* Until another request is admitted, that hit leaves the window no later than
\* the client was told to come back.
ToldEnough ==
  \A k \in Keys :
    /\ rejection[k].at <= now
    /\ rejection[k] # NoRejection
         /\ (\A i \in DOMAIN admitted[k] : admitted[k][i] <= rejection[k].at)
       => /\ Oldest(k) \in DOMAIN admitted[k]
          /\ admitted[k][Oldest(k)] > rejection[k].at - Window
          /\ admitted[k][Oldest(k)] + Window
               <= rejection[k].at + rejection[k].wait

IInv == TypeOK /\ PoppedExpired /\ KeyBound /\ Metered /\ ToldEnough

----------------------------------------------------------------------------
(* Facts about constants and operators *)

LEMMA Constants ==
  /\ LimitOf \in [Buckets -> Nat \ {0}]
  /\ Window \in Nat \ {0} /\ SweepEvery \in Nat \ {0} /\ Grain \in Nat \ {0}
  /\ Requests \subseteq Request /\ Nobody \notin Users
BY LimiterAssumption DEF LimiterAssumption

LEMMA KeyFacts ==
  ASSUME NEW r \in Requests
  PROVE  /\ Key(r) \in Keys /\ Key(r).bucket = Bucket(r)
         /\ Bucket(r) \in Buckets /\ Limit(Key(r)) \in Nat \ {0}
         /\ Limit(Key(r)) = LimitOf[Bucket(r)]
BY Constants DEF Keys, Key, Bucket, Buckets, Limit

LEMMA KeyLimit ==
  ASSUME NEW k \in Keys
  PROVE  Limit(k) \in Nat \ {0}
BY KeyFacts DEF Keys

\* Requests with a subject, and they only, are metered under the user's key.
LEMMA KeyOfUser ==
  ASSUME NEW r \in Requests, NEW u \in Users, NEW b \in Buckets
  PROVE  Key(r) = UserKey(u, b) <=> r.subject = u /\ Bucket(r) = b
<1>1. r.subject \in Users \cup {Nobody}
  BY Constants DEF Request
<1>2. CASE r.subject = Nobody
  BY <1>2, Constants DEF Key, UserKey, ClientKey
<1>3. CASE r.subject # Nobody
  BY <1>3 DEF Key, UserKey, ClientKey
<1> QED BY <1>2, <1>3

\* Whole seconds, rounded up by one, are enough.
LEMMA RoundedUp ==
  ASSUME NEW g \in Nat \ {0}, NEW x \in Int
  PROVE  g * ((x \div g) + 1) >= x /\ g * ((x \div g) + 1) \in Int
         /\ x \div g \in Int
<1>1. x = (g * (x \div g)) + (x % g) /\ 0 <= x % g /\ x % g < g /\ x \div g \in Int
  OBVIOUS
<1>2. g * ((x \div g) + 1) = (g * (x \div g)) + g
  BY <1>1
<1> QED BY <1>1, <1>2

----------------------------------------------------------------------------
(* What a check pops and sweeps *)

LEMMA Hits ==
  ASSUME TypeOK, NEW k \in Keys
  PROVE  /\ admitted[k] \in Seq(Nat) /\ Len(admitted[k]) \in Nat
         /\ DOMAIN admitted[k] = 1 .. Len(admitted[k])
         /\ head[k] \in Nat \ {0} /\ head[k] <= Len(admitted[k]) + 1
         /\ \A i \in DOMAIN admitted[k] :
              admitted[k][i] \in Nat /\ admitted[k][i] <= now
         /\ now \in Nat
BY DEF TypeOK

LEMMA SweptAreExpired ==
  ASSUME TypeOK, PoppedExpired, NEW k \in Keys
  PROVE  /\ AfterSweep(k) \in 1 .. Len(admitted[k]) + 1
         /\ AfterSweep(k) >= head[k]
         /\ \A i \in DOMAIN admitted[k] :
              i < AfterSweep(k) => admitted[k][i] <= now - Window
<1> USE Constants, Hits
<1>1. CASE k \notin Swept
  BY <1>1 DEF AfterSweep, PoppedExpired
<1>2. CASE k \in Swept
  <2>1. AfterSweep(k) = Len(admitted[k]) + 1
    BY <1>2 DEF AfterSweep
  <2>2. head[k] > Len(admitted[k]) \/ Expired(k, Len(admitted[k]), now)
    BY <1>2 DEF Swept
  <2>3. ASSUME NEW i \in DOMAIN admitted[k]
        PROVE  admitted[k][i] <= now - Window
    <3>1. CASE head[k] > Len(admitted[k])
      BY <3>1 DEF PoppedExpired
    <3>2. CASE Expired(k, Len(admitted[k]), now)
      <4>1. Len(admitted[k]) \in DOMAIN admitted[k] /\ i <= Len(admitted[k])
        OBVIOUS
      <4>2. admitted[k][i] <= admitted[k][Len(admitted[k])]
        BY <4>1 DEF TypeOK
      <4> QED BY <3>2, <4>1, <4>2 DEF Expired
    <3> QED BY <2>2, <3>1, <3>2
  <2> QED BY <2>1, <2>3
<1> QED BY <1>1, <1>2

LEMMA PoppedOrRecent ==
  ASSUME TypeOK, PoppedExpired, NEW k \in Keys,
         NEW j \in 1 .. Len(admitted[k]) + 1, PopsTo(k, j),
         NEW i \in DOMAIN admitted[k]
  PROVE  /\ i < j => admitted[k][i] <= now - Window
         /\ i >= j => admitted[k][i] > now - Window
<1> USE Constants, Hits, SweptAreExpired
<1>1. ASSUME i < j PROVE admitted[k][i] <= now - Window
  <2>1. CASE i < AfterSweep(k)
    BY <2>1
  <2>2. CASE i >= AfterSweep(k)
    BY <1>1, <2>2 DEF PopsTo, Expired
  <2> QED BY <2>1, <2>2
<1>2. ASSUME i >= j PROVE admitted[k][i] > now - Window
  <2>1. j \in DOMAIN admitted[k] /\ admitted[k][j] > now - Window
    BY <1>2 DEF PopsTo, Expired
  <2>2. admitted[k][j] <= admitted[k][i]
    BY <1>2, <2>1 DEF TypeOK
  <2> QED BY <2>1, <2>2
<1> QED BY <1>1, <1>2

\* The dictionary after a check: typed, and nothing dropped that still counts.
LEMMA BookkeepingKeeps ==
  ASSUME TypeOK, PoppedExpired, NEW k \in Keys,
         NEW j \in 1 .. Len(admitted[k]) + 1, PopsTo(k, j), Bookkeeping(k, j)
  PROVE  /\ head' \in [Keys -> Nat \ {0}] /\ present' \subseteq Keys
         /\ lastSweep' \in 0 .. now' /\ now' = now
         /\ \A x \in Keys :
              /\ head'[x] <= Len(admitted[x]) + 1
              /\ \A i \in DOMAIN admitted[x] :
                   i < head'[x] => admitted[x][i] <= now - Window
<1>1. ASSUME NEW x \in Keys
      PROVE  /\ head'[x] = (IF x = k THEN j ELSE AfterSweep(x))
             /\ head'[x] \in Nat \ {0} /\ head'[x] <= Len(admitted[x]) + 1
  BY SweptAreExpired, Hits DEF Bookkeeping
<1>2. ASSUME NEW x \in Keys, NEW i \in DOMAIN admitted[x], i < head'[x]
      PROVE  admitted[x][i] <= now - Window
  BY <1>1, <1>2, SweptAreExpired, PoppedOrRecent
<1>3. head' \in [Keys -> Nat \ {0}]
  BY <1>1 DEF Bookkeeping
<1>4. present' \subseteq Keys /\ lastSweep' \in 0 .. now' /\ now' = now
  BY DEF Bookkeeping, TypeOK, Swept
<1> QED BY <1>1, <1>2, <1>3, <1>4

----------------------------------------------------------------------------
(* The steps *)

LEMMA InitInv == Init => IInv
<1> SUFFICES ASSUME Init PROVE IInv
  OBVIOUS
<1> USE Constants DEF Init
<1>1. TypeOK
  BY DEF TypeOK, NoRejection
<1>2. PoppedExpired /\ KeyBound /\ ToldEnough
  BY KeyLimit DEF PoppedExpired, KeyBound, ToldEnough, NoRejection
<1>3. Metered
  BY DEF Metered
<1> QED BY <1>1, <1>2, <1>3 DEF IInv

LEMMA StutterStep ==
  ASSUME IInv, UNCHANGED vars
  PROVE  IInv'
BY DEF IInv, vars, TypeOK, PoppedExpired, KeyBound, Metered, ToldEnough, Oldest

LEMMA TickStep ==
  ASSUME IInv, Tick
  PROVE  IInv'
<1> USE Constants DEF Tick, IInv
<1>0. now \in Nat /\ now' = now + 1
  BY DEF TypeOK
<1>1. TypeOK'
  <2>1. \A k \in Keys : \A i \in DOMAIN admitted[k] : admitted[k][i] <= now'
    BY <1>0, Hits
  <2> QED BY <1>0, <2>1 DEF TypeOK
<1>2. PoppedExpired'
  BY <1>0, Hits DEF PoppedExpired
<1>3. KeyBound' /\ Metered'
  BY DEF KeyBound, Metered
<1>4. ToldEnough'
  <2>1. \A k \in Keys : rejection[k].at \in Nat
    BY DEF TypeOK
  <2> QED BY <1>0, <2>1 DEF ToldEnough, Oldest
<1> QED BY <1>1, <1>2, <1>3, <1>4

LEMMA AdmitStep ==
  ASSUME IInv, NEW r \in Requests, Admit(r)
  PROVE  IInv'
<1> DEFINE k == Key(r)
           n == Len(admitted[k]) + 1
<1>1. k \in Keys /\ Limit(k) \in Nat \ {0}
  BY KeyFacts
<1>2. TypeOK /\ PoppedExpired /\ KeyBound /\ Metered /\ ToldEnough
  BY DEF IInv
<1>3. PICK j \in 1 .. n :
        /\ PopsTo(k, j) /\ Room(k, j)
        /\ admitted' = [admitted EXCEPT ![k] = Append(@, now)]
        /\ Bookkeeping(k, j) /\ Serve(r) /\ UNCHANGED rejection
  BY DEF Admit, AdmitAs
<1> HIDE DEF k
<1> USE <1>1, <1>2, Constants
<1>4. /\ admitted' \in [Keys -> Seq(Nat)]
      /\ admitted'[k] = Append(admitted[k], now)
      /\ Len(admitted'[k]) = n /\ n \in Nat
      /\ DOMAIN admitted'[k] = 1 .. n
      /\ admitted'[k][n] = now
      /\ \A i \in 1 .. n - 1 :
           i \in DOMAIN admitted[k] /\ admitted'[k][i] = admitted[k][i]
  BY <1>3, Hits DEF TypeOK
<1>4a. ASSUME NEW x \in Keys, x # k
       PROVE  admitted'[x] = admitted[x]
  BY <1>3, <1>4a DEF TypeOK
<1>5. /\ head' \in [Keys -> Nat \ {0}] /\ present' \subseteq Keys
      /\ lastSweep' \in 0 .. now' /\ now' = now
      /\ \A x \in Keys :
           /\ head'[x] <= Len(admitted[x]) + 1
           /\ \A i \in DOMAIN admitted[x] :
                i < head'[x] => admitted[x][i] <= now - Window
  BY <1>3, BookkeepingKeeps
<1>6a. r.subject \in Users \cup {Nobody} /\ Bucket(r) \in Buckets
  BY KeyFacts DEF Request
<1>6. served' \in [Users -> [Buckets -> Seq(Nat)]]
  BY <1>3, Hits, <1>6a DEF Serve, TypeOK
<1>7. TypeOK'
  <2>1. ASSUME NEW x \in Keys
        PROVE  /\ head'[x] <= Len(admitted'[x]) + 1
               /\ \A i \in DOMAIN admitted'[x] : admitted'[x][i] <= now'
               /\ \A i, m \in DOMAIN admitted'[x] :
                    i <= m => admitted'[x][i] <= admitted'[x][m]
    <3>1. CASE x # k
      BY <3>1, <1>4a, <1>5 DEF TypeOK
    <3>2. CASE x = k
      <4>1. \A i, m \in 1 .. n - 1 :
              i <= m => admitted[k][i] <= admitted[k][m]
        BY <1>4 DEF TypeOK
      <4>2. \A i \in 1 .. n - 1 : admitted[k][i] <= now
        BY <1>4, Hits
      <4>3. \A i \in 1 .. n : i \in 1 .. n - 1 \/ i = n
        BY <1>4
      <4>4. \A i \in 1 .. n : admitted'[k][i] <= now
        BY <4>2, <4>3, <1>4, Hits
      <4>5. \A i, m \in 1 .. n : i <= m => admitted'[k][i] <= admitted'[k][m]
        <5> SUFFICES ASSUME NEW i \in 1 .. n, NEW m \in 1 .. n, i <= m
                     PROVE  admitted'[k][i] <= admitted'[k][m]
          OBVIOUS
        <5>1. CASE m = n
          BY <5>1, <4>4, <1>4
        <5>2. CASE m # n
          <6> HIDE DEF n
          <6>0. n \in Nat
            BY <1>4
          <6>1. i \in 1 .. n - 1 /\ m \in 1 .. n - 1
            BY <5>2, <6>0
          <6>2. admitted[k][i] <= admitted[k][m]
            BY <6>1, <4>1
          <6> QED BY <6>1, <6>2, <1>4
        <5> QED BY <5>1, <5>2
      <4>6. head'[k] <= n + 1
        BY <1>4, <1>5, Hits
      <4> QED BY <3>2, <4>4, <4>5, <4>6, <1>4, <1>5
    <3> QED BY <3>1, <3>2
  <2>2. now' \in Nat /\ rejection' \in [Keys -> [at : Nat, wait : Nat]]
    BY <1>3, <1>5 DEF TypeOK
  <2> QED BY <2>1, <2>2, <1>4, <1>5, <1>6 DEF TypeOK
<1>8. PoppedExpired'
  <2>1. ASSUME NEW x \in Keys, NEW i \in DOMAIN admitted'[x], i < head'[x]
        PROVE  admitted'[x][i] <= now' - Window
    <3>1. CASE x # k
      BY <3>1, <2>1, <1>4a, <1>5
    <3>2. CASE x = k
      <4>1. i \in 1 .. n - 1
        BY <3>2, <2>1, <1>4, <1>5, Hits
      <4> QED BY <3>2, <4>1, <2>1, <1>4, <1>5
    <3> QED BY <3>1, <3>2
  <2> QED BY <2>1 DEF PoppedExpired
<1>9. KeyBound'
  <2>1. ASSUME NEW x \in Keys, NEW i \in DOMAIN admitted'[x],
               i + Limit(x) \in DOMAIN admitted'[x]
        PROVE  admitted'[x][i + Limit(x)] >= admitted'[x][i] + Window
    <3>0. Limit(x) \in Nat \ {0}
      BY KeyLimit
    <3>1. CASE x # k
      BY <3>1, <2>1, <1>4a DEF KeyBound
    <3>2. CASE x = k /\ i + Limit(k) < n
      <4>1. i \in 1 .. n - 1 /\ i + Limit(k) \in 1 .. n - 1
        BY <3>0, <3>2, <2>1, <1>4
      <4>2. admitted[k][i + Limit(k)] >= admitted[k][i] + Window
        BY <4>1, <1>4 DEF KeyBound
      <4> QED BY <3>2, <4>1, <4>2, <1>4
    <3>3. CASE x = k /\ i + Limit(k) = n
      <4>1. i < j /\ i \in DOMAIN admitted[k]
        BY <3>0, <3>3, <2>1, <1>3, <1>4, Hits DEF Room, HitsLeft
      <4>2. admitted[k][i] <= now - Window
        BY <4>1, <1>3, PoppedOrRecent
      <4>3. i \in 1 .. n - 1
        BY <4>1, Hits
      <4>4. admitted'[k][i] <= now - Window /\ admitted'[k][i + Limit(k)] = now
        BY <3>3, <4>2, <4>3, <1>4
      <4>5. admitted'[k][i] \in Int /\ now \in Int
        BY <4>3, <1>4, Hits
      <4> QED BY <3>3, <4>4, <4>5
    <3>4. x = k => i + Limit(k) \in 1 .. n
      BY <2>1, <1>4
    <3> QED BY <3>0, <3>1, <3>2, <3>3, <3>4
  <2> QED BY <2>1 DEF KeyBound, Limit
<1>10. Metered'
  <2>1. ASSUME NEW u \in Users, NEW b \in Buckets
        PROVE  served'[u][b] = IF UserKey(u, b) \in Keys
                               THEN admitted'[UserKey(u, b)] ELSE << >>
    <3>1. k = UserKey(u, b) <=> r.subject = u /\ Bucket(r) = b
      BY KeyOfUser DEF k
    <3>2. CASE r.subject = u /\ Bucket(r) = b
      <4>1. served'[u][b] = Append(served[u][b], now)
        BY <3>2, <1>3 DEF Serve, TypeOK
      <4>2. served[u][b] = admitted[k] /\ UserKey(u, b) = k
        BY <3>1, <3>2 DEF Metered
      <4> QED BY <4>1, <4>2, <1>4
    <3>3. CASE ~(r.subject = u /\ Bucket(r) = b)
      <4>1. served'[u][b] = served[u][b]
        BY <3>3, <1>3 DEF Serve, TypeOK
      <4>2. UserKey(u, b) \in Keys => admitted'[UserKey(u, b)] = admitted[UserKey(u, b)]
        BY <3>1, <3>3, <1>4a
      <4> QED BY <4>1, <4>2 DEF Metered
    <3> QED BY <3>2, <3>3
  <2> QED BY <2>1 DEF Metered, UserKey
<1>11. ToldEnough'
  <2>1. ASSUME NEW x \in Keys
        PROVE  rejection'[x].at <= now'
    BY <1>3, <1>5 DEF ToldEnough
  <2>2. ASSUME NEW x \in Keys, rejection[x] # NoRejection,
               \A i \in DOMAIN admitted'[x] : admitted'[x][i] <= rejection[x].at
        PROVE  /\ Len(admitted'[x]) - Limit(x) + 1 \in DOMAIN admitted'[x]
               /\ admitted'[x][Len(admitted'[x]) - Limit(x) + 1]
                    > rejection[x].at - Window
               /\ admitted'[x][Len(admitted'[x]) - Limit(x) + 1] + Window
                    <= rejection[x].at + rejection[x].wait
    <3>1. CASE x # k
      BY <3>1, <2>2, <1>4a DEF ToldEnough, Oldest
    <3>2. x # k
      <4> SUFFICES ASSUME x = k PROVE FALSE
        OBVIOUS
      <4>1. rejection[k].at \in Nat /\ rejection[k].at = now
        <5>1. rejection[k].at \in Nat /\ rejection[k].at <= now
          BY DEF ToldEnough, TypeOK
        <5>2. n \in DOMAIN admitted'[k]
          BY <1>4, Hits
        <5>3. now <= rejection[k].at
          BY <2>2, <5>2, <1>4
        <5> QED BY <5>1, <5>3, Hits
      <4>2. \A i \in DOMAIN admitted[k] : admitted[k][i] <= rejection[k].at
        BY <4>1, Hits
      <4>3. Oldest(k) \in DOMAIN admitted[k] /\ admitted[k][Oldest(k)] > now - Window
        BY <2>2, <4>1, <4>2 DEF ToldEnough
      <4>4. Oldest(k) < j
        BY <1>3, <4>3, Hits DEF Room, HitsLeft, Oldest
      <4>5. admitted[k][Oldest(k)] <= now - Window
        BY <1>3, <4>3, <4>4, PoppedOrRecent
      <4> QED BY <4>3, <4>5, Hits
    <3> QED BY <3>1, <3>2
  <2>3. rejection' = rejection
    BY <1>3
  <2> QED BY <2>1, <2>2, <2>3 DEF ToldEnough, Oldest, Limit, NoRejection
<1> QED BY <1>7, <1>8, <1>9, <1>10, <1>11 DEF IInv

\* Retry-After covers what is left of the window, in whole seconds.
LEMMA RetryAfterCovers ==
  ASSUME TypeOK, NEW k \in Keys, NEW j \in DOMAIN admitted[k],
         admitted[k][j] > now - Window
  PROVE  /\ RetryAfter(k, j) \in Nat
         /\ admitted[k][j] + Window <= now + RetryAfter(k, j)
<1> DEFINE x == Window - (now - admitted[k][j])
           seconds == (x \div Grain) + 1
<1>1. x \in Nat \ {0} /\ admitted[k][j] \in Nat /\ now \in Nat
  BY Constants, Hits
<1>2. RetryAfter(k, j) = Grain * (IF seconds > 1 THEN seconds ELSE 1)
  BY DEF RetryAfter
<1>3. admitted[k][j] + Window = now + x
  BY <1>1, Constants
<1> HIDE DEF x
<1>4. Grain * seconds >= x /\ Grain * seconds \in Int /\ seconds \in Int
  BY <1>1, Constants, RoundedUp
<1>5. x \div Grain >= 0 /\ x \div Grain \in Int
  BY <1>1, Constants, RoundedUp
<1>5a. seconds >= 1
  BY <1>5
<1> HIDE DEF seconds
<1>6. RetryAfter(k, j) = Grain * seconds
  BY <1>2, <1>4, <1>5a
<1> QED BY <1>1, <1>3, <1>4, <1>6, Constants

\* A request is rejected on the hit that has to leave the window first.
LEMMA RejectedOnOldest ==
  ASSUME IInv, NEW k \in Keys, NEW j \in 1 .. Len(admitted[k]) + 1,
         PopsTo(k, j), ~Room(k, j)
  PROVE  /\ j \in DOMAIN admitted[k] /\ j = Oldest(k)
         /\ admitted[k][j] > now - Window
<1> USE Constants, Hits, KeyLimit DEF IInv
<1>1. j \in DOMAIN admitted[k] /\ j + Limit(k) <= Len(admitted[k]) + 1
  BY DEF Room, HitsLeft
<1>2. admitted[k][j] > now - Window
  BY <1>1, PoppedOrRecent
<1>3. j + Limit(k) > Len(admitted[k])
  <2> SUFFICES ASSUME j + Limit(k) \in DOMAIN admitted[k] PROVE FALSE
    BY <1>1
  <2>1. admitted[k][j + Limit(k)] >= admitted[k][j] + Window
    BY <1>1 DEF KeyBound
  <2>2. admitted[k][j] \in Nat /\ now \in Nat
          /\ admitted[k][j + Limit(k)] \in Nat /\ admitted[k][j + Limit(k)] <= now
    BY <1>1
  <2> HIDE DEF IInv
  <2> QED BY <1>2, <2>1, <2>2
<1> QED BY <1>1, <1>2, <1>3 DEF Oldest

LEMMA RejectStep ==
  ASSUME IInv, NEW r \in Requests, Reject(r)
  PROVE  IInv'
<1> DEFINE k == Key(r)
<1>1. k \in Keys /\ Limit(k) \in Nat \ {0}
  BY KeyFacts
<1>2. TypeOK /\ PoppedExpired /\ KeyBound /\ Metered /\ ToldEnough
  BY DEF IInv
<1>3. PICK j \in 1 .. Len(admitted[k]) + 1 :
        /\ PopsTo(k, j) /\ ~Room(k, j)
        /\ rejection' = [rejection EXCEPT ![k] =
                           [at |-> now, wait |-> RetryAfter(k, j)]]
        /\ Bookkeeping(k, j) /\ UNCHANGED <<admitted, served>>
  BY DEF Reject, RejectAs
<1> HIDE DEF k
<1> USE <1>1, <1>2, Constants
<1>4. /\ j \in DOMAIN admitted[k] /\ j = Oldest(k)
      /\ admitted[k][j] > now - Window
  BY <1>3, RejectedOnOldest
<1>5. /\ head' \in [Keys -> Nat \ {0}] /\ present' \subseteq Keys
      /\ lastSweep' \in 0 .. now' /\ now' = now
      /\ \A x \in Keys :
           /\ head'[x] <= Len(admitted[x]) + 1
           /\ \A i \in DOMAIN admitted[x] :
                i < head'[x] => admitted[x][i] <= now - Window
  BY <1>3, BookkeepingKeeps
<1>6. /\ RetryAfter(k, j) \in Nat
      /\ admitted[k][j] + Window <= now + RetryAfter(k, j)
  BY <1>4, RetryAfterCovers
<1>7. TypeOK'
  BY <1>3, <1>5, <1>6 DEF TypeOK
<1>8. PoppedExpired' /\ KeyBound' /\ Metered'
  BY <1>3, <1>5 DEF PoppedExpired, KeyBound, Metered
<1>9. ToldEnough'
  <2>1. ASSUME NEW x \in Keys, x # k
        PROVE  rejection'[x] = rejection[x]
    BY <2>1, <1>3 DEF TypeOK
  <2>2. rejection'[k] = [at |-> now, wait |-> RetryAfter(k, j)]
    BY <1>3 DEF TypeOK
  <2>3. \A x \in Keys : rejection'[x].at <= now'
    <3>1. ASSUME NEW x \in Keys, x # k
          PROVE  rejection'[x].at <= now'
      <4>1. rejection[x].at <= now
        BY DEF ToldEnough
      <4> QED BY <3>1, <2>1, <4>1, <1>5
    <3>2. rejection'[k].at <= now'
      <4>1. now \in Nat
        BY DEF TypeOK
      <4> QED BY <2>2, <1>5, <4>1
    <3> QED BY <3>1, <3>2
  <2> QED BY <2>1, <2>2, <2>3, <1>3, <1>4, <1>6 DEF ToldEnough, Oldest
<1> QED BY <1>7, <1>8, <1>9 DEF IInv

----------------------------------------------------------------------------
(* The theorems *)

LEMMA Invariance == Spec => []IInv
<1>1. IInv /\ [Next]_vars => IInv'
  BY StutterStep, TickStep, AdmitStep, RejectStep DEF Next
<1> QED BY <1>1, InitInv, PTL DEF Spec

\* Deques, keys, sweeps and rejections keep their types (_check, _sweep), for
\* any number of users, addresses and requests.
THEOREM TypeCorrect == Spec => []TypeOK
BY Invariance, PTL DEF IInv

\* No window of time lets more than the limit of a user through, for all
\* limits, windows and sweep intervals (rate_limit.py, "sliding-window rate
\* limits, metered per user").
THEOREM NoOverrun == Spec => []WindowBound
<1>1. IInv => WindowBound
  <2> SUFFICES ASSUME IInv, NEW u \in Users, NEW b \in Buckets,
                      NEW i \in DOMAIN served[u][b],
                      i + LimitOf[b] \in DOMAIN served[u][b]
               PROVE  served[u][b][i + LimitOf[b]] >= served[u][b][i] + Window
    BY DEF WindowBound
  <2>1. CASE UserKey(u, b) \in Keys
    <3>1. served[u][b] = admitted[UserKey(u, b)]
      BY <2>1 DEF IInv, Metered
    <3>2. Limit(UserKey(u, b)) = LimitOf[b]
      BY DEF Limit, UserKey
    <3> QED BY <2>1, <3>1, <3>2 DEF IInv, KeyBound
  <2>2. CASE UserKey(u, b) \notin Keys
    BY <2>2 DEF IInv, Metered
  <2> QED BY <2>1, <2>2
<1> QED BY <1>1, Invariance, PTL

\* A user is turned away only with its whole budget used within the window,
\* whoever else is metered beside it (client_key).
THEOREM TurnedAwayForOwn == Spec => OwnBudget
<1>1. ASSUME IInv, NEW r \in Requests, Reject(r), r.subject # Nobody
      PROVE  Cardinality({ i \in DOMAIN served[r.subject][Bucket(r)] :
                  served[r.subject][Bucket(r)][i] > now - Window })
               >= LimitOf[Bucket(r)]
  <2> DEFINE k == Key(r)
             own == served[r.subject][Bucket(r)]
             recent == { i \in DOMAIN own : own[i] > now - Window }
  <2>1. k \in Keys /\ Limit(k) \in Nat \ {0} /\ Limit(k) = LimitOf[Bucket(r)]
    BY KeyFacts
  <2>2. own = admitted[k]
    <3>1. r.subject \in Users /\ Bucket(r) \in Buckets
      BY <1>1, Constants, KeyFacts DEF Request
    <3>2. Key(r) = UserKey(r.subject, Bucket(r))
      BY <3>1, KeyOfUser
    <3> QED BY <3>1, <3>2, <2>1, <1>1 DEF IInv, Metered
  <2>3. PICK j \in 1 .. Len(admitted[k]) + 1 : PopsTo(k, j) /\ ~Room(k, j)
    BY <1>1 DEF Reject, RejectAs
  <2> HIDE DEF k, own
  <2>4. j \in DOMAIN admitted[k] /\ j = Oldest(k)
    BY <2>1, <2>3, <1>1, RejectedOnOldest
  <2>5. TypeOK /\ PoppedExpired
    BY <1>1 DEF IInv
  <2>6. Len(admitted[k]) \in Nat /\ DOMAIN admitted[k] = 1 .. Len(admitted[k])
    BY <2>1, <2>5, Hits
  <2>7. j .. Len(admitted[k]) \subseteq recent
    BY <2>1, <2>2, <2>3, <2>4, <2>5, <2>6, PoppedOrRecent
  <2>8. IsFiniteSet(recent) /\ Cardinality(recent) \in Nat
    <3>1. IsFiniteSet(1 .. Len(admitted[k])) /\ recent \subseteq 1 .. Len(admitted[k])
      BY <2>2, <2>6, FS_Interval
    <3> QED BY <3>1, FS_Subset, FS_CardinalityType
  <2>9. Cardinality(j .. Len(admitted[k])) = Limit(k)
    <3>1. j \in Int /\ Len(admitted[k]) \in Int /\ j <= Len(admitted[k])
            /\ Limit(k) = Len(admitted[k]) - j + 1
      BY <2>1, <2>4, <2>6 DEF Oldest
    <3> QED BY <3>1, FS_Interval
  <2>10. Cardinality(j .. Len(admitted[k])) <= Cardinality(recent)
    BY <2>7, <2>8, FS_Subset
  <2> QED BY <2>1, <2>8, <2>9, <2>10 DEF own
<1>2. IInv /\ [Next]_vars =>
        [\A r \in Requests : Reject(r) /\ r.subject # Nobody =>
           Cardinality({ i \in DOMAIN served[r.subject][Bucket(r)] :
                           served[r.subject][Bucket(r)][i] > now - Window })
             >= LimitOf[Bucket(r)]]_vars
  BY <1>1
<1> QED BY <1>2, Invariance, PTL DEF Spec, OwnBudget

\* Whoever waits as long as Retry-After says is not rejected again, whatever
\* the length of a second in ticks.
THEOREM WaitingSuffices == Spec => RetryAfterSuffices
<1>1. ASSUME IInv, NEW r \in Requests, NEW k, k = Key(r), Reject(r),
             rejection[k] # NoRejection,
             now >= rejection[k].at + rejection[k].wait
      PROVE  \E i \in DOMAIN admitted[k] : admitted[k][i] > rejection[k].at
  <2> SUFFICES ASSUME \A i \in DOMAIN admitted[k] :
                        ~(admitted[k][i] > rejection[k].at)
               PROVE  FALSE
    OBVIOUS
  <2>1. k \in Keys
    BY <1>1, KeyFacts
  <2>2. PICK j \in 1 .. Len(admitted[k]) + 1 : PopsTo(k, j) /\ ~Room(k, j)
    BY <1>1 DEF Reject, RejectAs
  <2>3. j \in DOMAIN admitted[k] /\ j = Oldest(k) /\ admitted[k][j] > now - Window
    BY <1>1, <2>1, <2>2, RejectedOnOldest
  <2>4. rejection[k].at \in Nat /\ rejection[k].wait \in Nat
    BY <1>1, <2>1 DEF IInv, TypeOK
  <2>5. \A i \in DOMAIN admitted[k] :
          admitted[k][i] \in Nat /\ admitted[k][i] <= rejection[k].at
    BY <1>1, <2>1, <2>4, Hits DEF IInv
  <2>6. admitted[k][Oldest(k)] + Window <= rejection[k].at + rejection[k].wait
    BY <1>1, <2>1, <2>5 DEF IInv, ToldEnough
  <2>7. now \in Nat
    BY <1>1 DEF IInv, TypeOK
  <2>8. admitted[k][j] \in Nat /\ admitted[k][j] + Window <= now
    BY <1>1, <2>3, <2>4, <2>5, <2>6, <2>7, Constants
  <2> QED BY <2>3, <2>7, <2>8, Constants
<1>2. IInv /\ [Next]_vars =>
        [\A r \in Requests : LET k == Key(r) IN
           Reject(r) /\ rejection[k] # NoRejection
             /\ now >= rejection[k].at + rejection[k].wait
           => \E i \in DOMAIN admitted[k] : admitted[k][i] > rejection[k].at]_vars
  BY <1>1
<1> QED BY <1>2, Invariance, PTL DEF Spec, RetryAfterSuffices

----------------------------------------------------------------------------
(* The deques compute the sliding window *)

\* A set of numbers has a least one.
LEMMA Least ==
  ASSUME NEW T, T \subseteq Nat, T # {}
  PROVE  \E x \in T : \A y \in T : x <= y
<1> DEFINE R == OpToRel(<, Nat)
<1>1. \A x, y \in Nat : <<y, x>> \notin R => x <= y
  BY DEF OpToRel
<1>2. IsWellFoundedOn(R, Nat)
  BY NatLessThanWellFounded
<1> HIDE DEF R
<1>3. PICK x \in T : \A y \in T : <<y, x>> \notin R
  BY <1>2, WFMin
<1> QED BY <1>1, <1>3

\* The admitted requests of a key that are inside the window.
Recent(k) == { i \in DOMAIN admitted[k] : admitted[k][i] > now - Window }

\* The loop that pops stops somewhere.
LEMMA SomePop ==
  ASSUME TypeOK, PoppedExpired, NEW k \in Keys
  PROVE  \E j \in 1 .. Len(admitted[k]) + 1 : PopsTo(k, j)
<1> DEFINE n == Len(admitted[k])
           a == AfterSweep(k)
           T == { i \in a .. n + 1 : i = n + 1 \/ ~Expired(k, i, now) }
<1>1. n \in Nat /\ a \in 1 .. n + 1
  BY SweptAreExpired, Hits
<1> HIDE DEF n, a
<1>2. n + 1 \in T /\ T \subseteq Nat
  BY <1>1
<1>3. PICK j \in T : \A i \in T : j <= i
  BY <1>2, Least
<1>4. ASSUME NEW i \in a .. j - 1 PROVE Expired(k, i, now)
  BY <1>1, <1>3
<1>5. j \in 1 .. n + 1 /\ j \in a .. n + 1 /\ (j <= n => ~Expired(k, j, now))
  BY <1>1
<1> QED BY <1>4, <1>5 DEF PopsTo, n, a

\* What is left is what is inside the window.
LEMMA PopsToRecent ==
  ASSUME TypeOK, PoppedExpired, NEW k \in Keys,
         NEW j \in 1 .. Len(admitted[k]) + 1, PopsTo(k, j)
  PROVE  /\ Recent(k) = j .. Len(admitted[k])
         /\ Cardinality(Recent(k)) = HitsLeft(k, j)
<1>0. Len(admitted[k]) \in Nat /\ DOMAIN admitted[k] = 1 .. Len(admitted[k])
  BY Hits
<1>1. \A i \in DOMAIN admitted[k] : admitted[k][i] > now - Window <=> i >= j
  <2>1. ASSUME NEW i \in DOMAIN admitted[k] PROVE admitted[k][i] > now - Window <=> i >= j
    <3>1. i \in Int /\ j \in Int /\ admitted[k][i] \in Int /\ now - Window \in Int
      BY <1>0, Hits, Constants
    <3>2. /\ i < j => admitted[k][i] <= now - Window
          /\ i >= j => admitted[k][i] > now - Window
      BY PoppedOrRecent
    <3> QED BY <3>1, <3>2
  <2> QED BY <2>1
<1>2. Recent(k) = j .. Len(admitted[k])
  BY <1>0, <1>1 DEF Recent
<1>3. Cardinality(j .. Len(admitted[k])) = HitsLeft(k, j)
  <2>1. CASE j <= Len(admitted[k])
    BY <1>0, <2>1, FS_Interval DEF HitsLeft
  <2>2. CASE ~(j <= Len(admitted[k]))
    <3>1. j .. Len(admitted[k]) = {} /\ HitsLeft(k, j) = 0
      BY <1>0, <2>2 DEF HitsLeft
    <3> QED BY <3>1, FS_EmptySet
  <2> QED BY <2>1, <2>2
<1> QED BY <1>2, <1>3

\* The check of a key has one outcome: the loop stops at one place, and leaves
\* the requests of the key that are inside the window, whatever was popped and
\* swept before, and when.
Decided ==
  \A k \in Keys : \E j \in 1 .. Len(admitted[k]) + 1 :
    /\ PopsTo(k, j) /\ HitsLeft(k, j) = Cardinality(Recent(k))
    /\ \A m \in 1 .. Len(admitted[k]) + 1 : PopsTo(k, m) => m = j

THEOREM ChecksAreDecided == Spec => []Decided
<1>1. ASSUME IInv PROVE Decided
  <2>0. TypeOK /\ PoppedExpired
    BY <1>1 DEF IInv
  <2>1. ASSUME NEW k \in Keys
        PROVE  \E j \in 1 .. Len(admitted[k]) + 1 :
                 /\ PopsTo(k, j) /\ HitsLeft(k, j) = Cardinality(Recent(k))
                 /\ \A m \in 1 .. Len(admitted[k]) + 1 : PopsTo(k, m) => m = j
    <3>1. PICK j \in 1 .. Len(admitted[k]) + 1 : PopsTo(k, j)
      BY <2>0, SomePop
    <3>2. HitsLeft(k, j) = Cardinality(Recent(k))
      BY <2>0, <3>1, PopsToRecent
    <3>3. ASSUME NEW m \in 1 .. Len(admitted[k]) + 1, PopsTo(k, m) PROVE m = j
      <4>1. Recent(k) = j .. Len(admitted[k]) /\ Recent(k) = m .. Len(admitted[k])
        BY <2>0, <3>1, <3>3, PopsToRecent
      <4>2. Len(admitted[k]) \in Nat
        BY <2>0, Hits
      <4> QED BY <4>1, <4>2
    <3> QED BY <3>1, <3>2, <3>3
  <2> QED BY <2>1 DEF Decided
<1>2. IInv => Decided
  BY <1>1
<1> QED BY <1>2, Invariance, PTL

----------------------------------------------------------------------------
(* The limiter without deques *)

\* A log of what was admitted, and a count of what is inside the window.
Meter(r) ==
  LET k == Key(r)
  IN /\ now' = now
     /\ \/ /\ Cardinality(Recent(k)) < Limit(k)
           /\ admitted' = [admitted EXCEPT ![k] = Append(@, now)]
           /\ Serve(r) /\ UNCHANGED rejection
        \/ /\ Cardinality(Recent(k)) >= Limit(k)
           /\ \E j \in Recent(k) :
                /\ \A i \in Recent(k) : j <= i
                /\ rejection' = [rejection EXCEPT ![k] =
                                   [at |-> now, wait |-> RetryAfter(k, j)]]
           /\ UNCHANGED <<admitted, served>>

LogInit == /\ now = 0 /\ admitted = [k \in Keys |-> << >>]
           /\ rejection = [k \in Keys |-> NoRejection]
           /\ served = [u \in Users |-> [b \in Buckets |-> << >>]]
LogTick == now' = now + 1 /\ UNCHANGED <<admitted, rejection, served>>
LogNext == LogTick \/ \E r \in Requests : Meter(r)
LogSpec == LogInit /\ [][LogNext]_<<now, admitted, rejection, served>>

LEMMA AdmitMeters ==
  ASSUME IInv, NEW r \in Requests, Admit(r)
  PROVE  Meter(r)
<1> DEFINE k == Key(r)
<1>1. k \in Keys /\ TypeOK /\ PoppedExpired
  BY KeyFacts DEF IInv
<1>2. PICK j \in 1 .. Len(admitted[k]) + 1 :
        /\ PopsTo(k, j) /\ Room(k, j)
        /\ admitted' = [admitted EXCEPT ![k] = Append(@, now)]
        /\ Bookkeeping(k, j) /\ Serve(r) /\ UNCHANGED rejection
  BY DEF Admit, AdmitAs
<1> HIDE DEF k
<1>3. Cardinality(Recent(k)) < Limit(k)
  BY <1>1, <1>2, PopsToRecent DEF Room
<1> QED BY <1>2, <1>3 DEF Meter, Bookkeeping, k

LEMMA RejectMeters ==
  ASSUME IInv, NEW r \in Requests, Reject(r)
  PROVE  Meter(r)
<1> DEFINE k == Key(r)
<1>1. k \in Keys /\ TypeOK /\ PoppedExpired /\ Limit(k) \in Nat \ {0}
  BY KeyFacts DEF IInv
<1>2. PICK j \in 1 .. Len(admitted[k]) + 1 :
        /\ PopsTo(k, j) /\ ~Room(k, j)
        /\ rejection' = [rejection EXCEPT ![k] =
                           [at |-> now, wait |-> RetryAfter(k, j)]]
        /\ Bookkeeping(k, j) /\ UNCHANGED <<admitted, served>>
  BY DEF Reject, RejectAs
<1> HIDE DEF k
<1>3. Recent(k) = j .. Len(admitted[k]) /\ Cardinality(Recent(k)) = HitsLeft(k, j)
  BY <1>1, <1>2, PopsToRecent
<1>4. Len(admitted[k]) \in Nat
  BY <1>1, Hits
<1>5. Cardinality(Recent(k)) >= Limit(k) /\ HitsLeft(k, j) \in Int
  BY <1>1, <1>2, <1>3, <1>4 DEF Room, HitsLeft
<1>6. j \in Recent(k) /\ \A i \in Recent(k) : j <= i
  BY <1>1, <1>3, <1>4, <1>5 DEF HitsLeft
<1>7. /\ rejection' = [rejection EXCEPT ![k] = [at |-> now, wait |-> RetryAfter(k, j)]]
      /\ UNCHANGED <<admitted, served>> /\ now' = now
  BY <1>2 DEF Bookkeeping
<1> QED BY <1>5, <1>6, <1>7 DEF Meter, k

\* The limiter implements a log of admitted requests that is never cut: a
\* request is admitted exactly when fewer than the limit of its key's requests
\* were admitted within the window before it, and is told to wait for the
\* oldest of these.  Popping, sweeping and the time of the last sweep cannot be
\* observed.
THEOREM ImplementsLog == Spec => LogSpec
<1>1. Init => LogInit
  BY DEF Init, LogInit
<1>2. IInv /\ [Next]_vars => [LogNext]_<<now, admitted, rejection, served>>
  <2>1. ASSUME IInv, [Next]_vars PROVE [LogNext]_<<now, admitted, rejection, served>>
    <3>1. CASE UNCHANGED vars
      BY <3>1 DEF vars
    <3>2. CASE Tick
      BY <3>2 DEF Tick, LogNext, LogTick
    <3>3. ASSUME NEW r \in Requests, Admit(r) \/ Reject(r) PROVE LogNext
      BY <2>1, <3>3, AdmitMeters, RejectMeters DEF LogNext
    <3> QED BY <2>1, <3>1, <3>2, <3>3 DEF Next
  <2> QED BY <2>1
<1> QED BY <1>1, <1>2, Invariance, PTL DEF Spec, LogSpec

----------------------------------------------------------------------------
(* The memory of the limiter *)

Newest(k) == admitted[k][Len(admitted[k])]
Stored(k) == HitsLeft(k, head[k])

\* A deque holds no more than the limit; a key that is not in the dictionary
\* has no hits; one that is has a hit that was inside the window at the sweep.
Held(k) ==
  /\ Stored(k) <= Limit(k)
  /\ k \notin present => Stored(k) = 0
  /\ k \in present => Stored(k) > 0 /\ Newest(k) > lastSweep - Window

\* What is inside the window at one time, and at another.
LEMMA Behind ==
  ASSUME NEW w \in Nat, NEW t \in Nat, NEW s \in Nat
  PROVE  /\ s <= t /\ w > 0 => t > s - w /\ t > t - w
         /\ \A e \in Nat, x \in Nat : t - s < e /\ x > s - w => x > t - w - e
OBVIOUS

LEMMA InitHeld == ASSUME Init, NEW k \in Keys PROVE Held(k)
BY KeyLimit DEF Init, Held, Stored, HitsLeft

\* What a check leaves behind of the other keys.
LEMMA OthersHeld ==
  ASSUME IInv, NEW k \in Keys, NEW j \in 1 .. Len(admitted[k]) + 1,
         PopsTo(k, j), Bookkeeping(k, j),
         NEW x \in Keys, x # k, Held(x), admitted'[x] = admitted[x]
  PROVE  Held(x)'
<1> DEFINE n == Len(admitted[x])
<1>1. TypeOK /\ PoppedExpired /\ Limit(x) \in Nat \ {0}
  BY KeyLimit DEF IInv
<1>2. n \in Nat /\ head[x] \in Nat \ {0} /\ head[x] <= n + 1
  BY <1>1, Hits
<1>3. /\ head'[x] = AfterSweep(x) /\ AfterSweep(x) \in 1 .. n + 1
      /\ AfterSweep(x) >= head[x]
  BY <1>1, SweptAreExpired DEF Bookkeeping
<1>4. present' = (present \ Swept) \cup {k} /\ now \in Nat /\ lastSweep \in Nat
      /\ lastSweep' = IF SweepDue THEN now ELSE lastSweep
  BY <1>1 DEF Bookkeeping, TypeOK
<1>5. Stored(x)' = n + 1 - head'[x] /\ Stored(x) = n + 1 - head[x] /\ Newest(x)' = Newest(x)
  BY DEF Stored, HitsLeft, Newest
<1>6. CASE x \in Swept
  <2>1. Stored(x)' = 0
    BY <1>2, <1>3, <1>5, <1>6 DEF AfterSweep
  <2>2. x \notin present'
    BY <1>4, <1>6
  <2> QED BY <1>1, <2>1, <2>2 DEF Held, Limit
<1>7. CASE x \notin Swept
  <2>1. Stored(x)' = Stored(x)
    BY <1>3, <1>5, <1>7 DEF AfterSweep
  <2>2. x \in present' <=> x \in present
    BY <1>4, <1>7
  <2>3. ASSUME x \in present PROVE Newest(x) > lastSweep' - Window
    <3>1. CASE SweepDue
      <4>1. ~Expired(x, n, now) /\ n \in DOMAIN admitted[x]
        BY <1>1, <1>2, <1>7, <2>3, <3>1, Hits DEF Swept
      <4>2. Newest(x) \in Nat
        BY <1>1, <4>1, Hits DEF Newest
      <4>3. ~(Newest(x) <= now - Window)
        BY <4>1 DEF Expired, Newest
      <4> QED BY <1>4, <3>1, <4>2, <4>3, Constants
    <3>2. CASE ~SweepDue
      BY <1>4, <2>3, <3>2 DEF Held
    <3> QED BY <3>1, <3>2
  <2> QED BY <1>5, <2>1, <2>2, <2>3 DEF Held, Limit
<1> QED BY <1>6, <1>7

\* And of the key that was checked.
LEMMA CheckedHeld ==
  ASSUME IInv, NEW r \in Requests, Admit(r) \/ Reject(r)
  PROVE  Held(Key(r))' /\ Newest(Key(r))' > now - Window
<1> DEFINE k == Key(r)
           n == Len(admitted[k])
<1>1. k \in Keys /\ TypeOK /\ PoppedExpired /\ Limit(k) \in Nat \ {0}
  BY KeyFacts DEF IInv
<1>2. PICK j \in 1 .. n + 1 :
        /\ PopsTo(k, j) /\ Bookkeeping(k, j)
        /\ \/ Room(k, j) /\ admitted' = [admitted EXCEPT ![k] = Append(@, now)]
           \/ ~Room(k, j) /\ admitted' = admitted
  BY DEF Admit, AdmitAs, Reject, RejectAs
<1> HIDE DEF k
<1>3. /\ n \in Nat /\ admitted[k] \in Seq(Nat) /\ now \in Nat /\ lastSweep \in Nat
      /\ lastSweep <= now
  BY <1>1, Hits DEF TypeOK
<1>4. head'[k] = j /\ k \in present' /\ lastSweep' <= now /\ lastSweep' \in Nat
  BY <1>1, <1>2, <1>3 DEF Bookkeeping
<1>5. CASE Room(k, j) /\ admitted' = [admitted EXCEPT ![k] = Append(@, now)]
  <2>1. Len(admitted'[k]) = n + 1 /\ admitted'[k][n + 1] = now
    BY <1>1, <1>3, <1>5 DEF TypeOK
  <2>2. Newest(k)' = now /\ Stored(k)' = n + 2 - j
    BY <1>3, <1>4, <2>1 DEF Newest, Stored, HitsLeft
  <2>3. Stored(k)' <= Limit(k) /\ Stored(k)' > 0
    BY <1>1, <1>3, <1>5, <2>2 DEF Room, HitsLeft
  <2>4. Newest(k)' > lastSweep' - Window /\ Newest(k)' > now - Window
    <3>0. Window \in Nat /\ Window > 0 /\ now \in Nat /\ lastSweep' \in Nat
          /\ lastSweep' <= now
      BY <1>3, <1>4, Constants
    <3>1. now > lastSweep' - Window /\ now > now - Window
      BY <3>0, Behind
    <3> QED BY <2>2, <3>1
  <2> QED BY <1>4, <2>3, <2>4 DEF Held, Limit, k
<1>6. CASE ~Room(k, j) /\ admitted' = admitted
  <2>1. j \in DOMAIN admitted[k] /\ j = Oldest(k)
    BY <1>1, <1>2, <1>6, RejectedOnOldest
  <2>2. Stored(k)' = Limit(k)
    BY <1>1, <1>3, <1>4, <1>6, <2>1 DEF Stored, HitsLeft, Oldest
  <2>3. n \in DOMAIN admitted[k] /\ n >= j
    BY <1>1, <1>3, <2>1, Hits
  <2>4. admitted[k][n] > now - Window /\ admitted[k][n] \in Nat
    BY <1>1, <1>2, <2>3, PoppedOrRecent, Hits
  <2>5. Newest(k)' = admitted[k][n]
    BY <1>6 DEF Newest
  <2>6. Newest(k)' > lastSweep' - Window
    BY <1>3, <1>4, <2>4, <2>5, Constants
  <2> QED BY <1>1, <1>4, <2>2, <2>4, <2>5, <2>6 DEF Held, Limit, k
<1> QED BY <1>2, <1>5, <1>6

LEMMA NextHeld ==
  ASSUME IInv, [Next]_vars, \A k \in Keys : Held(k)
  PROVE  \A k \in Keys : Held(k)'
<1>1. CASE UNCHANGED vars \/ Tick
  BY <1>1 DEF vars, Tick, Held, Stored, HitsLeft, Newest, Limit
<1>2. ASSUME NEW r \in Requests, Admit(r) \/ Reject(r), NEW x \in Keys PROVE Held(x)'
  <2>1. CASE x = Key(r)
    BY <1>2, <2>1, CheckedHeld
  <2>2. CASE x # Key(r)
    <3>1. PICK j \in 1 .. Len(admitted[Key(r)]) + 1 :
             PopsTo(Key(r), j) /\ Bookkeeping(Key(r), j)
      BY <1>2 DEF Admit, AdmitAs, Reject, RejectAs
    <3>2. admitted'[x] = admitted[x]
      BY <1>2, <2>2 DEF Admit, AdmitAs, Reject, RejectAs, IInv, TypeOK
    <3> QED BY <2>2, <3>1, <3>2, OthersHeld, KeyFacts
  <2> QED BY <2>1, <2>2
<1> QED BY <1>1, <1>2 DEF Next

LEMMA HeldInductive == Spec => [](IInv /\ \A k \in Keys : Held(k))
<1>1. Init => \A k \in Keys : Held(k)
  BY InitHeld
<1>2. IInv /\ (\A k \in Keys : Held(k)) /\ [Next]_vars => (\A k \in Keys : Held(k))'
  BY NextHeld
<1>3. Spec => []IInv
  BY Invariance
<1> QED BY <1>1, <1>2, <1>3, PTL DEF Spec

\* A deque never holds more hits than the limit of its key, and every hit is
\* in the dictionary (_check appends below the limit only).
THEOREM DequesBounded == Spec => [](\A k \in Keys : Held(k))
BY HeldInductive, PTL

\* Idle keys are swept (rate_limit.py, "Idle keys are swept periodically so
\* memory does not grow with every address ever seen"): after any check, every
\* key in the dictionary has a hit from the last window and interval between
\* sweeps.
IdleForgotten ==
  [][\A r \in Requests : Admit(r) \/ Reject(r) =>
       \A k \in Keys : k \in present' =>
         Stored(k)' > 0 /\ Newest(k)' > now - Window - SweepEvery]_vars

THEOREM IdleKeysAreSwept == Spec => IdleForgotten
<1> DEFINE Swift == \A r \in Requests : Admit(r) \/ Reject(r) =>
             \A k \in Keys : k \in present' =>
               Stored(k)' > 0 /\ Newest(k)' > now - Window - SweepEvery
           AllHeld == \A k \in Keys : Held(k)
<1>1. ASSUME IInv, NEW r \in Requests, Admit(r) \/ Reject(r), NEW k \in Keys,
             Held(k)', IInv', k \in present'
      PROVE  Stored(k)' > 0 /\ Newest(k)' > now - Window - SweepEvery
  <2>1. now - lastSweep' < SweepEvery /\ now \in Nat /\ lastSweep' \in Nat
    <3>1. lastSweep' = IF SweepDue THEN now ELSE lastSweep
      BY <1>1 DEF Admit, AdmitAs, Reject, RejectAs, Bookkeeping
    <3>2. now \in Nat /\ lastSweep \in Nat
      BY <1>1 DEF IInv, TypeOK
    <3> QED BY <3>1, <3>2, Constants DEF SweepDue
  <2>2. Stored(k)' > 0 /\ Newest(k)' > lastSweep' - Window
    BY <1>1 DEF Held
  <2>3. Newest(k)' \in Nat
    <3>1. /\ admitted'[k] \in Seq(Nat) /\ head'[k] \in Nat \ {0}
      BY <1>1 DEF IInv, TypeOK
    <3>2. Len(admitted'[k]) \in Nat /\ Len(admitted'[k]) + 1 - head'[k] > 0
      BY <2>2, <3>1 DEF Stored, HitsLeft
    <3>3. Len(admitted'[k]) \in DOMAIN admitted'[k]
      BY <3>1, <3>2
    <3> QED BY <3>1, <3>3 DEF Newest
  <2>4. \A x \in Nat : x > lastSweep' - Window => x > now - Window - SweepEvery
    <3>1. /\ Window \in Nat /\ SweepEvery \in Nat /\ now \in Nat /\ lastSweep' \in Nat
          /\ now - lastSweep' < SweepEvery
      BY <2>1, Constants
    <3> QED BY <3>1, Behind
  <2> QED BY <2>2, <2>3, <2>4
<1>2. IInv /\ IInv' /\ AllHeld' /\ [Next]_vars => [Swift]_vars
  BY <1>1
<1>3. Spec => [](IInv /\ AllHeld)
  BY HeldInductive
<1> HIDE DEF Swift, AllHeld
<1>4. Spec => [][Swift]_vars
  BY <1>2, <1>3, PTL DEF Spec
<1> QED BY <1>4 DEF Swift, IdleForgotten

\* No client is told to wait longer than the window and the second it was
\* rounded up by.
WaitBounded == \A k \in Keys : rejection[k].wait <= Window + Grain

THEOREM WaitsAreBounded == Spec => []WaitBounded
<1>1. Init => WaitBounded
  BY Constants DEF Init, WaitBounded, NoRejection
<1>2. ASSUME IInv, WaitBounded, [Next]_vars PROVE WaitBounded'
  <2>1. CASE rejection' = rejection
    BY <1>2, <2>1 DEF WaitBounded
  <2>2. ASSUME NEW r \in Requests, Reject(r) PROVE WaitBounded'
    <3> DEFINE k == Key(r)
    <3>1. k \in Keys /\ TypeOK /\ PoppedExpired
      BY <1>2, KeyFacts DEF IInv
    <3>2. PICK j \in 1 .. Len(admitted[k]) + 1 :
            /\ PopsTo(k, j) /\ ~Room(k, j)
            /\ rejection' = [rejection EXCEPT ![k] =
                               [at |-> now, wait |-> RetryAfter(k, j)]]
      BY <2>2 DEF Reject, RejectAs
    <3> HIDE DEF k
    <3>3. j \in DOMAIN admitted[k] /\ admitted[k][j] > now - Window
      BY <1>2, <3>1, <3>2, RejectedOnOldest
    <3>4. RetryAfter(k, j) <= Window + Grain
      <4> DEFINE x == Window - (now - admitted[k][j])
      <4>1. x \in 1 .. Window
        BY <3>1, <3>3, Hits, Constants
      <4>2. RetryAfter(k, j) = LET seconds == x \div Grain + 1
                               IN Grain * (IF seconds > 1 THEN seconds ELSE 1)
        BY DEF RetryAfter
      <4> HIDE DEF x
      <4>3. /\ x = (Grain * (x \div Grain)) + (x % Grain) /\ x % Grain >= 0
            /\ x % Grain \in Int /\ x \div Grain \in Int /\ x \div Grain >= 0
            /\ Grain * (x \div Grain) \in Int
        BY <4>1, Constants
      <4>4. Grain * ((x \div Grain) + 1) = (Grain * (x \div Grain)) + Grain
        BY <4>3, Constants
      <4>5. RetryAfter(k, j) = Grain * ((x \div Grain) + 1)
        <5>1. CASE (x \div Grain) + 1 > 1
          BY <4>2, <5>1
        <5>2. CASE ~((x \div Grain) + 1 > 1)
          <6>1. (x \div Grain) + 1 = 1
            BY <4>3, <5>2
          <6> QED BY <4>2, <6>1
        <5> QED BY <5>1, <5>2
      <4> QED BY <4>1, <4>3, <4>4, <4>5, Constants
    <3>5. ASSUME NEW x \in Keys PROVE rejection'[x].wait <= Window + Grain
      <4>1. CASE x = k
        BY <3>1, <3>2, <3>4, <4>1 DEF TypeOK
      <4>2. CASE x # k
        BY <1>2, <3>1, <3>2, <4>2 DEF TypeOK, WaitBounded
      <4> QED BY <4>1, <4>2
    <3> QED BY <3>5 DEF WaitBounded
  <2>3. ASSUME NEW r \in Requests, Admit(r) PROVE rejection' = rejection
    BY <2>3 DEF Admit, AdmitAs
  <2> QED BY <1>2, <2>1, <2>2, <2>3 DEF Next, Tick, vars
<1>3. IInv /\ WaitBounded /\ [Next]_vars => WaitBounded'
  BY <1>2
<1> QED BY <1>1, <1>3, Invariance, PTL DEF Spec
=============================================================================
