------------------------------ MODULE WebProofs ------------------------------
(* Theorems about Web, for any number of clients and handlers, any rate,   *)
(* burst, map capacity and demo limit.                                     *)
EXTENDS Web, FiniteSetTheorems, TLAPS

Places == {"idle", "reclaim", "retire", "provision"}

(* The parts of TypeOK that the limiter and the quota change.              *)
LimiterOK ==
    /\ now \in 0..MaxTime
    /\ DOMAIN buckets \subseteq Clients
    /\ Cardinality(DOMAIN buckets) <= MaxClients
    /\ \A c \in DOMAIN buckets : buckets[c] \in Bucket
    /\ sent \in 0..MaxRequests
    /\ admitted \in [Clients -> 0..sent]

DemoOK ==
    /\ pc \in [Handlers -> Places]
    /\ oldest \in [Handlers -> 0..made]
    /\ active \subseteq 1..made
    /\ made \in Nat
    /\ gaveUp \in Nat

(* The type invariant is the conjunction of the two parts.                 *)
LEMMA TypeParts == TypeOK <=> LimiterOK /\ DemoOK
BY DEF TypeOK, LimiterOK, DemoOK, Places

(* A refilled bucket holds at most Burst tokens (rateLimiter.allow).       *)
LEMMA RefilledType ==
    ASSUME NEW b \in Bucket, now \in 0..MaxTime
    PROVE  refilled(b) \in Bucket
<1>1. b.tokens \in 0..Burst /\ b.last \in 0..now
  BY DEF Bucket
<1> DEFINE sum == b.tokens + (now - b.last) * Rate
<1>2. (now - b.last) \in Nat /\ Rate \in Nat /\ Burst \in Nat
  BY <1>1, WebAssumption
<1>3. (now - b.last) * Rate \in Nat
  BY <1>2
<1>4. sum \in Nat
  BY <1>1, <1>3
<1>5. (IF sum < Burst THEN sum ELSE Burst) \in 0..Burst
  BY <1>2, <1>4
<1>6. refilled(b) = [tokens |-> IF sum < Burst THEN sum ELSE Burst, last |-> b.last]
  BY DEF refilled
<1> QED
  BY <1>1, <1>5, <1>6 DEF Bucket

(* The map keeps its capacity when a client with room gets its bucket.     *)
LEMMA PutType ==
    ASSUME LimiterOK, NEW c \in Clients, NEW b \in Bucket, room(c)
    PROVE  /\ DOMAIN Put(c, b) \subseteq Clients
           /\ Cardinality(DOMAIN Put(c, b)) <= MaxClients
           /\ \A x \in DOMAIN Put(c, b) : Put(c, b)[x] \in Bucket
<1> DEFINE D == DOMAIN buckets
<1>1. DOMAIN Put(c, b) = D \cup {c}
  BY DEF Put
<1>2. IsFiniteSet(D)
  BY FS_Subset, WebAssumption DEF LimiterOK
<1>3. Cardinality(D \cup {c}) = IF c \in D THEN Cardinality(D) ELSE Cardinality(D) + 1
  BY <1>2, FS_AddElement
<1>4. Cardinality(D) \in Nat
  BY <1>2, FS_CardinalityType
<1>5. Cardinality(D) <= MaxClients /\ (c \in D \/ Cardinality(D) < MaxClients)
  BY DEF LimiterOK, room
<1>6. Cardinality(D \cup {c}) <= MaxClients
  <2> HIDE DEF D
  <2> QED BY <1>3, <1>4, <1>5, WebAssumption
<1>7. \A x \in D \cup {c} : Put(c, b)[x] \in Bucket
  BY DEF Put, LimiterOK
<1> QED
  BY <1>1, <1>6, <1>7 DEF LimiterOK

(* The bucket a client is charged on is well formed.                       *)
LEMMA BucketOfType ==
    ASSUME LimiterOK, NEW c \in Clients
    PROVE  refilled(bucketOf(c)) \in Bucket
<1>1. bucketOf(c) \in Bucket
  BY WebAssumption DEF bucketOf, LimiterOK, Bucket
<1> QED
  BY <1>1, RefilledType DEF LimiterOK

(* Pruning keeps a map well formed and makes it no larger.                 *)
LEMMA PrunedType ==
    ASSUME LimiterOK, NEW B, DOMAIN B \subseteq Clients,
           Cardinality(DOMAIN B) <= MaxClients,
           \A x \in DOMAIN B : B[x] \in Bucket
    PROVE  /\ DOMAIN pruned(B) \subseteq Clients
           /\ Cardinality(DOMAIN pruned(B)) <= MaxClients
           /\ \A x \in DOMAIN pruned(B) : pruned(B)[x] \in Bucket
<1> DEFINE K == {y \in DOMAIN B : now - B[y].last <= Idle}
<1>1. CASE Cardinality(DOMAIN B) < MaxClients
  BY <1>1 DEF pruned
<1>2. CASE ~(Cardinality(DOMAIN B) < MaxClients)
  <2>1. pruned(B) = [x \in K |-> B[x]]
    BY <1>2 DEF pruned
  <2>2. IsFiniteSet(DOMAIN B)
    BY FS_Subset, WebAssumption
  <2>3. /\ K \subseteq DOMAIN B
        /\ IsFiniteSet(K)
        /\ Cardinality(K) <= Cardinality(DOMAIN B)
    BY <2>2, FS_Subset
  <2>4. Cardinality(K) \in Nat /\ Cardinality(DOMAIN B) \in Nat
    BY <2>2, <2>3, FS_CardinalityType
  <2>5. Cardinality(K) <= MaxClients
    <3> HIDE DEF K
    <3> QED BY <2>3, <2>4, WebAssumption
  <2>6. DOMAIN pruned(B) = K
    BY <2>1
  <2>7. \A x \in K : pruned(B)[x] \in Bucket
    BY <2>1, <2>3
  <2> QED
    <3> HIDE DEF K
    <3> QED BY <2>3, <2>5, <2>6, <2>7
<1> QED
  BY <1>1, <1>2

(* A request at the limiter keeps the limiter's types.                     *)
LEMMA ThrottleType ==
    ASSUME LimiterOK, DemoOK, NEW h \in Handlers, NEW c \in Clients, throttle(h, c)
    PROVE  LimiterOK' /\ DemoOK'
<1>0. now' = now /\ sent' = sent + 1 /\ sent' \in 0..MaxRequests
  BY WebAssumption DEF throttle, LimiterOK
<1>1. DemoOK'
  BY DEF throttle, DemoOK, demo, Places
<1>2. CASE Admitted(c)
  <2> DEFINE b == refilled(bucketOf(c))
  <2> DEFINE d == [tokens |-> b.tokens - 1, last |-> b.last]
  <2>1. b \in Bucket /\ b.tokens >= 1
    BY <1>2, BucketOfType DEF Admitted
  <2>2. d \in Bucket
    <3> HIDE DEF b
    <3> QED BY <2>1, WebAssumption DEF Bucket
  <2>3. buckets' = Put(c, d) /\ room(c)
    BY <1>2 DEF Admitted
  <2>4. /\ DOMAIN buckets' \subseteq Clients
        /\ Cardinality(DOMAIN buckets') <= MaxClients
        /\ \A x \in DOMAIN buckets' : buckets'[x] \in Bucket
    <3> HIDE DEF d
    <3> QED BY <2>2, <2>3, PutType
  <2>5. admitted' \in [Clients -> 0..sent']
    BY <1>0, <1>2 DEF Admitted, LimiterOK
  <2> QED
    BY <1>0, <1>1, <2>4, <2>5 DEF LimiterOK, Bucket
<1>3. CASE Denied(c)
  <2>1. admitted' \in [Clients -> 0..sent']
    BY <1>0, <1>3 DEF Denied, LimiterOK
  <2>2. /\ DOMAIN buckets' \subseteq Clients
        /\ Cardinality(DOMAIN buckets') <= MaxClients
        /\ \A x \in DOMAIN buckets' : buckets'[x] \in Bucket
    <3>1. CASE UNCHANGED buckets
      BY <3>1 DEF LimiterOK
    <3>2. CASE room(c) /\ buckets' = pruned(Put(c, refilled(bucketOf(c))))
      BY <3>2, BucketOfType, PutType, PrunedType
    <3> QED
      BY <1>3, <3>1, <3>2 DEF Denied
  <2> QED
    BY <1>0, <1>1, <2>1, <2>2 DEF LimiterOK, Bucket
<1> QED
  BY <1>2, <1>3 DEF throttle

(* The handler's steps keep the types of the quota.                        *)
LEMMA HandleType ==
    ASSUME LimiterOK, DemoOK, NEW h \in Handlers, handle(h)
    PROVE  LimiterOK' /\ DemoOK'
<1>1. LimiterOK'
  BY DEF handle, activeDemo, reclaimDemo, provisionIdentity, limiter, LimiterOK, Bucket
<1>2. CASE activeDemo(h)
  <2>1. active' = active /\ made' = made /\ gaveUp' = gaveUp
    BY <1>2 DEF activeDemo, demo
  <2>2. pc' \in [Handlers -> Places]
    BY <1>2 DEF activeDemo, DemoOK, Places
  <2>3. \A x \in active : x \in 0..made
    BY DEF DemoOK
  <2>4. oldest' \in [Handlers -> 0..made]
    BY <1>2, <2>3 DEF activeDemo, DemoOK
  <2> QED
    BY <1>1, <2>1, <2>2, <2>4 DEF DemoOK
<1>3. CASE reclaimDemo(h)
  <2>1. made' = made /\ oldest' = oldest
    BY <1>3 DEF reclaimDemo
  <2>2. pc' \in [Handlers -> Places]
    BY <1>3 DEF reclaimDemo, reclaimEnds, DemoOK, Places
  <2>3. active' \subseteq active
    BY <1>3 DEF reclaimDemo
  <2>4. gaveUp' = gaveUp \/ gaveUp' = gaveUp + 1
    BY <1>3 DEF reclaimDemo, reclaimEnds
  <2>5. gaveUp' \in Nat
    BY <2>4 DEF DemoOK
  <2> QED
    BY <1>1, <2>1, <2>2, <2>3, <2>5 DEF DemoOK
<1>4. CASE provisionIdentity(h)
  <2>1. oldest' = oldest /\ gaveUp' = gaveUp
    BY <1>4 DEF provisionIdentity
  <2>2. pc' \in [Handlers -> Places]
    BY <1>4 DEF provisionIdentity, DemoOK, Places
  <2>3. CASE made' = made /\ active' = active
    BY <1>1, <2>1, <2>2, <2>3 DEF DemoOK
  <2>4. CASE made' = made + 1 /\ active' = active \cup {made + 1}
    <3>1. made \in Nat /\ made' \in Nat
      BY <2>4 DEF DemoOK
    <3>2. \A x \in active' : x \in 1..made'
      BY <2>4, <3>1 DEF DemoOK
    <3>3. \A x \in 0..made : x \in 0..made'
      BY <2>4, <3>1
    <3>4. oldest' \in [Handlers -> 0..made']
      BY <2>1, <3>3 DEF DemoOK
    <3> QED
      BY <1>1, <2>1, <2>2, <3>1, <3>2, <3>4 DEF DemoOK
  <2> QED
    BY <1>4, <2>3, <2>4 DEF provisionIdentity
<1> QED
  BY <1>1, <1>2, <1>3, <1>4 DEF handle

(* Initially every variable has its shape.                                  *)
LEMMA InitType == Init => TypeOK
<1> SUFFICES ASSUME Init PROVE TypeOK
  OBVIOUS
<1>1. DOMAIN buckets = {}
  BY DEF Init
<1>2. LimiterOK
  BY <1>1, FS_EmptySet, WebAssumption DEF Init, LimiterOK
<1>3. DemoOK
  BY DEF Init, DemoOK, Places
<1> QED
  BY <1>2, <1>3, TypeParts

(* Every step keeps the shapes.                                            *)
LEMMA NextType == TypeOK /\ [Next]_vars => TypeOK'
<1> SUFFICES ASSUME LimiterOK, DemoOK, [Next]_vars PROVE LimiterOK' /\ DemoOK'
  BY TypeParts DEF TypeOK, LimiterOK, DemoOK, Places
<1>1. CASE Elapse
  <2>1. now' \in 0..MaxTime /\ now <= now'
    BY <1>1, WebAssumption DEF Elapse, LimiterOK
  <2>2. \A c \in DOMAIN buckets' : buckets'[c] \in Bucket'
    BY <1>1, <2>1 DEF Elapse, LimiterOK, Bucket
  <2> QED
    BY <1>1, <2>1, <2>2 DEF Elapse, LimiterOK, DemoOK, demo, Places
<1>2. ASSUME NEW h \in Handlers, NEW c \in Clients, throttle(h, c)
      PROVE  LimiterOK' /\ DemoOK'
  BY <1>2, ThrottleType
<1>3. ASSUME NEW h \in Handlers, handle(h)
      PROVE  LimiterOK' /\ DemoOK'
  BY <1>3, HandleType
<1>4. CASE UNCHANGED vars
  BY <1>4 DEF vars, limiter, demo, LimiterOK, DemoOK, Bucket, Places
<1> QED
  BY <1>1, <1>2, <1>3, <1>4 DEF Next

(* Every variable keeps its shape; the limiter's map never outgrows its    *)
(* capacity (rateLimiter.allow).                                           *)
THEOREM WebTypeCorrect == Spec => []TypeOK
<1>1. TypeOK /\ UNCHANGED vars => TypeOK'
  BY NextType
<1> QED
  BY InitType, NextType, PTL DEF Spec

(* The sets QuotaHeld counts are finite.                                   *)
LEMMA Counted ==
    ASSUME DemoOK
    PROVE  /\ IsFiniteSet(active) /\ Cardinality(active) \in Nat
           /\ IsFiniteSet(Passed) /\ Cardinality(Passed) \in Nat
           /\ Cardinality(Passed) <= Cardinality(Handlers)
           /\ Cardinality(Handlers) \in Nat
<1>1. IsFiniteSet(1..made)
  BY FS_Interval DEF DemoOK
<1>2. IsFiniteSet(active)
  BY <1>1, FS_Subset DEF DemoOK
<1>3. Passed \subseteq Handlers
  BY DEF Passed
<1>4. IsFiniteSet(Passed) /\ Cardinality(Passed) <= Cardinality(Handlers)
  BY <1>3, FS_Subset, WebAssumption
<1> QED
  BY <1>2, <1>4, FS_CardinalityType, WebAssumption

(* And so they are after a step.                                           *)
LEMMA CountedNext ==
    ASSUME DemoOK'
    PROVE  /\ IsFiniteSet(active') /\ Cardinality(active') \in Nat
           /\ IsFiniteSet(Passed') /\ Cardinality(Passed') \in Nat
           /\ Cardinality(Passed') <= Cardinality(Handlers)
<1>1. IsFiniteSet(1..made')
  BY FS_Interval DEF DemoOK
<1>2. IsFiniteSet(active')
  BY <1>1, FS_Subset DEF DemoOK
<1>3. Passed' \subseteq Handlers
  BY DEF Passed
<1>4. IsFiniteSet(Passed') /\ Cardinality(Passed') <= Cardinality(Handlers)
  BY <1>3, FS_Subset, WebAssumption
<1> QED
  BY <1>2, <1>4, FS_CardinalityType

(* A handler that gets past the quota is one more of those that passed.    *)
LEMMA PassedGrows ==
    ASSUME DemoOK, NEW h \in Handlers, pc[h] # "provision",
           pc' = [pc EXCEPT ![h] = "provision"]
    PROVE  Cardinality(Passed') = Cardinality(Passed) + 1
<1>1. Passed' = Passed \cup {h} /\ h \notin Passed
  BY DEF Passed, DemoOK
<1> QED
  BY <1>1, Counted, FS_AddElement

(* One that provisions is one less.                                        *)
LEMMA PassedShrinks ==
    ASSUME DemoOK, NEW h \in Handlers, pc[h] = "provision",
           pc' = [pc EXCEPT ![h] = "idle"]
    PROVE  Cardinality(Passed') = Cardinality(Passed) - 1
<1>1. Passed' = Passed \ {h} /\ h \in Passed
  BY DEF Passed, DemoOK
<1> QED
  BY <1>1, Counted, FS_RemoveElement

(* Any other move of a handler leaves their number.                        *)
LEMMA PassedSame ==
    ASSUME DemoOK, NEW h \in Handlers, pc[h] # "provision", NEW p, p # "provision",
           pc' = [pc EXCEPT ![h] = p]
    PROVE  Passed' = Passed
BY DEF Passed, DemoOK

(* Every step keeps the quota.                                             *)
LEMMA NextQuota == TypeOK /\ TypeOK' /\ QuotaHeld /\ [Next]_vars => QuotaHeld'
<1> SUFFICES ASSUME DemoOK, DemoOK', QuotaHeld, [Next]_vars PROVE QuotaHeld'
  BY TypeParts DEF TypeOK, DemoOK, Places
<1> DEFINE A == Cardinality(active)  P == Cardinality(Passed)  N == Cardinality(Handlers)
<1>1. /\ A \in Nat /\ A' \in Nat /\ P \in Nat /\ P' \in Nat /\ N \in Nat
      /\ P' <= N /\ gaveUp \in Nat /\ gaveUp' \in Nat /\ Limit \in Nat
  BY Counted, CountedNext, WebAssumption DEF DemoOK
<1>2. A + P < Limit + N + gaveUp
  BY DEF QuotaHeld
<1> SUFFICES A' + P' < Limit + N + gaveUp'
  BY DEF QuotaHeld
<1>3. CASE UNCHANGED <<pc, demo>>
  BY <1>2, <1>3 DEF demo, Passed
<1>4. ASSUME NEW h \in Handlers, activeDemo(h) PROVE A' + P' < Limit + N + gaveUp'
  <2>1. active' = active /\ gaveUp' = gaveUp
    BY <1>4 DEF activeDemo, demo
  <2>2. CASE belowLimit
    <3>1. A' < Limit
      BY <2>1, <2>2 DEF belowLimit
    <3> QED BY <1>1, <3>1
  <2>3. CASE ~belowLimit
    <3>1. Passed' = Passed
      BY <1>4, <2>3, PassedSame DEF activeDemo
    <3> QED BY <1>2, <2>1, <3>1
  <2> QED
    BY <2>2, <2>3
<1>5. ASSUME NEW h \in Handlers, reclaimDemo(h) PROVE A' + P' < Limit + N + gaveUp'
  <2>1. CASE /\ active' = active \ {oldest[h]} /\ gaveUp' = gaveUp
             /\ pc' = [pc EXCEPT ![h] = "reclaim"]
    <3>1. Passed' = Passed
      BY <1>5, <2>1, PassedSame DEF reclaimDemo
    <3>2. A' <= A
      BY <2>1, Counted, FS_Subset
    <3>3. P' = P
      BY <3>1
    <3> QED BY <1>1, <1>2, <2>1, <3>2, <3>3
  <2>2. CASE reclaimEnds(h) /\ active' \in {active, active \ {oldest[h]}}
    <3>1. P' = P + 1 /\ gaveUp' = gaveUp + 1
      BY <1>5, <2>2, PassedGrows DEF reclaimDemo, reclaimEnds
    <3>2. A' <= A
      BY <2>2, Counted, FS_Subset
    <3> QED BY <1>1, <1>2, <3>1, <3>2
  <2> QED
    BY <1>5, <2>1, <2>2 DEF reclaimDemo
<1>6. ASSUME NEW h \in Handlers, provisionIdentity(h)
      PROVE  A' + P' < Limit + N + gaveUp'
  <2>1. P' = P - 1 /\ gaveUp' = gaveUp
    BY <1>6, PassedShrinks DEF provisionIdentity
  <2>2. A' <= A + 1
    <3>1. CASE active' = active \cup {made + 1}
      <4>1. Cardinality(active \cup {made + 1}) \in {A, A + 1}
        BY Counted, FS_AddElement
      <4> QED
        BY <1>1, <3>1, <4>1
    <3>2. CASE active' = active
      BY <1>1, <3>2
    <3> QED
      BY <1>6, <3>1, <3>2 DEF provisionIdentity
  <2> QED BY <1>1, <1>2, <2>1, <2>2
<1>7. ASSUME NEW h \in Handlers, NEW c \in Clients, throttle(h, c)
      PROVE  A' + P' < Limit + N + gaveUp'
  <2>1. active' = active /\ gaveUp' = gaveUp /\ Passed' = Passed
    BY <1>7, PassedSame DEF throttle, demo, Passed
  <2> QED
    BY <1>2, <2>1
<1> QED
  BY <1>3, <1>4, <1>5, <1>6, <1>7 DEF Next, handle, Elapse, vars

(* The demo quota, for every limit and any number of concurrent requests:  *)
(* what exceeds the limit was let through by requests that overlapped or   *)
(* by a reclaim that gave up (reclaimDemo, provisionIdentity).             *)
THEOREM QuotaAlwaysHeld == Spec => []QuotaHeld
<1>1. Init => QuotaHeld
  <2> SUFFICES ASSUME Init PROVE QuotaHeld
    OBVIOUS
  <2>1. Passed = {} /\ active = {} /\ gaveUp = 0
    BY DEF Init, Passed
  <2>2. Cardinality(Handlers) \in Nat
    BY FS_CardinalityType, WebAssumption
  <2> QED
    BY <2>1, <2>2, FS_EmptySet, WebAssumption DEF QuotaHeld
<1> QED
  BY <1>1, NextQuota, WebTypeCorrect, PTL DEF Spec
=============================================================================
