-------------------------------- MODULE Web ---------------------------------
(***************************************************************************)
(* The path of a provisioning request through the HTTP server: the token   *)
(* bucket of its client (internal/web/rate.go), the quota of demo          *)
(* identities with its reclaim loop, and Provision (server.go).  The two   *)
(* Store calls of the handler, List and Retire, are separate critical      *)
(* sections, so requests interleave between them.                          *)
(*                                                                         *)
(* Identities are numbered in the order of their creation.                 *)
(***************************************************************************)
EXTENDS Integers, FiniteSets

CONSTANTS
    Clients,        \* client addresses, none of them loopback
    Handlers,       \* goroutines: requests served at the same time
    Rate,           \* tokens per unit of time
    Burst,          \* capacity of a bucket
    MaxClients,     \* buckets kept
    Idle,           \* age beyond which a bucket may be pruned: 5 minutes
    Limit,          \* MUTANDAE_DEMO_LIMIT
    Failures,       \* provider calls may fail
    MaxTime,        \* bound: units of time
    MaxRequests     \* bound: requests

ASSUME WebAssumption ==
    /\ IsFiniteSet(Clients) /\ IsFiniteSet(Handlers)
    /\ Rate \in Nat \ {0} /\ Burst \in Nat \ {0}
    /\ MaxClients \in Nat \ {0} /\ Limit \in Nat \ {0}
    /\ Idle \in Nat /\ Burst <= Rate * Idle
    /\ Failures \in BOOLEAN
    /\ MaxTime \in Nat /\ MaxRequests \in Nat

VARIABLES
    now,        \* the clock, capped by MaxTime
    buckets,    \* the limiter's map from clients to buckets
    sent,       \* requests so far, capped by MaxRequests
    admitted,   \* admitted[c]: requests of c the limiter let through
    pc,         \* pc[h]: where the request of handler h is
    oldest,     \* oldest[h]: the identity the request is about to retire
    active,     \* the active demo identities of the provider
    made,       \* identities created so far
    gaveUp      \* retirements refused or failed, after which the loop ended

limiter == <<now, buckets, sent, admitted>>
demo == <<active, made, gaveUp>>
vars == <<limiter, pc, oldest, demo>>

Bucket == [tokens : 0..Burst, last : 0..now]

-----------------------------------------------------------------------------
(* rateLimiter.allow.                                                      *)

Put(c, b) == [x \in DOMAIN buckets \cup {c} |-> IF x = c THEN b ELSE buckets[x]]

(* Fault: a client that is not known gets a bucket whatever their number.  *)
roomAlways(c) == TRUE

(* A new client is refused when the map is full.                           *)
room(c) == c \in DOMAIN buckets \/ Cardinality(DOMAIN buckets) < MaxClients

(* The bucket of c, created full.                                          *)
bucketOf(c) ==
    IF c \in DOMAIN buckets THEN buckets[c] ELSE [tokens |-> Burst, last |-> now]

(* Tokens are added for the time since b.last, which stays.                *)
refilled(b) ==
    LET sum == b.tokens + (now - b.last) * Rate
    IN  [tokens |-> IF sum < Burst THEN sum ELSE Burst, last |-> b.last]

(* When the map is full, the buckets older than Idle go.                   *)
pruned(B) ==
    IF Cardinality(DOMAIN B) < MaxClients THEN B
    ELSE [x \in {y \in DOMAIN B : now - B[y].last <= Idle} |-> B[x]]

Denied(c) ==
    /\ \/ ~room(c) /\ UNCHANGED buckets
       \/ /\ room(c)
          /\ LET b == refilled(bucketOf(c))
             IN  b.tokens < 1 /\ buckets' = pruned(Put(c, b))
    /\ UNCHANGED admitted

Admitted(c) ==
    /\ room(c)
    /\ LET b == refilled(bucketOf(c))
       IN  b.tokens >= 1 /\ buckets' = Put(c, [tokens |-> b.tokens - 1, last |-> b.last])
    /\ admitted' = [admitted EXCEPT ![c] = @ + 1]

(* A request arrives and passes the limiter or is answered with 429.       *)
throttle(h, c) ==
    /\ pc[h] = "idle"
    /\ sent < MaxRequests
    /\ sent' = sent + 1
    /\ \/ Admitted(c) /\ pc' = [pc EXCEPT ![h] = "reclaim"]
       \/ Denied(c) /\ UNCHANGED pc
    /\ UNCHANGED <<now, oldest, demo>>

-----------------------------------------------------------------------------
(* reclaimDemo: list; below the limit, go on to Provision; otherwise       *)
(* retire the oldest and list again, or give up when that fails.           *)

(* Fault: the request is let through at the limit.                         *)
belowLimitInclusive == Cardinality(active) <= Limit

belowLimit == Cardinality(active) < Limit

activeDemo(h) ==
    /\ pc[h] = "reclaim"
    /\ \/ /\ belowLimit
          /\ pc' = [pc EXCEPT ![h] = "provision"]
          /\ UNCHANGED oldest
       \/ /\ ~belowLimit
          /\ \E x \in active : /\ \A y \in active : x <= y
                             /\ oldest' = [oldest EXCEPT ![h] = x]
          /\ pc' = [pc EXCEPT ![h] = "retire"]
    /\ UNCHANGED <<limiter, demo>>

(* Fault: a refused retirement is tried again.                             *)
reclaimAgain(h) == pc' = [pc EXCEPT ![h] = "retire"] /\ UNCHANGED gaveUp

(* The loop ends when Retire returns an error.                             *)
reclaimEnds(h) == pc' = [pc EXCEPT ![h] = "provision"] /\ gaveUp' = gaveUp + 1

(* Retire refuses an identity that another request retired meanwhile; it   *)
(* may fail at the provider, or after the record was changed.              *)
reclaimDemo(h) ==
    /\ pc[h] = "retire"
    /\ \/ /\ oldest[h] \in active
          /\ active' = active \ {oldest[h]}
          /\ pc' = [pc EXCEPT ![h] = "reclaim"]
          /\ UNCHANGED gaveUp
       \/ /\ oldest[h] \notin active \/ Failures
          /\ reclaimEnds(h)
          /\ active' \in {active, active \ {oldest[h]}}
    /\ UNCHANGED <<limiter, oldest, made>>

(* Provision creates an identity, or the provider refuses.                 *)
provisionIdentity(h) ==
    /\ pc[h] = "provision"
    /\ pc' = [pc EXCEPT ![h] = "idle"]
    /\ \/ /\ made' = made + 1
          /\ active' = active \cup {made + 1}
       \/ Failures /\ UNCHANGED <<made, active>>
    /\ UNCHANGED <<limiter, oldest, gaveUp>>

(* Time passes.                                                            *)
Elapse ==
    /\ now < MaxTime
    /\ now' = now + 1
    /\ UNCHANGED <<buckets, sent, admitted, pc, oldest, demo>>

-----------------------------------------------------------------------------
Init ==
    /\ now = 0
    /\ buckets = [c \in {} |-> [tokens |-> 0, last |-> 0]]
    /\ sent = 0
    /\ admitted = [c \in Clients |-> 0]
    /\ pc = [h \in Handlers |-> "idle"]
    /\ oldest = [h \in Handlers |-> 0]
    /\ active = {}
    /\ made = 0
    /\ gaveUp = 0

handle(h) == activeDemo(h) \/ reclaimDemo(h) \/ provisionIdentity(h)

Next == Elapse \/ \E h \in Handlers : handle(h) \/ \E c \in Clients : throttle(h, c)

Spec == Init /\ [][Next]_vars

(* Handlers are scheduled and the calls they make return.                  *)
FairSpec == Spec /\ \A h \in Handlers : WF_vars(handle(h))

-----------------------------------------------------------------------------
(* Properties.                                                             *)

(* Every variable keeps its shape and the map its capacity.                *)
TypeOK ==
    /\ now \in 0..MaxTime
    /\ DOMAIN buckets \subseteq Clients
    /\ Cardinality(DOMAIN buckets) <= MaxClients
    /\ \A c \in DOMAIN buckets : buckets[c] \in Bucket
    /\ sent \in 0..MaxRequests
    /\ admitted \in [Clients -> 0..sent]
    /\ pc \in [Handlers -> {"idle", "reclaim", "retire", "provision"}]
    /\ oldest \in [Handlers -> 0..made]
    /\ active \subseteq 1..made
    /\ made \in Nat
    /\ gaveUp \in Nat

(* The demo identities exceed the limit only by what requests that overlap *)
(* let through at the same time, and by one for every reclaim that gave up *)
(* (reclaimDemo checks, and Provision acts, in different critical          *)
(* sections).                                                              *)
Passed == {h \in Handlers : pc[h] = "provision"}

QuotaHeld ==
    Cardinality(active) + Cardinality(Passed) < Limit + Cardinality(Handlers) + gaveUp

(* A request that passed the limiter is answered: the reclaim loop ends.   *)
RequestsEnd == \A h \in Handlers : pc[h] # "idle" ~> pc[h] = "idle"

(* A client gets no more than its burst and the rate allow (CreateRate,    *)
(* CreateBurst).                                                           *)
RateBounded == \A c \in Clients : admitted[c] <= Burst + Rate * now
=============================================================================
