------------------------------ MODULE Sweeper -------------------------------
(***************************************************************************)
(* The scheduled renewal of overdue identities (internal/lifecycle/        *)
(* worker.go) and the Redis lease that elects the instance that sweeps     *)
(* (lease.go): Run with its renewal goroutine, the worker pool of a sweep, *)
(* shutdown and crashes.                                                   *)
(*                                                                         *)
(* Time passes in units through Elapse.  What the code compares with a     *)
(* clock is a timer: the remaining life of the Redis key, the time since   *)
(* the last renewal, since the last tick and since the last attempt on an  *)
(* identity, each saturating where its value no longer matters.            *)
(***************************************************************************)
EXTENDS Naturals, FiniteSets

CONSTANTS
    Instances,      \* processes that run a Sweeper
    Ids,            \* governed identities
    None,           \* the absence of a lease holder
    Interval,       \* MUTANDAE_SWEEP_INTERVAL
    Ttl,            \* life of the Redis lease
    MaxDelay,       \* bound: lateness of a renewal after its tick, and drain time
    Concurrency,    \* workers of one Sweeper
    MaxFaults       \* bound: crashes, shutdowns, Redis failures, failed rotations

ASSUME SweeperAssumption ==
    /\ None \notin Instances
    /\ Interval \in Nat \ {0}
    /\ Ttl \in Nat \ {0}
    /\ MaxDelay \in Nat
    /\ Concurrency \in Nat \ {0}
    /\ MaxFaults \in Nat

VARIABLES
    record,     \* record[id]: "fresh", "overdue" or "retired"
    holder,     \* the value of the Redis key
    left,       \* its remaining life
    pc,         \* pc[i]: where Run is
    leader,     \* leader[i]: Run's variable
    renewal,    \* renewal[i]: the renewal goroutine: off, on, or its loss signalled
    age,        \* age[i]: time since the lease was acquired or renewed
    waited,     \* waited[i]: time since the ticker was created
    tried,      \* tried[i][id]: time since the last attempt
    queue,      \* queue[i]: candidates not yet dispatched
    taken,      \* taken[i]: candidates a worker has, before the limiter
    busy,       \* busy[i]: candidates being rotated
    cancelled,  \* cancelled[i]: Run's context is done
    faults      \* faults so far, capped by MaxFaults

lease == <<holder, left>>
pool == <<queue, taken, busy>>
clocks == <<age, waited, tried>>
vars == <<record, lease, pc, leader, renewal, clocks, pool, cancelled, faults>>

(* Fault: the lease is renewed when it has just run out.                   *)
RenewEveryTtl == Ttl

(* LeaseRenewInterval of the Redis lease, and the retry window of a sweep. *)
RenewEvery == IF Ttl \div 3 > 0 THEN Ttl \div 3 ELSE 1
RetryWindow == IF Interval \div 4 > 0 THEN Interval \div 4 ELSE 1

Least(x, bound) == IF x < bound THEN x ELSE bound

Fault == faults < MaxFaults /\ faults' = faults + 1

-----------------------------------------------------------------------------
(* The lease.  A Redis call either answers, or fails before or after it    *)
(* took effect; a call with a cancelled context fails.                     *)

(* Fault: the key is set without a TTL.                                    *)
SetNXForever(i) == holder = None /\ holder' = i /\ UNCHANGED left

(* SETNX with a TTL.                                                       *)
SetNX(i) == holder = None /\ holder' = i /\ left' = Ttl

TryAcquire(i) ==
    /\ ~cancelled[i]
    /\ SetNX(i)
    /\ UNCHANGED faults

TryAcquireFails(i) ==
    \/ holder # None /\ UNCHANGED <<lease, faults>>
    \/ cancelled[i] /\ UNCHANGED <<lease, faults>>
    \/ Fault /\ (UNCHANGED lease \/ SetNX(i))

(* Fault: the key is deleted whatever its value.                           *)
DelAny(i) == holder' = None /\ left' = 0

(* Compare and delete.                                                     *)
Del(i) == IF holder = i THEN holder' = None /\ left' = 0 ELSE UNCHANGED lease

Release(i) ==
    \/ Del(i) /\ UNCHANGED faults
    \/ Fault /\ (UNCHANGED lease \/ Del(i))

(* The renewal goroutine of Run: a failed renewal is signalled to Run and  *)
(* ends the goroutine.                                                     *)
RenewLease(i) ==
    /\ renewal[i] = "on"
    /\ age[i] >= RenewEvery
    /\ \/ /\ holder = i
          /\ left' = Ttl
          /\ age' = [age EXCEPT ![i] = 0]
          /\ UNCHANGED <<renewal, faults>>
       \/ /\ holder # i
          /\ renewal' = [renewal EXCEPT ![i] = "lost"]
          /\ UNCHANGED <<left, age, faults>>
       \/ /\ Fault
          /\ left' \in IF holder = i THEN {left, Ttl} ELSE {left}
          /\ renewal' = [renewal EXCEPT ![i] = "lost"]
          /\ UNCHANGED age
    /\ UNCHANGED <<record, holder, pc, leader, waited, tried, pool, cancelled>>

-----------------------------------------------------------------------------
(* Run, on a tick: note a lost lease, compete for it unless leader, sweep  *)
(* if leader.                                                              *)
RunTick(i) ==
    /\ pc[i] = "waiting"
    /\ waited[i] = Interval
    /\ LET leads == leader[i] /\ renewal[i] # "lost"
       IN  \/ /\ leads
              /\ pc' = [pc EXCEPT ![i] = "leading"]
              /\ UNCHANGED <<lease, leader, renewal, age, waited, faults>>
           \/ /\ ~leads
              /\ TryAcquire(i)
              /\ pc' = [pc EXCEPT ![i] = "leading"]
              /\ leader' = [leader EXCEPT ![i] = TRUE]
              /\ renewal' = [renewal EXCEPT ![i] = "on"]
              /\ age' = [age EXCEPT ![i] = 0]
              /\ UNCHANGED waited
           \/ /\ ~leads
              /\ TryAcquireFails(i)
              /\ leader' = [leader EXCEPT ![i] = FALSE]
              /\ renewal' = [renewal EXCEPT ![i] = "off"]
              /\ waited' = [waited EXCEPT ![i] = 0]
              /\ UNCHANGED <<pc, age>>
    /\ UNCHANGED <<record, tried, pool, cancelled>>

(* sweepLeader: the active overdue identities that were not attempted      *)
(* within the retry window are the candidates of this sweep.               *)
SweepBegin(i) ==
    LET candidates == {id \in Ids : record[id] = "overdue" /\ tried[i][id] = RetryWindow}
    IN  /\ pc[i] = "leading"
        /\ pc' = [pc EXCEPT ![i] = "sweeping"]
        /\ queue' = [queue EXCEPT ![i] = candidates]
        /\ tried' = [tried EXCEPT ![i] =
                       [id \in Ids |-> IF id \in candidates THEN 0 ELSE @[id]]]
        /\ UNCHANGED <<record, lease, leader, renewal, age, waited, taken, busy,
                       cancelled, faults>>

(* A free worker receives a candidate.  After the cancellation the select  *)
(* may still pick the job once.                                            *)
Dispatch(i, id) ==
    /\ id \in queue[i]
    /\ Cardinality(taken[i] \cup busy[i]) < Concurrency
    /\ queue' = [queue EXCEPT ![i] = IF cancelled[i] THEN {} ELSE @ \ {id}]
    /\ taken' = [taken EXCEPT ![i] = @ \cup {id}]
    /\ UNCHANGED <<record, lease, pc, leader, renewal, clocks, busy, cancelled, faults>>

(* The worker gets a slot of the limiter, which has one for each worker,   *)
(* and calls Rotate.                                                       *)
Claim(i, id) ==
    /\ id \in taken[i]
    /\ Cardinality(busy[i]) < Concurrency
    /\ taken' = [taken EXCEPT ![i] = @ \ {id}]
    /\ busy' = [busy EXCEPT ![i] = @ \cup {id}]
    /\ UNCHANGED <<record, lease, pc, leader, renewal, clocks, queue, cancelled, faults>>

(* A cancelled worker gives the candidate up.                              *)
Abandon(i, id) ==
    /\ cancelled[i]
    /\ id \in taken[i]
    /\ taken' = [taken EXCEPT ![i] = @ \ {id}]
    /\ UNCHANGED <<record, lease, pc, leader, renewal, clocks, queue, busy, cancelled,
                   faults>>

(* Rotate returns: the identity has a new expiry, or the provider failed,  *)
(* or the record was retired meanwhile and is refused.                     *)
Rotated(i, id) ==
    /\ id \in busy[i]
    /\ busy' = [busy EXCEPT ![i] = @ \ {id}]
    /\ \/ /\ record[id] # "retired"
          /\ record' = [record EXCEPT ![id] = "fresh"]
          /\ UNCHANGED faults
       \/ Fault /\ UNCHANGED record
       \/ (record[id] = "retired" \/ cancelled[i]) /\ UNCHANGED <<record, faults>>
    /\ UNCHANGED <<lease, pc, leader, renewal, clocks, queue, taken, cancelled>>

(* The workers are done: nothing is left to dispatch, or the sweep was     *)
(* cancelled, and no worker has a candidate.                               *)
Drained(i) ==
    /\ taken[i] \cup busy[i] = {}
    /\ queue[i] = {} \/ cancelled[i]

(* The end of a sweep: Run notes a loss of the lease signalled meanwhile.  *)
SweepEnd(i) ==
    /\ pc[i] = "sweeping"
    /\ Drained(i)
    /\ pc' = [pc EXCEPT ![i] = "waiting"]
    /\ queue' = [queue EXCEPT ![i] = {}]
    /\ waited' = [waited EXCEPT ![i] = 0]
    /\ leader' = [leader EXCEPT ![i] = @ /\ renewal[i] # "lost"]
    /\ renewal' = [renewal EXCEPT ![i] = IF @ = "lost" THEN "off" ELSE @]
    /\ UNCHANGED <<record, lease, age, tried, taken, busy, cancelled, faults>>

-----------------------------------------------------------------------------
(* Shutdown cancels the context of Run.  The renewal goroutine ends with   *)
(* it, or, when its tick came at the same time, renews with the cancelled  *)
(* context, fails, and signals the loss.                                   *)
Shutdown(i) ==
    /\ Fault
    /\ ~cancelled[i]
    /\ cancelled' = [cancelled EXCEPT ![i] = TRUE]
    /\ \/ renewal[i] # "on" /\ UNCHANGED renewal
       \/ renewal[i] = "on" /\ renewal' = [renewal EXCEPT ![i] = "off"]
       \/ /\ renewal[i] = "on"
          /\ age[i] >= RenewEvery
          /\ renewal' = [renewal EXCEPT ![i] = "lost"]
    /\ UNCHANGED <<record, lease, pc, leader, clocks, pool>>

(* Fault: the loss is signalled on a channel without a buffer, so that the *)
(* renewal goroutine never ends and Run waits for it.                      *)
StopUnbuffered(i) ==
    /\ cancelled[i]
    /\ pc[i] = "waiting"
    /\ renewal[i] # "lost"
    /\ pc' = [pc EXCEPT ![i] = "stopped"]
    /\ IF leader[i] THEN Release(i) ELSE UNCHANGED <<lease, faults>>
    /\ leader' = [leader EXCEPT ![i] = FALSE]
    /\ renewal' = [renewal EXCEPT ![i] = "off"]
    /\ UNCHANGED <<record, clocks, pool, cancelled>>

(* Run sees the cancellation and returns; its deferred call ends the       *)
(* renewal goroutine and releases the lease of a leader.                   *)
Stop(i) ==
    /\ cancelled[i]
    /\ pc[i] = "waiting"
    /\ pc' = [pc EXCEPT ![i] = "stopped"]
    /\ IF leader[i] THEN Release(i) ELSE UNCHANGED <<lease, faults>>
    /\ leader' = [leader EXCEPT ![i] = FALSE]
    /\ renewal' = [renewal EXCEPT ![i] = "off"]
    /\ UNCHANGED <<record, clocks, pool, cancelled>>

(* A process starts in the place of one that ended; the Redis key stays.   *)
Boot(i) ==
    /\ pc' = [pc EXCEPT ![i] = "waiting"]
    /\ leader' = [leader EXCEPT ![i] = FALSE]
    /\ renewal' = [renewal EXCEPT ![i] = "off"]
    /\ age' = [age EXCEPT ![i] = 0]
    /\ waited' = [waited EXCEPT ![i] = 0]
    /\ tried' = [tried EXCEPT ![i] = [id \in Ids |-> RetryWindow]]
    /\ queue' = [queue EXCEPT ![i] = {}]
    /\ taken' = [taken EXCEPT ![i] = {}]
    /\ busy' = [busy EXCEPT ![i] = {}]
    /\ cancelled' = [cancelled EXCEPT ![i] = FALSE]
    /\ UNCHANGED <<record, lease>>

Restart(i) == pc[i] = "stopped" /\ Boot(i) /\ UNCHANGED faults

Crash(i) == Fault /\ Boot(i)

-----------------------------------------------------------------------------
(* One unit of time.  A renewal comes at most MaxDelay after its tick, and *)
(* a cancelled leader has returned by then (main waits two seconds for it  *)
(* and exits).                                                             *)
Urgent(i) == renewal[i] = "on" \/ (cancelled[i] /\ leader[i])

Elapse ==
    /\ \A i \in Instances : Urgent(i) => age[i] < RenewEvery + MaxDelay
    /\ left' = IF left > 0 THEN left - 1 ELSE 0
    /\ holder' = IF left = 1 THEN None ELSE holder
    /\ age' = [i \in Instances |-> Least(age[i] + 1, RenewEvery + MaxDelay)]
    /\ waited' = [i \in Instances |-> Least(waited[i] + 1, Interval)]
    /\ tried' = [i \in Instances |-> [id \in Ids |-> Least(tried[i][id] + 1, RetryWindow)]]
    /\ UNCHANGED <<record, pc, leader, renewal, pool, cancelled, faults>>

(* A credential passes its expiry; another caller rotates or retires.      *)
Inventory(id) ==
    /\ \/ record[id] = "fresh" /\ record' = [record EXCEPT ![id] = "overdue"]
       \/ record[id] = "overdue" /\ record' = [record EXCEPT ![id] = "fresh"]
       \/ record[id] # "retired" /\ record' = [record EXCEPT ![id] = "retired"]
    /\ UNCHANGED <<lease, pc, leader, renewal, clocks, pool, cancelled, faults>>

-----------------------------------------------------------------------------
Init ==
    /\ record \in [Ids -> {"fresh", "overdue"}]
    /\ holder = None
    /\ left = 0
    /\ pc = [i \in Instances |-> "waiting"]
    /\ leader = [i \in Instances |-> FALSE]
    /\ renewal = [i \in Instances |-> "off"]
    /\ age = [i \in Instances |-> 0]
    /\ waited = [i \in Instances |-> 0]
    /\ tried = [i \in Instances |-> [id \in Ids |-> RetryWindow]]
    /\ queue = [i \in Instances |-> {}]
    /\ taken = [i \in Instances |-> {}]
    /\ busy = [i \in Instances |-> {}]
    /\ cancelled = [i \in Instances |-> FALSE]
    /\ faults = 0

Worker(i) ==
    \E id \in Ids : Dispatch(i, id) \/ Claim(i, id) \/ Abandon(i, id)
                      \/ Rotated(i, id)

Sweeping(i) == SweepBegin(i) \/ Worker(i) \/ SweepEnd(i)

Instance(i) ==
    \/ RenewLease(i) \/ RunTick(i) \/ Shutdown(i) \/ Stop(i)
    \/ Restart(i) \/ Crash(i) \/ Sweeping(i)

Next == Elapse \/ (\E i \in Instances : Instance(i)) \/ (\E id \in Ids : Inventory(id))

Spec == Init /\ [][Next]_vars

(* Time passes, goroutines are scheduled, tickers fire, provider calls     *)
(* return, and the platform starts an instance again that was shut down.   *)
(* Faults and shutdowns are finitely many; other callers are not owed a    *)
(* step.                                                                   *)
FairSpec ==
    /\ Spec
    /\ WF_vars(Elapse)
    /\ \A i \in Instances : WF_vars(RenewLease(i)) /\ WF_vars(RunTick(i))
    /\ \A i \in Instances : WF_vars(Stop(i)) /\ WF_vars(Restart(i))
    /\ \A i \in Instances : WF_vars(Sweeping(i))

-----------------------------------------------------------------------------
(* Properties.                                                             *)

(* Every variable keeps its shape; the key has a value while it lives.     *)
TypeOK ==
    /\ record \in [Ids -> {"fresh", "overdue", "retired"}]
    /\ holder \in Instances \cup {None}
    /\ left \in 0..Ttl
    /\ holder = None <=> left = 0
    /\ pc \in [Instances -> {"waiting", "leading", "sweeping", "stopped"}]
    /\ leader \in [Instances -> BOOLEAN]
    /\ renewal \in [Instances -> {"off", "on", "lost"}]
    /\ age \in [Instances -> 0..(RenewEvery + MaxDelay)]
    /\ waited \in [Instances -> 0..Interval]
    /\ tried \in [Instances -> [Ids -> 0..RetryWindow]]
    /\ queue \in [Instances -> SUBSET Ids]
    /\ taken \in [Instances -> SUBSET Ids]
    /\ busy \in [Instances -> SUBSET Ids]
    /\ cancelled \in [Instances -> BOOLEAN]
    /\ faults \in 0..MaxFaults

(* Two instances never sweep at the same time, unless one of them was told *)
(* that it lost the lease (Run, startRenewal): the renewals keep the lease *)
(* alive for as long as a sweep takes.                                     *)
OneSweeper ==
    \A i, j \in Instances :
        pc[i] = "sweeping" /\ pc[j] = "sweeping" =>
          i = j \/ "lost" \in {renewal[i], renewal[j]}

(* A live lease is given up by its holder only: no other instance deletes  *)
(* or replaces it, however late its own renewal or release arrives         *)
(* (renewLeaseScript, releaseLeaseScript).                                 *)
NeverStolen ==
    [][\A i \in Instances :
         holder = i /\ holder' # i => left = 1 \/ pc'[i] # pc[i]]_vars

(* A shutdown completes: the cancelled sweep drains and Run returns.       *)
ShutdownCompletes ==
    \A i \in Instances :
        cancelled[i] ~> (pc[i] = "stopped" \/ ~cancelled[i])

(* An overdue identity is eventually renewed or retired, whoever crashed   *)
(* while holding the lease.                                                *)
EventuallyRenewed == \A id \in Ids : record[id] = "overdue" ~> record[id] # "overdue"
=============================================================================
