--------------------------- MODULE SweeperProofs ----------------------------
(* Theorems about Sweeper, for any number of instances and identities, any *)
(* interval, lease life, pool size and number of faults.                   *)
EXTENDS Sweeper, TLAPS

(* Both intervals are positive (LeaseRenewInterval, the retry window).     *)
LEMMA Intervals == RenewEvery \in Nat \ {0} /\ RetryWindow \in Nat \ {0}
<1>1. Ttl \div 3 \in Nat /\ Interval \div 4 \in Nat
  BY SweeperAssumption
<1> QED
  BY <1>1 DEF RenewEvery, RetryWindow

(* The parts of TypeOK: what Redis keeps, what Run keeps, the timers, the  *)
(* worker pool.                                                            *)
LeaseOK ==
    /\ holder \in Instances \cup {None}
    /\ left \in 0..Ttl
    /\ holder = None <=> left = 0

RunOK ==
    /\ pc \in [Instances -> {"waiting", "leading", "sweeping", "stopped"}]
    /\ leader \in [Instances -> BOOLEAN]
    /\ renewal \in [Instances -> {"off", "on", "lost"}]
    /\ cancelled \in [Instances -> BOOLEAN]
    /\ faults \in 0..MaxFaults

ClocksOK ==
    /\ age \in [Instances -> 0..(RenewEvery + MaxDelay)]
    /\ waited \in [Instances -> 0..Interval]
    /\ tried \in [Instances -> [Ids -> 0..RetryWindow]]

PoolOK ==
    /\ record \in [Ids -> {"fresh", "overdue", "retired"}]
    /\ queue \in [Instances -> SUBSET Ids]
    /\ taken \in [Instances -> SUBSET Ids]
    /\ busy \in [Instances -> SUBSET Ids]

(* The type invariant is the conjunction of the four.                      *)
LEMMA TypeParts == TypeOK <=> LeaseOK /\ RunOK /\ ClocksOK /\ PoolOK
BY DEF TypeOK, LeaseOK, RunOK, ClocksOK, PoolOK

(* A fault is counted up to MaxFaults.                                     *)
LEMMA FaultType ==
    ASSUME RunOK, Fault
    PROVE  faults' \in 0..MaxFaults
BY SweeperAssumption DEF RunOK, Fault

(* The calls on the lease keep it well formed (TryAcquire, Release).       *)
LEMMA CallType ==
    ASSUME LeaseOK, RunOK, NEW i \in Instances,
           TryAcquire(i) \/ TryAcquireFails(i) \/ Release(i)
    PROVE  LeaseOK' /\ faults' \in 0..MaxFaults
<1>1. SetNX(i) \/ Del(i) \/ UNCHANGED lease
  BY DEF TryAcquire, TryAcquireFails, Release
<1>2. UNCHANGED faults \/ Fault
  BY DEF TryAcquire, TryAcquireFails, Release
<1>3. faults' \in 0..MaxFaults
  BY <1>2, FaultType DEF RunOK
<1>4. LeaseOK'
  BY <1>1, SweeperAssumption DEF SetNX, Del, lease, LeaseOK
<1> QED
  BY <1>3, <1>4

(* A tick of the renewal goroutine.                                        *)
LEMMA RenewType ==
    ASSUME LeaseOK, RunOK, ClocksOK, PoolOK, NEW i \in Instances, RenewLease(i)
    PROVE  LeaseOK' /\ RunOK' /\ ClocksOK' /\ PoolOK'
<1>1. LeaseOK'
  BY SweeperAssumption DEF RenewLease, LeaseOK
<1>2. faults' \in 0..MaxFaults
  BY FaultType DEF RenewLease, RunOK
<1>3. RunOK'
  BY <1>2 DEF RenewLease, RunOK
<1>4. age' \in [Instances -> 0..(RenewEvery + MaxDelay)]
  BY Intervals, SweeperAssumption DEF RenewLease, ClocksOK
<1> QED
  BY <1>1, <1>3, <1>4 DEF RenewLease, ClocksOK, PoolOK, pool

(* A tick of Run.                                                          *)
LEMMA TickType ==
    ASSUME LeaseOK, RunOK, ClocksOK, PoolOK, NEW i \in Instances, RunTick(i)
    PROVE  LeaseOK' /\ RunOK' /\ ClocksOK' /\ PoolOK'
<1>1. LeaseOK' /\ faults' \in 0..MaxFaults
  <2>1. CASE UNCHANGED <<lease, faults>>
    BY <2>1 DEF LeaseOK, RunOK, lease
  <2>2. CASE TryAcquire(i) \/ TryAcquireFails(i)
    BY <2>2, CallType
  <2> QED
    BY <2>1, <2>2 DEF RunTick
<1>2. RunOK'
  BY <1>1 DEF RunTick, RunOK
<1>3. age' = age \/ age' = [age EXCEPT ![i] = 0]
  BY DEF RunTick
<1>4. waited' = waited \/ waited' = [waited EXCEPT ![i] = 0]
  BY DEF RunTick
<1>5. 0 \in 0..(RenewEvery + MaxDelay) /\ 0 \in 0..Interval
  BY Intervals, SweeperAssumption
<1>6. /\ age' \in [Instances -> 0..(RenewEvery + MaxDelay)]
      /\ waited' \in [Instances -> 0..Interval]
  BY <1>3, <1>4, <1>5 DEF ClocksOK
<1> QED
  BY <1>1, <1>2, <1>6 DEF RunTick, ClocksOK, PoolOK, pool

(* A sweep: its candidates, its workers, its end.                          *)
LEMMA SweepingType ==
    ASSUME LeaseOK, RunOK, ClocksOK, PoolOK, NEW i \in Instances, Sweeping(i)
    PROVE  LeaseOK' /\ RunOK' /\ ClocksOK' /\ PoolOK'
<1>1. CASE SweepBegin(i)
  <2> DEFINE candidates == {id \in Ids : record[id] = "overdue" /\ tried[i][id] = RetryWindow}
  <2>1. candidates \in SUBSET Ids
    OBVIOUS
  <2>2. queue' \in [Instances -> SUBSET Ids]
    BY <1>1, <2>1 DEF SweepBegin, PoolOK
  <2>3. [id \in Ids |-> IF id \in candidates THEN 0 ELSE tried[i][id]] \in [Ids -> 0..RetryWindow]
    BY Intervals DEF ClocksOK
  <2>4. tried' = [tried EXCEPT ![i] = [id \in Ids |-> IF id \in candidates THEN 0 ELSE tried[i][id]]]
    BY <1>1 DEF SweepBegin, ClocksOK
  <2>5. tried' \in [Instances -> [Ids -> 0..RetryWindow]]
    BY <2>3, <2>4 DEF ClocksOK
  <2> QED
    BY <1>1, <2>2, <2>5 DEF SweepBegin, LeaseOK, RunOK, ClocksOK, PoolOK, lease
<1>2. CASE Worker(i)
  <2> PICK id \in Ids : Dispatch(i, id) \/ Claim(i, id) \/ Abandon(i, id) \/ Rotated(i, id)
    BY <1>2 DEF Worker
  <2>1. UNCHANGED <<lease, pc, leader, renewal, clocks, cancelled>>
    BY DEF Dispatch, Claim, Abandon, Rotated
  <2>2. UNCHANGED faults \/ Fault
    BY DEF Dispatch, Claim, Abandon, Rotated
  <2>3. faults' \in 0..MaxFaults
    BY <2>2, FaultType DEF RunOK
  <2>4. PoolOK'
    BY DEF Dispatch, Claim, Abandon, Rotated, PoolOK
  <2> QED
    BY <2>1, <2>3, <2>4 DEF LeaseOK, RunOK, ClocksOK, lease, clocks
<1>3. CASE SweepEnd(i)
  BY <1>3, SweeperAssumption DEF SweepEnd, LeaseOK, RunOK, ClocksOK, PoolOK, lease
<1> QED
  BY <1>1, <1>2, <1>3 DEF Sweeping

(* Shutdown, return, restart and crash of an instance.                     *)
LEMMA LifeType ==
    ASSUME LeaseOK, RunOK, ClocksOK, PoolOK, NEW i \in Instances,
           Shutdown(i) \/ Stop(i) \/ Restart(i) \/ Crash(i)
    PROVE  LeaseOK' /\ RunOK' /\ ClocksOK' /\ PoolOK'
<1>1. CASE Shutdown(i)
  <2>1. faults' \in 0..MaxFaults
    BY <1>1, FaultType DEF Shutdown
  <2> QED
    BY <1>1, <2>1 DEF Shutdown, LeaseOK, RunOK, ClocksOK, PoolOK, lease, clocks, pool
<1>2. CASE Stop(i)
  <2>1. LeaseOK' /\ faults' \in 0..MaxFaults
    BY <1>2, CallType DEF Stop, LeaseOK, RunOK, lease
  <2> QED
    BY <1>2, <2>1 DEF Stop, RunOK, ClocksOK, PoolOK, clocks, pool
<1>3. CASE Restart(i) \/ Crash(i)
  <2>1. Boot(i) /\ (UNCHANGED faults \/ Fault)
    BY <1>3 DEF Restart, Crash
  <2>2. faults' \in 0..MaxFaults
    BY <2>1, FaultType DEF RunOK
  <2>3. LeaseOK' /\ RunOK' /\ PoolOK'
    BY <2>1, <2>2 DEF Boot, LeaseOK, RunOK, PoolOK, lease
  <2>4. ClocksOK'
    BY <2>1, Intervals, SweeperAssumption DEF Boot, ClocksOK
  <2> QED
    BY <2>3, <2>4
<1> QED
  BY <1>1, <1>2, <1>3

(* Time passes: every timer saturates within its bounds.                   *)
LEMMA ElapseType ==
    ASSUME LeaseOK, RunOK, ClocksOK, PoolOK, Elapse
    PROVE  LeaseOK' /\ RunOK' /\ ClocksOK' /\ PoolOK'
<1>1. LeaseOK'
  BY SweeperAssumption DEF Elapse, LeaseOK
<1>2. ASSUME NEW m \in Nat, NEW x \in 0..m
      PROVE  Least(x + 1, m) \in 0..m
  BY DEF Least
<1>3. RenewEvery + MaxDelay \in Nat /\ Interval \in Nat /\ RetryWindow \in Nat
  BY Intervals, SweeperAssumption
<1>4. age' \in [Instances -> 0..(RenewEvery + MaxDelay)]
  BY <1>2, <1>3 DEF Elapse, ClocksOK
<1>5. waited' \in [Instances -> 0..Interval]
  BY <1>2, <1>3 DEF Elapse, ClocksOK
<1>6. tried' \in [Instances -> [Ids -> 0..RetryWindow]]
  BY <1>2, <1>3 DEF Elapse, ClocksOK
<1> QED
  BY <1>1, <1>4, <1>5, <1>6 DEF Elapse, RunOK, ClocksOK, PoolOK, pool

(* Every step keeps the types.                                             *)
LEMMA NextType == TypeOK /\ [Next]_vars => TypeOK'
<1> SUFFICES ASSUME LeaseOK, RunOK, ClocksOK, PoolOK, [Next]_vars
             PROVE  LeaseOK' /\ RunOK' /\ ClocksOK' /\ PoolOK'
  BY TypeParts DEF TypeOK, LeaseOK, RunOK, ClocksOK, PoolOK
<1>1. CASE Elapse
  BY <1>1, ElapseType
<1>2. ASSUME NEW i \in Instances, Instance(i)
      PROVE  LeaseOK' /\ RunOK' /\ ClocksOK' /\ PoolOK'
  BY <1>2, RenewType, TickType, SweepingType, LifeType DEF Instance
<1>3. ASSUME NEW id \in Ids, Inventory(id)
      PROVE  LeaseOK' /\ RunOK' /\ ClocksOK' /\ PoolOK'
  BY <1>3 DEF Inventory, LeaseOK, RunOK, ClocksOK, PoolOK, lease, clocks, pool
<1>4. CASE UNCHANGED vars
  BY <1>4 DEF vars, LeaseOK, RunOK, ClocksOK, PoolOK, lease, clocks, pool
<1> QED
  BY <1>1, <1>2, <1>3, <1>4 DEF Next

LEMMA InitType == Init => TypeOK
BY Intervals, SweeperAssumption DEF Init, TypeOK

(* Type correctness: in particular the Redis key lives exactly as long as  *)
(* it has a holder, and no timer runs past its bound (lease.go).           *)
THEOREM SweeperTypeCorrect == Spec => []TypeOK
BY InitType, NextType, PTL DEF Spec

-----------------------------------------------------------------------------
(* A live lease is given up by its holder only: a renewal or release that  *)
(* arrives late compares the value of the key first, and SETNX wants a key *)
(* that is gone (renewLeaseScript, releaseLeaseScript, TryAcquire).        *)
THEOREM LeaseNeverStolen == Spec => NeverStolen
<1> DEFINE Kept == \A i \in Instances : holder = i /\ holder' # i => left = 1 \/ pc'[i] # pc[i]
<1>1. TypeOK /\ [Next]_vars => [Kept]_vars
  <2> SUFFICES ASSUME TypeOK, [Next]_vars PROVE Kept
    OBVIOUS
  <2>1. CASE Elapse
    BY <2>1 DEF Elapse
  <2>2. ASSUME NEW j \in Instances, Instance(j) PROVE Kept
    <3>1. CASE RenewLease(j) \/ Shutdown(j) \/ Restart(j) \/ Crash(j) \/ Sweeping(j)
      BY <3>1 DEF RenewLease, Shutdown, Restart, Crash, Boot, Sweeping, SweepBegin, Worker,
                  Dispatch, Claim, Abandon, Rotated, SweepEnd, lease
    <3>2. CASE RunTick(j)
      BY <3>2, SweeperAssumption DEF RunTick, TryAcquire, TryAcquireFails, SetNX, lease
    <3>3. CASE Stop(j)
      <4>1. pc'[j] # pc[j]
        BY <3>3 DEF Stop, TypeOK
      <4>2. UNCHANGED lease \/ Del(j)
        BY <3>3 DEF Stop, Release
      <4> QED
        BY <4>1, <4>2 DEF Del, lease
    <3> QED
      BY <2>2, <3>1, <3>2, <3>3 DEF Instance
  <2>3. ASSUME NEW id \in Ids, Inventory(id) PROVE Kept
    BY <2>3 DEF Inventory, lease
  <2>4. CASE UNCHANGED vars
    BY <2>4 DEF vars, lease
  <2> QED
    BY <2>1, <2>2, <2>3, <2>4 DEF Next
<1> QED
  BY <1>1, SweeperTypeCorrect, PTL DEF Spec, NeverStolen

-----------------------------------------------------------------------------
(* What a leader knows.  One that was not told of a loss has the lease, for *)
(* at least its life less the time since the last renewal; it renews it, or *)
(* is on its way out.  Only a leader sweeps.                               *)
Unaware(i) == leader[i] /\ renewal[i] # "lost"

Leads(i) ==
    /\ Unaware(i) => /\ holder = i
                     /\ left + age[i] >= Ttl
                     /\ renewal[i] = "on" \/ cancelled[i]
    /\ renewal[i] = "on" => leader[i]
    /\ pc[i] \in {"leading", "sweeping"} => leader[i]

LeadersInv == \A i \in Instances : Leads(i)

(* An instance that a step of another leaves alone goes on as before, as   *)
(* long as the lease does, or it is not its own.                           *)
LEMMA OthersLead ==
    ASSUME LeadersInv, NEW i \in Instances,
           UNCHANGED <<pc[i], leader[i], renewal[i], age[i], cancelled[i]>>,
           holder = i => UNCHANGED lease
    PROVE  Leads(i)'
BY DEF LeadersInv, Leads, Unaware, lease

(* The steps of one instance.                                              *)
LEMMA InstanceLeads ==
    ASSUME TypeOK, TypeOK', LeadersInv, NEW j \in Instances, Instance(j)
    PROVE  LeadersInv'
<1>1. ASSUME NEW i \in Instances, i # j
      PROVE  Leads(i)'
  <2>1. UNCHANGED <<pc[i], leader[i], renewal[i], age[i], cancelled[i]>>
    BY <1>1 DEF Instance, RenewLease, RunTick, Shutdown, Stop, Restart, Crash, Boot, Sweeping,
                SweepBegin, Worker, Dispatch, Claim, Abandon, Rotated, SweepEnd, clocks, TypeOK
  <2>2. holder = i => UNCHANGED lease
    BY <1>1, SweeperAssumption
       DEF Instance, RenewLease, RunTick, TryAcquire, TryAcquireFails, SetNX, Shutdown, Stop,
           Release, Del, Restart, Crash, Boot, Sweeping, SweepBegin, Worker, Dispatch, Claim,
           Abandon, Rotated, SweepEnd, lease, TypeOK
  <2> QED
    BY <2>1, <2>2, OthersLead
<1>2. Leads(j)
  BY DEF LeadersInv
<1>3. Leads(j)'
  <2>1. CASE RenewLease(j)
    BY <1>2, <2>1, SweeperAssumption DEF RenewLease, Leads, Unaware, TypeOK
  <2>2. CASE RunTick(j)
    BY <1>2, <2>2, SweeperAssumption DEF RunTick, TryAcquire, SetNX, Leads, Unaware, TypeOK, lease
  <2>3. CASE Shutdown(j)
    BY <1>2, <2>3 DEF Shutdown, Leads, Unaware, TypeOK, lease, clocks
  <2>4. CASE Stop(j)
    BY <1>2, <2>4 DEF Stop, Leads, Unaware, TypeOK
  <2>5. CASE Restart(j) \/ Crash(j)
    BY <1>2, <2>5 DEF Restart, Crash, Boot, Leads, Unaware, TypeOK
  <2>6. CASE Sweeping(j)
    BY <1>2, <2>6 DEF Sweeping, SweepBegin, Worker, Dispatch, Claim, Abandon, Rotated, SweepEnd,
                      Leads, Unaware, TypeOK, lease, clocks
  <2> QED
    BY <2>1, <2>2, <2>3, <2>4, <2>5, <2>6 DEF Instance
<1> QED
  BY <1>1, <1>3 DEF LeadersInv

(* Time passes.  A leader that relies on its lease has renewed it recently *)
(* enough for it to live on.                                               *)
LEMMA ElapseLeads ==
    ASSUME RenewEvery + MaxDelay < Ttl, TypeOK, LeadersInv, Elapse
    PROVE  LeadersInv'
<1> SUFFICES ASSUME NEW i \in Instances
             PROVE  Leads(i)'
  BY DEF LeadersInv
<1>1. Leads(i) /\ UNCHANGED <<pc, leader, renewal, cancelled>>
  BY DEF LeadersInv, Elapse
<1>2. CASE ~Unaware(i)
  BY <1>1, <1>2 DEF Leads, Unaware
<1>3. CASE Unaware(i)
  <2>1. holder = i /\ left + age[i] >= Ttl /\ Urgent(i)
    BY <1>1, <1>3 DEF Leads, Unaware, Urgent
  <2>2. age[i] < RenewEvery + MaxDelay
    BY <2>1 DEF Elapse
  <2>3. left \in Nat /\ age[i] \in Nat /\ RenewEvery + MaxDelay \in Nat /\ Ttl \in Nat
    BY Intervals, SweeperAssumption DEF TypeOK
  <2>4. left > 1
    BY <2>1, <2>2, <2>3
  <2>5. left' = left - 1 /\ holder' = i
    BY <2>1, <2>3, <2>4 DEF Elapse
  <2>6. age'[i] = age[i] + 1
    <3>1. age'[i] = Least(age[i] + 1, RenewEvery + MaxDelay)
      BY DEF Elapse
    <3>2. ASSUME NEW m \in Nat, NEW x \in Nat, x < m
          PROVE  Least(x + 1, m) = x + 1
      BY <3>2 DEF Least
    <3> QED
      BY <2>2, <2>3, <3>1, <3>2
  <2>7. left' + age'[i] >= Ttl
    BY <2>1, <2>3, <2>5, <2>6
  <2> QED
    BY <1>1, <2>5, <2>7 DEF Leads, Unaware
<1> QED
  BY <1>2, <1>3

(* Two instances sweep at the same time only if one of them was told that  *)
(* it lost the lease, provided that a renewal comes before the lease runs  *)
(* out: the interval between renewals (a third of the lease) and the       *)
(* lateness of one together stay below its life (Run, startRenewal).       *)
THEOREM NeverTwoSweepers ==
    ASSUME RenewEvery + MaxDelay < Ttl
    PROVE  Spec => []OneSweeper
<1>1. Init => LeadersInv
  BY DEF Init, LeadersInv, Leads, Unaware
<1>2. TypeOK /\ TypeOK' /\ LeadersInv /\ [Next]_vars => LeadersInv'
  <2> SUFFICES ASSUME TypeOK, TypeOK', LeadersInv, [Next]_vars PROVE LeadersInv'
    OBVIOUS
  <2>1. CASE Elapse
    BY <2>1, ElapseLeads
  <2>2. CASE \E i \in Instances : Instance(i)
    BY <2>2, InstanceLeads
  <2>3. CASE (\E id \in Ids : Inventory(id)) \/ UNCHANGED vars
    BY <2>3 DEF Inventory, vars, lease, clocks, LeadersInv, Leads, Unaware
  <2> QED
    BY <2>1, <2>2, <2>3 DEF Next
<1>3. LeadersInv => OneSweeper
  BY DEF LeadersInv, Leads, Unaware, OneSweeper
<1> QED
  BY <1>1, <1>2, <1>3, SweeperTypeCorrect, PTL DEF Spec
=============================================================================
