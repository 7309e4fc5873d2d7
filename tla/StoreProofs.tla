---------------------------- MODULE StoreProofs -----------------------------
(***************************************************************************)
(* Theorems about Store, for every set of identities, instances, threads   *)
(* and providers and every answer of vaults and repository.                *)
(***************************************************************************)
EXTENDS Store, TLAPS

-----------------------------------------------------------------------------
(* What the operators on memories return, field by field.                  *)

(* addEvent appends one event, numbered by the next counter value, and     *)
(* touches nothing else.                                                   *)
LEMMA AddEventFields ==
    ASSUME NEW m \in Memory, NEW id \in Ids, NEW kind \in EventKinds,
           NEW outcome \in Outcomes, NEW run \in Nat
    PROVE  LET a == addEvent(m, id, kind, outcome, run)
           IN  /\ a \in Memory
               /\ a.identities = m.identities
               /\ a.runs = m.runs
               /\ a.nextRun = m.nextRun
               /\ a.nextEvent = m.nextEvent + 1
               /\ a.events = m.events \cup
                    {[n |-> m.nextEvent + 1, id |-> id, kind |-> kind, outcome |-> outcome,
                      run |-> run]}
  <1> DEFINE e == [n |-> m.nextEvent + 1, id |-> id, kind |-> kind, outcome |-> outcome,
                   run |-> run]
             a == addEvent(m, id, kind, outcome, run)
  <1>1. m.events \in SUBSET Event /\ m.nextEvent \in Nat
    BY DEF Memory
  <1>2. e \in Event
    BY <1>1 DEF Event
  <1> HIDE DEF e
  <1>3. a = [m EXCEPT !.nextEvent = m.nextEvent + 1, !.events = m.events \cup {e}]
    BY Zenon DEF addEvent, e
  <1>4. m.nextEvent + 1 \in Nat /\ m.events \cup {e} \in SUBSET Event
    BY <1>1, <1>2
  <1>5. a \in Memory
    BY <1>1, <1>3, <1>4 DEF Memory
  <1>6. /\ a.identities = m.identities /\ a.runs = m.runs /\ a.nextRun = m.nextRun
        /\ a.nextEvent = m.nextEvent + 1 /\ a.events = m.events \cup {e}
    BY <1>3 DEF Memory
  <1>7. QED
    BY <1>5, <1>6 DEF e

(* Writing one record leaves the other records, the audit trail and the    *)
(* counters alone.                                                         *)
LEMMA SetIdentityFields ==
    ASSUME NEW m \in Memory, NEW id \in Ids, NEW identity \in Identity
    PROVE  LET a == setIdentity(m, id, identity)
           IN  /\ a \in Memory
               /\ a.identities = [m.identities EXCEPT ![id] = identity]
               /\ a.events = m.events
               /\ a.runs = m.runs
               /\ a.nextEvent = m.nextEvent
               /\ a.nextRun = m.nextRun
  BY DEF Memory, setIdentity

(* Rotate's opening: one running run under a fresh number, two events of   *)
(* that run, the identity in renewing.                                     *)
LEMMA StartRunFields ==
    ASSUME NEW m \in Memory, NEW id \in Ids
    PROVE  LET s == startRun(m, id)
               n == m.nextRun + 1
           IN  /\ s \in Memory
               /\ s.identities = [m.identities EXCEPT
                                    ![id] = [@ EXCEPT !.state = "renewing"]]
               /\ s.runs = m.runs \cup
                    {[n |-> n, id |-> id, status |-> "running", key |-> 0]}
               /\ s.nextRun = n
               /\ s.nextEvent = m.nextEvent + 2
               /\ s.events = m.events \cup
                    {[n |-> m.nextEvent + 1, id |-> id, kind |-> "requested",
                      outcome |-> "in_progress", run |-> n],
                     [n |-> m.nextEvent + 2, id |-> id, kind |-> "started",
                      outcome |-> "in_progress", run |-> n]}
  <1> DEFINE n == m.nextRun + 1
             r == [n |-> n, id |-> id, status |-> "running", key |-> 0]
             started == [m EXCEPT !.nextRun = n, !.runs = m.runs \cup {r},
                                  !.identities[id].state = "renewing"]
             a == addEvent(started, id, "requested", "in_progress", n)
             s == addEvent(a, id, "started", "in_progress", n)
  <1>1. /\ m.events \in SUBSET Event /\ m.nextEvent \in Nat /\ n \in Nat
        /\ m.runs \in SUBSET Run /\ m.identities[id] \in Identity
        /\ m.identities \in [Ids -> Identity]
    BY DEF Memory
  <1>2. r \in Run
    BY <1>1 DEF Run
  <1>3. startRun(m, id) = s
    BY Zenon DEF startRun
  <1>4. [m.identities[id] EXCEPT !.state = "renewing"] \in Identity
    BY <1>1 DEF Identity, States
  <1> HIDE DEF n, r
  <1>5. started \in Memory
    BY <1>1, <1>2, <1>4 DEF Memory
  <1>6. /\ started.identities = [m.identities EXCEPT
                                   ![id] = [@ EXCEPT !.state = "renewing"]]
        /\ started.runs = m.runs \cup {r} /\ started.nextRun = n
        /\ started.events = m.events /\ started.nextEvent = m.nextEvent
    BY <1>1 DEF Memory
  <1>7. "requested" \in EventKinds /\ "started" \in EventKinds /\ "in_progress" \in Outcomes
    BY DEF EventKinds, Outcomes
  <1> HIDE DEF started
  <1>8. a \in Memory /\ s \in Memory
    BY <1>1, <1>5, <1>7, AddEventFields
  <1>9. /\ a.identities = started.identities /\ a.runs = started.runs
        /\ a.nextRun = started.nextRun /\ a.nextEvent = started.nextEvent + 1
        /\ a.events = started.events \cup
             {[n |-> started.nextEvent + 1, id |-> id, kind |-> "requested",
               outcome |-> "in_progress", run |-> n]}
    BY <1>1, <1>5, <1>7, AddEventFields
  <1>10. /\ s.identities = a.identities /\ s.runs = a.runs
         /\ s.nextRun = a.nextRun /\ s.nextEvent = a.nextEvent + 1
         /\ s.events = a.events \cup
              {[n |-> a.nextEvent + 1, id |-> id, kind |-> "started",
                outcome |-> "in_progress", run |-> n]}
    BY <1>1, <1>7, <1>8, AddEventFields
  <1> HIDE DEF a, s
  <1>11. s.nextEvent = m.nextEvent + 2 /\ a.nextEvent + 1 = m.nextEvent + 2
    BY <1>1, <1>6, <1>9, <1>10
  <1>12. QED
    BY <1>3, <1>6, <1>8, <1>9, <1>10, <1>11, Zenon DEF n, r
(* Rotate's end: the run gets its terminal status, with one event of the   *)
(* run.                                                                    *)
LEMMA FinishRunFields ==
    ASSUME NEW m \in Memory, NEW id \in Ids, NEW n \in Nat, NEW key \in Nat,
           NEW status \in {"succeeded", "failed"}
    PROVE  LET f == finishRun(m, id, n, status, key)
               kind == Terminal(status)
               outcome == IF status = "succeeded" THEN "success" ELSE "failure"
           IN  /\ f \in Memory
               /\ f.identities = m.identities
               /\ f.runs = {r \in m.runs : r.n # n} \cup
                    {[n |-> n, id |-> id, status |-> status, key |-> key]}
               /\ f.nextRun = m.nextRun
               /\ f.nextEvent = m.nextEvent + 1
               /\ f.events = m.events \cup
                    {[n |-> m.nextEvent + 1, id |-> id, kind |-> kind,
                      outcome |-> outcome, run |-> n]}
  <1> DEFINE R == {r \in m.runs : r.n # n} \cup
                    {[n |-> n, id |-> id, status |-> status, key |-> key]}
             finished == [m EXCEPT !.runs = R]
             kind == Terminal(status)
             outcome == IF status = "succeeded" THEN "success" ELSE "failure"
  <1>1. m.runs \in SUBSET Run
    BY DEF Memory
  <1>2. R \in SUBSET Run
    BY <1>1 DEF Run
  <1>3. kind \in EventKinds /\ outcome \in Outcomes
    BY DEF Terminal, EventKinds, Outcomes
  <1>4. finishRun(m, id, n, status, key) = addEvent(finished, id, kind, outcome, n)
    BY DEF finishRun, Terminal
  <1> HIDE DEF R, kind, outcome
  <1>5. /\ finished \in Memory
        /\ finished.identities = m.identities /\ finished.runs = R
        /\ finished.nextRun = m.nextRun /\ finished.nextEvent = m.nextEvent
        /\ finished.events = m.events
    BY <1>2 DEF Memory
  <1> HIDE DEF finished
  <1>6. QED
    BY <1>3, <1>4, <1>5, AddEventFields DEF R, kind, outcome

(* Delete's purge drops everything of one identity and one event number.   *)
LEMMA PurgeFields ==
    ASSUME NEW m \in Memory, NEW id \in Ids
    PROVE  LET p == purge(m, id)
           IN  /\ p \in Memory
               /\ p.identities = [m.identities EXCEPT ![id] = NoIdentity]
               /\ p.events = {e \in m.events : e.id # id}
               /\ p.runs = {r \in m.runs : r.id # id}
               /\ p.nextEvent = m.nextEvent + 1
               /\ p.nextRun = m.nextRun
  <1>1. /\ m.identities \in [Ids -> Identity] /\ m.events \in SUBSET Event
        /\ m.runs \in SUBSET Run /\ m.nextEvent \in Nat
    BY DEF Memory
  <1>2. NoIdentity \in Identity
    BY DEF NoIdentity, Identity
  <1> DEFINE f == [m.identities EXCEPT ![id] = NoIdentity]
             E == {e \in m.events : e.id # id}
             R == {r \in m.runs : r.id # id}
  <1>3. /\ f \in [Ids -> Identity] /\ E \in SUBSET Event /\ R \in SUBSET Run
        /\ m.nextEvent + 1 \in Nat
    BY <1>1, <1>2
  <1>4. purge(m, id) = [m EXCEPT !.identities = f, !.events = E, !.runs = R,
                                 !.nextEvent = m.nextEvent + 1]
    BY Zenon DEF purge
  <1> HIDE DEF f, E, R
  <1>5. purge(m, id) \in Memory
    BY <1>3, <1>4 DEF Memory
  <1>6. /\ purge(m, id).identities = f /\ purge(m, id).events = E
        /\ purge(m, id).runs = R /\ purge(m, id).nextEvent = m.nextEvent + 1
        /\ purge(m, id).nextRun = m.nextRun
    BY <1>4 DEF Memory
  <1>7. QED
    BY <1>5, <1>6 DEF f, E, R

(* A restored memory is the snapshot, field by field.                      *)
LEMMA RestoreFields ==
    ASSUME NEW m \in Memory, NEW snap \in Memory
    PROVE  LET a == restoreLocked(m, snap)
           IN  /\ a \in Memory
               /\ a.identities = snap.identities
               /\ a.events = snap.events
               /\ a.runs = snap.runs
               /\ a.nextEvent = snap.nextEvent
               /\ a.nextRun = snap.nextRun
  BY DEF restoreLocked, Memory

LEMMA EmptyMemoryType == EmptyMemory \in Memory /\ NoIdentity \in Identity
  BY DEF EmptyMemory, Memory, NoIdentity, Identity

(* The memory of a first boot: two events for each discovered identity.    *)
LEMMA AdoptedFields ==
    /\ adopted \in Memory
    /\ \A id \in Ids : adopted.identities[id].state \in {"absent", "active"}
    /\ adopted.events =
         {[n |-> 2 * k - 1, id |-> Discovered[k], kind |-> "discovered",
           outcome |-> "success", run |-> 0] : k \in DOMAIN Discovered}
         \cup {[n |-> 2 * k, id |-> Discovered[k], kind |-> "registered",
                outcome |-> "success", run |-> 0] : k \in DOMAIN Discovered}
    /\ adopted.nextEvent = 2 * Len(Discovered)
    /\ adopted.runs = {} /\ adopted.nextRun = 0
  <1> DEFINE found == DOMAIN Discovered
             f == [id \in Ids |->
                     IF \E k \in found : Discovered[k] = id
                     THEN [NoIdentity EXCEPT !.state = "active",
                             !.key = CHOOSE k \in found : Discovered[k] = id]
                     ELSE NoIdentity]
  <1>1. /\ Discovered \in Seq(Ids) /\ Len(Discovered) \in Nat
        /\ found = 1..Len(Discovered) /\ \A k \in found : Discovered[k] \in Ids
    BY StoreAssumption
  <1>2. /\ f \in [Ids -> Identity]
        /\ \A id \in Ids : f[id].state \in {"absent", "active"}
    <2> SUFFICES ASSUME NEW id \in Ids
                 PROVE  f[id] \in Identity /\ f[id].state \in {"absent", "active"}
      OBVIOUS
    <2>1. CASE \E k \in found : Discovered[k] = id
      <3> DEFINE c == CHOOSE k \in found : Discovered[k] = id
      <3>1. c \in found
        BY <2>1
      <3>2. c \in Nat
        BY <1>1, <3>1
      <3> HIDE DEF c
      <3>3. /\ [NoIdentity EXCEPT !.state = "active", !.key = c] \in Identity
            /\ [NoIdentity EXCEPT !.state = "active", !.key = c].state = "active"
        BY <3>2 DEF NoIdentity, Identity, States
      <3>4. QED
        BY <2>1, <3>3 DEF c
    <2>2. CASE ~ \E k \in found : Discovered[k] = id
      BY <2>2, EmptyMemoryType DEF NoIdentity
    <2>3. QED
      BY <2>1, <2>2
  <1> DEFINE audit(k, n, kind) == [n |-> n, id |-> Discovered[k], kind |-> kind,
                                   outcome |-> "success", run |-> 0]
             A == {audit(k, 2 * k - 1, "discovered") : k \in found}
                    \cup {audit(k, 2 * k, "registered") : k \in found}
  <1>3. A \in SUBSET Event
    BY <1>1 DEF Event, EventKinds, Outcomes
  <1>4. adopted = [EmptyMemory EXCEPT !.identities = f, !.events = A,
                                      !.nextEvent = 2 * Len(Discovered)]
    BY Zenon DEF adopted
  <1>5. 2 * Len(Discovered) \in Nat
    BY <1>1
  <1> HIDE DEF f, A
  <1>6. adopted \in Memory
    BY <1>2, <1>3, <1>4, <1>5, EmptyMemoryType DEF Memory
  <1>7. /\ adopted.identities = f /\ adopted.events = A
        /\ adopted.nextEvent = 2 * Len(Discovered)
        /\ adopted.runs = {} /\ adopted.nextRun = 0
    BY <1>4 DEF EmptyMemory
  <1>8. QED
    BY <1>2, <1>6, <1>7 DEF A
-----------------------------------------------------------------------------
(* Type correctness.  A call in progress works on an identity: without     *)
(* this the type invariant is not inductive.                               *)
Busy == \A t \in Threads : call[t].pc # "idle" => call[t].id \in Ids

TypeInv == TypeOK /\ Busy

(* A call moves to a well-formed place.                                    *)
LEMMA ProceedType ==
    ASSUME TypeInv, NEW t \in Threads, NEW c \in Call, Proceed(t, c),
           c.pc # "idle" => c.id \in Ids
    PROVE  /\ call' \in [Threads -> Call] /\ Busy'
           /\ call'[t] = c /\ \A u \in Threads \ {t} : call'[u] = call[u]
  BY DEF TypeInv, TypeOK, Busy, Proceed

LEMMA NoCallType == NoCall \in Call /\ NoCall.pc = "idle"
  BY EmptyMemoryType DEF NoCall, Call, Places

LEMMA ReturnType ==
    ASSUME TypeInv, NEW t \in Threads, Return(t)
    PROVE  /\ call' \in [Threads -> Call] /\ Busy'
           /\ call'[t] = NoCall /\ \A u \in Threads \ {t} : call'[u] = call[u]
  BY ProceedType, NoCallType DEF Return

LEMMA GotoType ==
    ASSUME TypeInv, NEW t \in Threads, NEW place \in Places, Goto(t, place),
           call[t].pc # "idle"
    PROVE  /\ call' \in [Threads -> Call] /\ Busy'
           /\ call'[t] = [call[t] EXCEPT !.pc = place] /\ call'[t].pc = place
           /\ \A u \in Threads \ {t} : call'[u] = call[u]
  <1>1. call[t] \in Call /\ call[t].id \in Ids
    BY DEF TypeInv, TypeOK, Busy
  <1> DEFINE c == [call[t] EXCEPT !.pc = place]
  <1>2. c \in Call /\ c.id \in Ids /\ c.pc = place
    BY <1>1 DEF Call
  <1> HIDE DEF c
  <1>3. Proceed(t, c)
    BY DEF Goto, c
  <1>4. call' \in [Threads -> Call] /\ Busy' /\ call'[t] = c
        /\ \A u \in Threads \ {t} : call'[u] = call[u]
    BY <1>2, <1>3, ProceedType
  <1>5. QED
    BY <1>2, <1>4 DEF c

LEMMA EnterType ==
    ASSUME TypeInv, NEW t \in Threads, NEW op \in Operations, NEW id \in Ids,
           NEW place \in Places, NEW view \in Identity,
           Enter(t, op, id, place, view)
    PROVE  /\ call' \in [Threads -> Call] /\ Busy'
           /\ call'[t].pc = place /\ call'[t].op = op
           /\ \A u \in Threads \ {t} : call'[u] = call[u]
  <1> DEFINE c == [NoCall EXCEPT !.pc = place, !.op = op, !.id = id, !.view = view]
  <1>1. c \in Call /\ c.id = id /\ c.pc = place /\ c.op = op
    BY NoCallType DEF Call
  <1> HIDE DEF c
  <1>2. Proceed(t, c)
    BY DEF Enter, c
  <1>3. QED
    BY <1>1, <1>2, ProceedType

LEMMA SetMemType ==
    ASSUME TypeOK, NEW t \in Threads, NEW m \in Memory, SetMem(t, m)
    PROVE  /\ mem' \in [Instances -> Memory]
           /\ mem'[Host[t]] = m
           /\ \A i \in Instances \ {Host[t]} : mem'[i] = mem[i]
  BY StoreAssumption DEF TypeOK, SetMem

LEMMA SaveType ==
    ASSUME TypeOK, NEW m \in Memory, NEW result \in PersistResults, Save(m, result)
    PROVE  /\ snapshot' \in Memory /\ notices' \in [Instances -> Nat]
           /\ snapshot' = m \/ snapshot' = snapshot
  BY DEF TypeOK, Save, publish, repository

LEMMA PersistType ==
    ASSUME TypeOK, NEW t \in Threads, NEW m \in Memory, persistLocked(t, m)
    PROVE  /\ mem' \in [Instances -> Memory]
           /\ mem'[Host[t]] = m
           /\ \A i \in Instances \ {Host[t]} : mem'[i] = mem[i]
           /\ snapshot' \in Memory /\ notices' \in [Instances -> Nat]
           /\ snapshot' = m \/ snapshot' = snapshot
  BY SetMemType, SaveType DEF persistLocked

(* Where a call stands: its instance, its memory and its identity.         *)
LEMMA CallType ==
    ASSUME TypeInv, NEW t \in Threads
    PROVE  /\ Host[t] \in Instances /\ mem[Host[t]] \in Memory
           /\ call[t] \in Call /\ call[t].view \in Identity /\ call[t].snap \in Memory
           /\ call[t].run \in Nat /\ call[t].secret \in Nat
           /\ call[t].pc # "idle" => call[t].id \in Ids
  BY StoreAssumption DEF TypeInv, TypeOK, Busy, Call
(* Delivery to a vault: one audit event at most, and a call that goes on.  *)
LEMMA DeliverType ==
    ASSUME TypeInv, NEW t \in Threads, NEW w \in {"native", "common"},
           call[t].pc # "idle", Deliver(t, w)
    PROVE  /\ mem' \in [Instances -> Memory]
           /\ call' \in [Threads -> Call] /\ Busy'
           /\ vault' \in [{"native", "common"} -> SUBSET Entry]
  <1> DEFINE c == call[t]
             m == mem[Host[t]]
             kind == IF w = "native" THEN "delivered" ELSE "mirrored"
  <1>1. /\ m \in Memory /\ c \in Call /\ c.id \in Ids /\ c.view \in Identity
        /\ c.view.refs \in SUBSET {"native", "common"} /\ c.view.key \in Nat
        /\ c.secret \in Nat
    BY CallType DEF Identity
  <1>2. kind \in EventKinds /\ {"success", "attention"} \subseteq Outcomes
    BY DEF EventKinds, Outcomes
  <1>3. \A refs : afterDelivery(w, c.op, refs) \in Places
    BY DEF afterDelivery, persistPlace, Places
  <1>4. /\ addEvent(m, c.id, kind, "success", 0) \in Memory
        /\ addEvent(m, c.id, kind, "attention", 0) \in Memory
    BY <1>1, <1>2, AddEventFields
  <1>5. PICK answer \in Answers(w) :
          \/ /\ answer = "unsupported"
             /\ UNCHANGED <<mem, vault>>
             /\ Goto(t, afterDelivery(w, c.op, c.view.refs))
          \/ /\ answer = "error"
             /\ SetMem(t, addEvent(m, c.id, kind, "attention", 0))
             /\ UNCHANGED vault
             /\ Goto(t, afterDelivery(w, c.op, c.view.refs))
          \/ /\ answer = "ok"
             /\ StoreSecret(w, c.id, c.view.key, c.secret)
             /\ SetMem(t, addEvent(m, c.id, kind, "success", 0))
             /\ Proceed(t, [c EXCEPT !.view.refs = @ \cup {w},
                              !.pc = afterDelivery(w, c.op, c.view.refs \cup {w})])
    BY Zenon DEF Deliver
  <1>6. CASE answer = "unsupported"
    BY <1>3, <1>5, <1>6, GotoType DEF TypeInv, TypeOK
  <1>7. CASE answer = "error"
    BY <1>3, <1>4, <1>5, <1>7, GotoType, SetMemType DEF TypeInv, TypeOK
  <1>8. CASE answer = "ok"
    <2> DEFINE d == [c EXCEPT !.view.refs = @ \cup {w},
                              !.pc = afterDelivery(w, c.op, c.view.refs \cup {w})]
    <2>1. d \in Call /\ d.id = c.id
      BY <1>1, <1>3 DEF Call, Identity
    <2> HIDE DEF d
    <2>2. call' \in [Threads -> Call] /\ Busy'
      BY <1>1, <1>5, <1>8, <2>1, ProceedType DEF d
    <2>3. vault' \in [{"native", "common"} -> SUBSET Entry]
      <3>1. secretName(w, c.view.key) \in Nat
        BY <1>1 DEF secretName
      <3>2. [id |-> c.id, name |-> secretName(w, c.view.key), secret |-> c.secret]
              \in Entry
        BY <1>1, <3>1 DEF Entry
      <3>3. QED
        BY <1>5, <1>8, <3>2 DEF StoreSecret, TypeInv, TypeOK
    <2>4. mem' \in [Instances -> Memory]
      BY <1>4, <1>5, <1>8, SetMemType DEF TypeInv
    <2>5. QED
      BY <2>2, <2>3, <2>4
  <1>9. QED
    BY <1>5, <1>6, <1>7, <1>8

(* Revocation from a vault: one audit event at most.                       *)
LEMMA RevokeType ==
    ASSUME TypeInv, NEW t \in Threads, NEW w \in {"native", "common"},
           call[t].pc # "idle", Revoke(t, w)
    PROVE  /\ mem' \in [Instances -> Memory]
           /\ vault' \in [{"native", "common"} -> SUBSET Entry]
  <1> DEFINE c == call[t]
             m == mem[Host[t]]
             kind == IF w = "native" THEN "revoked" ELSE "unmirrored"
  <1>1. m \in Memory /\ c.id \in Ids
    BY CallType
  <1>2. kind \in EventKinds /\ {"success", "attention"} \subseteq Outcomes
    BY DEF EventKinds, Outcomes
  <1>3. /\ addEvent(m, c.id, kind, "success", 0) \in Memory
        /\ addEvent(m, c.id, kind, "attention", 0) \in Memory
    BY <1>1, <1>2, AddEventFields
  <1>4. \/ UNCHANGED <<mem, vault>>
        \/ SetMem(t, addEvent(m, c.id, kind, "attention", 0)) /\ UNCHANGED vault
        \/ /\ SetMem(t, addEvent(m, c.id, kind, "success", 0))
           /\ RevokeSecret(w, c.id, c.view.key)
    BY Zenon DEF Revoke
  <1>5. QED
    BY <1>3, <1>4, SetMemType DEF TypeInv, TypeOK, RevokeSecret, Filed
LEMMA RememberType ==
    ASSUME TypeOK, NEW t \in Threads, NEW id \in Ids, NEW key \in Nat,
           remember(t, id, key)
    PROVE  slot' \in [Instances -> [Providers -> Nat]]
  BY StoreAssumption DEF TypeOK, remember

(* Every step keeps the types.                                             *)
LEMMA TypeStep == TypeInv /\ [Next]_vars => TypeInv'
  <1> SUFFICES ASSUME TypeInv, [Next]_vars PROVE TypeInv'
    OBVIOUS
  <1> USE DEF provider, repository
  <1>0. /\ "success" \in Outcomes /\ "active" \in States
        /\ Operations \subseteq Operations \cup {"none"}
    BY DEF Outcomes, States
  <1>1. ASSUME NEW t \in Threads, NEW id \in Ids, Register(t, id) PROVE TypeInv'
    <2> DEFINE m == mem[Host[t]]
               identity(key) == [NoIdentity EXCEPT !.state = "active", !.key = key]
               a(key) == addEvent(setIdentity(m, id, identity(key)),
                                  id, "registered", "success", 0)
    <2>0. PICK key \in issued[id] \cup {0} : persistLocked(t, a(key))
      BY <1>1, Zenon DEF Register
    <2>a. key \in Nat
      BY DEF TypeInv, TypeOK
    <2>1. m \in Memory /\ identity(key) \in Identity /\ "registered" \in EventKinds
      BY <2>a, CallType DEF NoIdentity, Identity, States, EventKinds
    <2>2. a(key) \in Memory
      BY <1>0, <2>1, SetIdentityFields, AddEventFields
    <2> HIDE DEF a
    <2>3. UNCHANGED <<lock, call, watch, provider, slot, vault>> /\ ops' = ops + 1
      BY <1>1, Zenon DEF Register, Start
    <2>4. QED
      BY <2>0, <2>2, <2>3, PersistType DEF TypeInv, TypeOK, Busy
  <1>2. ASSUME NEW t \in Threads, NEW id \in Ids, RotateBegin(t, id) PROVE TypeInv'
    <2> DEFINE m == mem[Host[t]]
               c == [NoCall EXCEPT !.pc = "rotating", !.op = "rotate", !.id = id,
                       !.view = [m.identities[id] EXCEPT !.state = "renewing"],
                       !.run = m.nextRun + 1]
    <2>1. m \in Memory /\ startRun(m, id) \in Memory
      BY CallType, StartRunFields
    <2>2. /\ m.nextRun + 1 \in Nat
          /\ [m.identities[id] EXCEPT !.state = "renewing"] \in Identity
      BY <2>1 DEF Memory, Identity, States
    <2>3. c \in Call /\ c.id = id
      BY <2>2, NoCallType DEF Call, Places, Operations
    <2> HIDE DEF c
    <2>4. call' \in [Threads -> Call] /\ Busy'
      BY <1>2, <2>3, ProceedType DEF RotateBegin, c
    <2>5. QED
      BY <1>2, <2>1, <2>4, SetMemType, StoreAssumption
      DEF RotateBegin, Start, TypeInv, TypeOK
  <1>3. ASSUME NEW t \in Threads, NEW id \in Ids, ProvisionCreate(t, id) PROVE TypeInv'
    <2> DEFINE identity == [NoIdentity EXCEPT !.state = "active", !.key = nextKey + 1]
               c == [NoCall EXCEPT !.pc = "adopt", !.op = "provision", !.id = id,
                                   !.view = identity, !.secret = nextKey + 1]
    <2>1. nextKey + 1 \in Nat
      BY DEF TypeInv, TypeOK
    <2>2. identity \in Identity
      BY <2>1 DEF NoIdentity, Identity, States
    <2> HIDE DEF identity
    <2>3. c \in Call /\ c.id = id
      BY <2>1, <2>2, NoCallType DEF Call, Places, Operations
    <2> HIDE DEF c
    <2>4. call' \in [Threads -> Call] /\ Busy'
      BY <1>3, <2>3, ProceedType DEF ProvisionCreate, c, identity
    <2>5. slot' \in [Instances -> [Providers -> Nat]]
      <3>1. remember(t, id, nextKey + 1) \/ UNCHANGED slot
        BY <1>3, Zenon DEF ProvisionCreate
      <3>2. QED
        BY <2>1, <3>1, RememberType DEF TypeInv, TypeOK
    <2>6. QED
      BY <1>3, <2>1, <2>4, <2>5 DEF ProvisionCreate, Start, TypeInv, TypeOK
  <1>4. ASSUME NEW t \in Threads, NEW id \in Ids, Retire(t, id) PROVE TypeInv'
    <2> DEFINE m == mem[Host[t]]
               identity == [m.identities[id] EXCEPT !.state = "retired", !.key = 0,
                                                    !.health = "attention"]
               retired == addEvent(setIdentity(m, id, identity), id, "retired",
                                   "success", 0)
    <2>1. m \in Memory /\ m.identities[id] \in Identity /\ "retired" \in EventKinds
      BY CallType DEF Memory, EventKinds
    <2>2. identity \in Identity
      BY <2>1 DEF Identity, States
    <2> HIDE DEF identity
    <2>3. retired \in Memory
      BY <1>0, <2>1, <2>2, SetIdentityFields, AddEventFields
    <2> HIDE DEF retired
    <2>4. PICK result \in PersistResults :
            /\ Save(retired, result)
            /\ IF Saved(result) THEN Enter(t, "retire", id, "revoke", identity)
                                ELSE UNCHANGED call
      BY <1>4, Zenon DEF Retire, retired, identity
    <2>5. snapshot' \in Memory /\ notices' \in [Instances -> Nat]
      BY <2>3, <2>4, SaveType DEF TypeInv
    <2>6. call' \in [Threads -> Call] /\ Busy'
      <3>1. "retire" \in Operations /\ "revoke" \in Places
        BY DEF Operations, Places
      <3>2. CASE Saved(result)
        BY <2>2, <2>4, <3>1, <3>2, EnterType
      <3>3. CASE ~ Saved(result)
        BY <2>4, <3>3 DEF TypeInv, TypeOK, Busy
      <3>4. QED
        BY <3>2, <3>3
    <2>7. SetMem(t, retired)
      BY <1>4, Zenon DEF Retire, retired, identity
    <2>8. mem' \in [Instances -> Memory]
      BY <2>3, <2>7, SetMemType DEF TypeInv
    <2>9. QED
      BY <1>4, <2>5, <2>6, <2>8 DEF Retire, Start, TypeInv, TypeOK
  <1>5. ASSUME NEW t \in Threads, NEW id \in Ids, RetireFail(t, id) PROVE TypeInv'
    BY <1>5 DEF RetireFail, Start, TypeInv, TypeOK, Busy
  <1>6. ASSUME NEW t \in Threads, NEW id \in Ids, DeleteBegin(t, id) PROVE TypeInv'
    <2>1. /\ mem[Host[t]].identities[id] \in Identity
          /\ "delete" \in Operations /\ "revoke" \in Places
      BY CallType DEF Memory, Operations, Places
    <2>2. call' \in [Threads -> Call] /\ Busy'
      BY <1>6, <2>1, EnterType DEF DeleteBegin
    <2>3. QED
      BY <1>6, <2>2 DEF DeleteBegin, Start, TypeInv, TypeOK
  <1>7. ASSUME NEW t \in Threads, NEW id \in Ids, UseBegin(t, id) PROVE TypeInv'
    <2>1. /\ mem[Host[t]].identities[id] \in Identity
          /\ "use" \in Operations /\ "read" \in Places
      BY CallType DEF Memory, Operations, Places
    <2>2. call' \in [Threads -> Call] /\ Busy'
      BY <1>7, <2>1, EnterType DEF UseBegin
    <2>3. QED
      BY <1>7, <2>2 DEF UseBegin, Start, TypeInv, TypeOK
  <1>8. ASSUME NEW t \in Threads, RotateFail(t) PROVE TypeInv'
    <2> DEFINE c == call[t]
               m == setIdentity(mem[Host[t]], c.id, returned(c.view))
               f == finishRun(m, c.id, c.run, "failed", 0)
    <2>1. c.pc # "idle"
      BY <1>8 DEF RotateFail
    <2>2. /\ mem[Host[t]] \in Memory /\ c.id \in Ids /\ c.view \in Identity
          /\ c.run \in Nat
      BY <2>1, CallType
    <2>3. returned(c.view) \in Identity
      BY <2>2 DEF returned, Identity, States
    <2>4. m \in Memory
      BY <2>2, <2>3, SetIdentityFields
    <2> HIDE DEF m
    <2>5. f \in Memory
      BY <2>2, <2>4, FinishRunFields
    <2> HIDE DEF f
    <2>6. persistLocked(t, f) /\ Return(t) /\ Release(t)
      BY <1>8, Zenon DEF RotateFail, f, m
    <2>7. call' \in [Threads -> Call] /\ Busy'
      BY <2>6, ReturnType
    <2>8. /\ live' \in [Ids -> SUBSET Nat] /\ issued' \in [Ids -> SUBSET Nat]
          /\ nextKey' \in Nat
      <3> DEFINE key == nextKey + 1
      <3>1. key \in Nat
        BY DEF TypeInv, TypeOK
      <3> HIDE DEF key
      <3>2. \/ UNCHANGED provider
            \/ /\ nextKey' = key
               /\ issued' = [issued EXCEPT ![c.id] = @ \cup {key}]
               /\ \/ live' = [live EXCEPT ![c.id] = @ \cup {key}]
                  \/ live' = [live EXCEPT ![c.id] = (@ \ {c.view.key}) \cup {key}]
        BY <1>8, Zenon DEF RotateFail, key
      <3>3. live \in [Ids -> SUBSET Nat] /\ issued \in [Ids -> SUBSET Nat] /\ nextKey \in Nat
        BY DEF TypeInv, TypeOK
      <3>4. live' \in [Ids -> SUBSET Nat]
        BY <2>2, <3>1, <3>2, <3>3
      <3>5. issued' \in [Ids -> SUBSET Nat] /\ nextKey' \in Nat
        BY <2>2, <3>1, <3>2, <3>3
      <3>6. QED
        BY <3>4, <3>5
    <2>9. QED
      BY <1>8, <2>5, <2>6, <2>7, <2>8, PersistType
      DEF RotateFail, Release, TypeInv, TypeOK
  <1>9. ASSUME NEW t \in Threads, RotateSucceed(t) PROVE TypeInv'
    <2> DEFINE c == call[t]
               key == nextKey + 1
               identity == [NoIdentity EXCEPT !.state = "active", !.key = key]
               m == setIdentity(mem[Host[t]], c.id, identity)
               f == finishRun(m, c.id, c.run, "succeeded", key)
               d == [c EXCEPT !.pc = "consume", !.view = identity]
    <2>1. c.pc # "idle"
      BY <1>9 DEF RotateSucceed
    <2>2. /\ mem[Host[t]] \in Memory /\ c.id \in Ids /\ c.run \in Nat /\ c \in Call
      BY <2>1, CallType
    <2>3. key \in Nat
      BY DEF TypeInv, TypeOK
    <2> HIDE DEF key
    <2>4. identity \in Identity
      BY <2>3 DEF NoIdentity, Identity, States
    <2> HIDE DEF identity
    <2>5. m \in Memory
      BY <2>2, <2>4, SetIdentityFields
    <2> HIDE DEF m
    <2>6. f \in Memory
      BY <2>2, <2>3, <2>5, FinishRunFields
    <2>7. d \in Call /\ d.id = c.id
      BY <2>2, <2>4 DEF Call, Places
    <2> HIDE DEF f, d
    <2>8. SetMem(t, f) /\ Proceed(t, d) /\ Release(t) /\ remember(t, c.id, key)
      BY <1>9, Zenon DEF RotateSucceed, f, m, d, identity, key
    <2>9. call' \in [Threads -> Call] /\ Busy'
      BY <2>2, <2>7, <2>8, ProceedType
    <2>10. slot' \in [Instances -> [Providers -> Nat]]
      BY <2>2, <2>3, <2>8, RememberType DEF TypeInv
    <2>11. /\ nextKey' = key
           /\ issued' = [issued EXCEPT ![c.id] = @ \cup {key}]
           /\ live' = [live EXCEPT ![c.id] = (@ \ {c.view.key}) \cup {key}]
      BY <1>9, Zenon DEF RotateSucceed, key
    <2>12. mem' \in [Instances -> Memory] /\ lock' \in [Instances -> SUBSET Threads]
      BY <2>6, <2>8, SetMemType DEF Release, TypeInv, TypeOK
    <2>13. QED
      BY <1>9, <2>2, <2>3, <2>9, <2>10, <2>11, <2>12
      DEF RotateSucceed, TypeInv, TypeOK
  <1>10. ASSUME NEW t \in Threads, RotateConsume(t) PROVE TypeInv'
    <2> DEFINE c == call[t]
               secret == slot[Host[t]][ProviderOf[c.id]]
               d == [c EXCEPT !.secret = secret,
                              !.pc = IF secret = 0 THEN "persist" ELSE "deliver"]
    <2>1. c.pc # "idle"
      BY <1>10 DEF RotateConsume
    <2>2. c \in Call /\ c.id \in Ids /\ Host[t] \in Instances
      BY <2>1, CallType
    <2>3. secret \in Nat
      BY <2>2, StoreAssumption DEF TypeInv, TypeOK
    <2> HIDE DEF secret
    <2>4. d \in Call /\ d.id = c.id
      BY <2>2, <2>3 DEF Call, Places
    <2> HIDE DEF d
    <2>5. Proceed(t, d)
      BY <1>10, Zenon DEF RotateConsume, d, secret
    <2>6. call' \in [Threads -> Call] /\ Busy'
      BY <2>2, <2>4, <2>5, ProceedType
    <2>7. QED
      BY <1>10, <2>2, <2>6, StoreAssumption DEF RotateConsume, TypeInv, TypeOK
  <1>11. ASSUME NEW t \in Threads, RotatePersist(t) PROVE TypeInv'
    <2>1. mem[Host[t]] \in Memory
      BY CallType
    <2>2. QED
      BY <1>11, <2>1, PersistType, ReturnType DEF RotatePersist, TypeInv, TypeOK
  <1>12. ASSUME NEW t \in Threads, DeliverToVault(t) PROVE TypeInv'
    BY <1>12, DeliverType DEF DeliverToVault, TypeInv, TypeOK
  <1>13. ASSUME NEW t \in Threads, MirrorToCommonVault(t) PROVE TypeInv'
    BY <1>13, DeliverType DEF MirrorToCommonVault, TypeInv, TypeOK
  <1>14. ASSUME NEW t \in Threads, RecordReferences(t) PROVE TypeInv'
    <2>1. persistPlace(call[t].op) \in Places /\ call[t].pc # "idle"
      BY <1>14 DEF persistPlace, Places, RecordReferences
    <2>2. call' \in [Threads -> Call] /\ Busy'
      BY <1>14, <2>1, GotoType DEF RecordReferences
    <2>3. setIdentity(mem[Host[t]], call[t].id, call[t].view) \in Memory
      BY <2>1, CallType, SetIdentityFields
    <2>4. QED
      BY <1>14, <2>2, <2>3, SetMemType DEF RecordReferences, TypeInv, TypeOK
  <1>15. ASSUME NEW t \in Threads, ProvisionReject(t) PROVE TypeInv'
    <2>1. call[t].id \in Ids
      BY <1>15, CallType DEF ProvisionReject
    <2>2. QED
      BY <1>15, <2>1, ReturnType DEF ProvisionReject, TypeInv, TypeOK
  <1>16. ASSUME NEW t \in Threads, ProvisionAdopt(t) PROVE TypeInv'
    <2> DEFINE c == call[t]
               m == setIdentity(mem[Host[t]], c.id, c.view)
               e == addEvent(m, c.id, "discovered", "success", 0)
               f == addEvent(e, c.id, "registered", "success", 0)
    <2>1. c.pc # "idle" /\ "deliver" \in Places
      BY <1>16 DEF ProvisionAdopt, Places
    <2>2. /\ mem[Host[t]] \in Memory /\ c.id \in Ids /\ c.view \in Identity
          /\ "discovered" \in EventKinds /\ "registered" \in EventKinds
      BY <2>1, CallType DEF EventKinds
    <2>3. m \in Memory
      BY <2>2, SetIdentityFields
    <2> HIDE DEF m
    <2>4. e \in Memory
      BY <1>0, <2>2, <2>3, AddEventFields
    <2> HIDE DEF e
    <2>5. f \in Memory
      BY <1>0, <2>2, <2>4, AddEventFields
    <2> HIDE DEF f
    <2>6. SetMem(t, f) /\ Goto(t, "deliver")
      BY <1>16, Zenon DEF ProvisionAdopt, f, e, m
    <2>7. QED
      BY <1>16, <2>1, <2>5, <2>6, SetMemType, GotoType DEF ProvisionAdopt, TypeInv, TypeOK
  <1>17. ASSUME NEW t \in Threads, ProvisionSnapshot(t) PROVE TypeInv'
    <2> DEFINE c == call[t]
               m == mem[Host[t]]
               c1 == [c EXCEPT !.snap.identities = m.identities, !.pc = "copyEvents"]
               c2 == [c EXCEPT !.snap.events = m.events, !.pc = "copyRuns"]
               c3 == [c EXCEPT !.snap.runs = m.runs, !.snap.nextEvent = m.nextEvent,
                               !.snap.nextRun = m.nextRun, !.pc = "save"]
    <2>1. c.pc # "idle"
      BY <1>17 DEF ProvisionSnapshot, CopyPart
    <2>2. /\ m \in Memory /\ c.id \in Ids /\ c \in Call /\ c.snap \in Memory
      BY <2>1, CallType
    <2>3. c1 \in Call /\ c1.id = c.id
      BY <2>2 DEF Call, Memory, Places
    <2>4. c2 \in Call /\ c2.id = c.id
      BY <2>2 DEF Call, Memory, Places
    <2>5. c3 \in Call /\ c3.id = c.id
      BY <2>2 DEF Call, Memory, Places
    <2> HIDE DEF c1, c2, c3
    <2>6. Proceed(t, c1) \/ Proceed(t, c2) \/ Proceed(t, c3)
      BY <1>17, Zenon DEF ProvisionSnapshot, CopyPart, c1, c2, c3
    <2>7. call' \in [Threads -> Call] /\ Busy'
      BY <2>2, <2>3, <2>4, <2>5, <2>6, ProceedType
    <2>8. QED
      BY <1>17, <2>7 DEF ProvisionSnapshot, TypeInv, TypeOK
  <1>18. ASSUME NEW t \in Threads, ProvisionSave(t) PROVE TypeInv'
    <2>1. call[t].snap \in Memory
      BY CallType
    <2>2. snapshot' \in Memory /\ notices' \in [Instances -> Nat]
      BY <1>18, <2>1, SaveType DEF ProvisionSave, TypeInv
    <2>3. QED
      BY <1>18, <2>2, ReturnType DEF ProvisionSave, TypeInv, TypeOK
  <1>19. ASSUME NEW t \in Threads, RevokeFromVault(t) PROVE TypeInv'
    <2>1. "revokeCommon" \in Places /\ call[t].pc # "idle"
      BY <1>19 DEF Places, RevokeFromVault
    <2>2. call' \in [Threads -> Call] /\ Busy'
      BY <1>19, <2>1, GotoType DEF RevokeFromVault
    <2>3. QED
      BY <1>19, <2>1, <2>2, RevokeType DEF RevokeFromVault, TypeInv, TypeOK
  <1>20. ASSUME NEW t \in Threads, RevokeFromCommonVault(t) PROVE TypeInv'
    <2>1. "purge" \in Places /\ call[t].pc # "idle"
      BY <1>20 DEF Places, RevokeFromCommonVault
    <2>2. Goto(t, "purge") \/ Return(t)
      BY <1>20 DEF RevokeFromCommonVault
    <2>3. call' \in [Threads -> Call] /\ Busy'
      BY <2>1, <2>2, GotoType, ReturnType
    <2>4. QED
      BY <1>20, <2>1, <2>3, RevokeType DEF RevokeFromCommonVault, TypeInv, TypeOK
  <1>21. ASSUME NEW t \in Threads, DeletePurge(t) PROVE TypeInv'
    <2>1. call[t].pc # "idle"
      BY <1>21 DEF DeletePurge
    <2>2. purge(mem[Host[t]], call[t].id) \in Memory
      BY <2>1, CallType, PurgeFields
    <2>3. \/ UNCHANGED <<mem, repository>>
          \/ persistLocked(t, purge(mem[Host[t]], call[t].id))
      BY <1>21, Zenon DEF DeletePurge
    <2>4. QED
      BY <1>21, <2>2, <2>3, PersistType, ReturnType DEF DeletePurge, TypeInv, TypeOK
  <1>22. ASSUME NEW t \in Threads, UseRead(t) PROVE TypeInv'
    <2> DEFINE c == call[t]
    <2>1. c.pc # "idle"
      BY <1>22 DEF UseRead
    <2>2. c \in Call /\ c.id \in Ids
      BY <2>1, CallType
    <2>3. ASSUME NEW w \in {"native", "common"}, ReadSecret(t, w)
          PROVE  call' \in [Threads -> Call] /\ Busy'
      <3>1. \/ Return(t)
            \/ \E e \in Filed(w, c.id, c.view.key) :
                 Proceed(t, [c EXCEPT !.secret = e.secret, !.pc = "audit"])
        BY <2>3, Zenon DEF ReadSecret
      <3>2. ASSUME NEW e \in Filed(w, c.id, c.view.key),
                   Proceed(t, [c EXCEPT !.secret = e.secret, !.pc = "audit"])
            PROVE  call' \in [Threads -> Call] /\ Busy'
        <4> DEFINE d == [c EXCEPT !.secret = e.secret, !.pc = "audit"]
        <4>1. e.secret \in Nat
          BY <3>2 DEF Filed, TypeInv, TypeOK, Entry
        <4>2. d \in Call /\ d.id = c.id
          BY <2>2, <4>1 DEF Call, Places
        <4> HIDE DEF d
        <4>3. QED
          BY <2>2, <3>2, <4>2, ProceedType DEF d
      <3>3. QED
        BY <3>1, <3>2, ReturnType
    <2>4. ReadSecret(t, "native") \/ ReadSecret(t, "common") \/ Return(t)
      BY <1>22, Zenon DEF UseRead
    <2>5. call' \in [Threads -> Call] /\ Busy'
      BY <2>3, <2>4, ReturnType
    <2>6. QED
      BY <1>22, <2>5 DEF UseRead, TypeInv, TypeOK
  <1>23. ASSUME NEW t \in Threads, UseAudit(t) PROVE TypeInv'
    <2>1. call[t].pc # "idle" /\ "used" \in EventKinds
      BY <1>23 DEF UseAudit, EventKinds
    <2>2. addEvent(mem[Host[t]], call[t].id, "used", "success", 0) \in Memory
      BY <1>0, <2>1, CallType, AddEventFields
    <2>3. QED
      BY <1>23, <2>2, PersistType, ReturnType DEF UseAudit, TypeInv, TypeOK
  <1>24. ASSUME NEW i \in Instances, WatchLoad(i) PROVE TypeInv'
    BY <1>24 DEF WatchLoad, Watch, TypeInv, TypeOK, Busy
  <1>25. ASSUME NEW i \in Instances, WatchRestore(i) PROVE TypeInv'
    <2>1. NoWatch \in Watch /\ watch[i].snap \in Memory /\ mem[i] \in Memory
      BY EmptyMemoryType DEF NoWatch, Watch, TypeInv, TypeOK
    <2>2. restoreLocked(mem[i], watch[i].snap) \in Memory
      BY <2>1, RestoreFields
    <2>3. QED
      BY <1>25, <2>1, <2>2 DEF WatchRestore, TypeInv, TypeOK, Busy
  <1>26. ASSUME NEW i \in Instances, LoseNotice(i) PROVE TypeInv'
    BY <1>26 DEF LoseNotice, TypeInv, TypeOK, Busy
  <1>27. ASSUME NEW i \in Instances, Restart(i) PROVE TypeInv'
    <2>1. /\ NoWatch \in Watch
          /\ restoreLocked(EmptyMemory, snapshot) \in Memory
      BY EmptyMemoryType, RestoreFields DEF NoWatch, Watch, TypeInv, TypeOK
    <2>2. call' \in [Threads -> Call] /\ Busy'
      BY <1>27, NoCallType DEF Restart, TypeInv, TypeOK, Busy
    <2>3. QED
      BY <1>27, <2>1, <2>2 DEF Restart, TypeInv, TypeOK
  <1>28. CASE UNCHANGED vars
    BY <1>28 DEF vars, TypeInv, TypeOK, Busy
  <1>29. QED
    BY <1>1, <1>2, <1>3, <1>4, <1>5, <1>6, <1>7, <1>8, <1>9, <1>10, <1>11, <1>12,
       <1>13, <1>14, <1>15, <1>16, <1>17, <1>18, <1>19, <1>20, <1>21, <1>22, <1>23,
       <1>24, <1>25, <1>26, <1>27, <1>28
    DEF Next, Begin, Continue, Environment

-----------------------------------------------------------------------------
(* What a call in progress knows, and the mutex.  A call that may still    *)
(* write its record back holds an active copy of it; a call inside the     *)
(* provider's Rotate holds the mutex of its instance alone; and a store    *)
(* nobody provisions on never reaches the persist without the mutex.       *)
Writing == {"consume", "adopt", "deliver", "mirror", "record"}

Provisioning == {"adopt", "copyIdentities", "copyEvents", "copyRuns", "save"}

Sound(c) ==
    /\ c.pc \in Writing => c.view.state = "active"
    /\ c.pc \in Writing \cup {"rotating"} => c.op \in {"rotate", "provision"}
    /\ "provision" \notin Ops => c.op # "provision" /\ c.pc \notin Provisioning

CallInv ==
    \A t \in Threads : /\ Sound(call[t])
                       /\ call[t].pc = "rotating" => lock[Host[t]] = {t}

(* A step of one call that leaves the mutex alone.                         *)
LEMMA CallKeeps ==
    ASSUME CallInv, NEW t \in Threads, UNCHANGED lock,
           \A u \in Threads \ {t} : call'[u] = call[u],
           Sound(call[t])', call'[t].pc # "rotating"
    PROVE  CallInv'
  BY DEF CallInv, Sound

LEMMA NoCallSound == Sound(NoCall)
  BY DEF Sound, NoCall, Writing, Provisioning

LEMMA ReturnSound ==
    ASSUME TypeInv, CallInv, NEW t \in Threads, UNCHANGED lock, Return(t)
    PROVE  CallInv'
  <1>1. call'[t] = NoCall /\ \A u \in Threads \ {t} : call'[u] = call[u]
    BY ReturnType
  <1>2. Sound(call[t])' /\ call'[t].pc # "rotating"
    BY <1>1, NoCallSound DEF Sound, NoCall
  <1>3. QED
    BY <1>1, <1>2, CallKeeps

(* A call that moves on to a place where it no longer writes its record    *)
(* back, or from such a place to the next.                                 *)
LEMMA GotoSound ==
    ASSUME TypeInv, CallInv, NEW t \in Threads, UNCHANGED lock,
           NEW place \in Places \ {"rotating"}, Goto(t, place), call[t].pc # "idle",
           place \in Writing => call[t].pc \in Writing,
           place \in Provisioning => "provision" \in Ops
    PROVE  CallInv'
  <1>1. /\ call'[t] = [call[t] EXCEPT !.pc = place]
        /\ \A u \in Threads \ {t} : call'[u] = call[u]
    BY GotoType
  <1>2. call[t] \in Call
    BY CallType
  <1>3. /\ call'[t].pc = place /\ call'[t].op = call[t].op
        /\ call'[t].view = call[t].view
    BY <1>1, <1>2 DEF Call
  <1>4. Sound(call[t])' /\ call'[t].pc # "rotating"
    BY <1>3 DEF Sound, CallInv
  <1>5. QED
    BY <1>1, <1>4, CallKeeps

LEMMA EnterSound ==
    ASSUME TypeInv, CallInv, NEW t \in Threads, UNCHANGED lock,
           NEW op \in Operations, op # "provision", NEW id \in Ids,
           NEW place \in Places, place \notin Writing \cup Provisioning \cup {"rotating"},
           NEW view \in Identity, Enter(t, op, id, place, view)
    PROVE  CallInv'
  <1>1. /\ call'[t].pc = place /\ call'[t].op = op
        /\ \A u \in Threads \ {t} : call'[u] = call[u]
    BY EnterType
  <1>2. Sound(call[t])' /\ call'[t].pc # "rotating"
    BY <1>1 DEF Sound
  <1>3. QED
    BY <1>1, <1>2, CallKeeps

(* Where a delivery goes next: still writing, or on to the persist, which  *)
(* holds the mutex unless the call provisions.                             *)
LEMMA DeliverSound ==
    ASSUME TypeInv, CallInv, NEW t \in Threads, NEW w \in {"native", "common"},
           UNCHANGED lock, call[t].pc \in {"deliver", "mirror"}, Deliver(t, w)
    PROVE  CallInv'
  <1> DEFINE c == call[t]
             place(refs) == afterDelivery(w, c.op, refs)
  <1>1. /\ c \in Call /\ c.id \in Ids /\ c.view \in Identity
        /\ c.view.refs \in SUBSET {"native", "common"}
    BY CallType DEF Identity
  <1>2. /\ c.op \in {"rotate", "provision"} /\ c.view.state = "active"
        /\ c.op = "provision" => "provision" \in Ops
    BY DEF CallInv, Sound, Writing
  <1>3. \A refs : /\ place(refs) \in Places \ {"rotating"}
                  /\ place(refs) \in Provisioning => "provision" \in Ops
    BY <1>2 DEF afterDelivery, persistPlace, Places, Provisioning
  <1>4. \/ Goto(t, place(c.view.refs))
        \/ Proceed(t, [c EXCEPT !.view.refs = @ \cup {w},
                                !.pc = place(c.view.refs \cup {w})])
    BY Zenon DEF Deliver
  <1> HIDE DEF place
  <1>5. CASE Goto(t, place(c.view.refs))
    BY <1>3, <1>5, GotoSound DEF Writing
  <1>6. CASE Proceed(t, [c EXCEPT !.view.refs = @ \cup {w},
                                  !.pc = place(c.view.refs \cup {w})])
    <2> DEFINE d == [c EXCEPT !.view.refs = @ \cup {w},
                              !.pc = place(c.view.refs \cup {w})]
    <2>1. /\ d \in Call /\ d.id = c.id /\ d.op = c.op
          /\ d.pc = place(c.view.refs \cup {w}) /\ d.view.state = c.view.state
      BY <1>1, <1>3 DEF Call, Identity
    <2> HIDE DEF d
    <2>2. call'[t] = d /\ \A u \in Threads \ {t} : call'[u] = call[u]
      BY <1>1, <1>6, <2>1, ProceedType DEF d
    <2>3. Sound(call[t])' /\ call'[t].pc # "rotating"
      BY <1>2, <1>3, <2>1, <2>2 DEF Sound
    <2>4. QED
      BY <2>2, <2>3, CallKeeps
  <1>7. QED
    BY <1>4, <1>5, <1>6
LEMMA CallStep == TypeInv /\ CallInv /\ [Next]_vars => CallInv'
  <1> SUFFICES ASSUME TypeInv, CallInv, [Next]_vars PROVE CallInv'
    OBVIOUS
  <1> USE DEF provider, repository
  <1>1. ASSUME NEW t \in Threads, NEW id \in Ids, Register(t, id) \/ RetireFail(t, id)
        PROVE  CallInv'
    BY <1>1 DEF Register, RetireFail, CallInv, Sound
  <1>2. ASSUME NEW t \in Threads, NEW id \in Ids, RotateBegin(t, id) PROVE CallInv'
    <2> DEFINE m == mem[Host[t]]
               c == [NoCall EXCEPT !.pc = "rotating", !.op = "rotate", !.id = id,
                       !.view = [m.identities[id] EXCEPT !.state = "renewing"],
                       !.run = m.nextRun + 1]
    <2>1. /\ call' = [call EXCEPT ![t] = c] /\ lock[Host[t]] = {}
          /\ lock' = [lock EXCEPT ![Host[t]] = {t}]
      BY <1>2, Zenon DEF RotateBegin, Proceed, Unlocked
    <2>2. c.pc = "rotating" /\ c.op = "rotate"
      BY DEF NoCall
    <2> HIDE DEF c
    <2>3. Sound(c)
      BY <2>2 DEF Sound, Writing, Provisioning
    <2>4. call'[t] = c /\ \A u \in Threads \ {t} : call'[u] = call[u]
      BY <2>1 DEF TypeInv, TypeOK
    <2>5. ASSUME NEW u \in Threads \ {t}, call[u].pc = "rotating"
          PROVE  lock'[Host[u]] = {u}
      BY <2>1, <2>5, StoreAssumption DEF CallInv, TypeInv, TypeOK
    <2>6. lock'[Host[t]] = {t}
      BY <2>1, StoreAssumption DEF TypeInv, TypeOK
    <2>7. QED
      BY <2>3, <2>4, <2>5, <2>6 DEF CallInv, Sound
  <1>3. ASSUME NEW t \in Threads, NEW id \in Ids, ProvisionCreate(t, id) PROVE CallInv'
    <2> DEFINE identity == [NoIdentity EXCEPT !.state = "active", !.key = nextKey + 1]
               c == [NoCall EXCEPT !.pc = "adopt", !.op = "provision", !.id = id,
                                   !.view = identity, !.secret = nextKey + 1]
    <2>1. /\ call' = [call EXCEPT ![t] = c] /\ UNCHANGED lock /\ "provision" \in Ops
      BY <1>3, Zenon DEF ProvisionCreate, Proceed, Start
    <2>2. c.pc = "adopt" /\ c.op = "provision" /\ c.view.state = "active"
      BY DEF NoCall, NoIdentity
    <2> HIDE DEF c
    <2>3. call'[t] = c /\ \A u \in Threads \ {t} : call'[u] = call[u]
      BY <2>1 DEF TypeInv, TypeOK
    <2>4. Sound(call[t])' /\ call'[t].pc # "rotating"
      BY <2>1, <2>2, <2>3 DEF Sound
    <2>5. QED
      BY <2>1, <2>3, <2>4, CallKeeps
  <1>4. ASSUME NEW t \in Threads, NEW id \in Ids, NEW view \in Identity,
               UNCHANGED lock,
               \/ Enter(t, "retire", id, "revoke", view)
               \/ Enter(t, "delete", id, "revoke", view)
               \/ Enter(t, "use", id, "read", view)
        PROVE  CallInv'
    <2>1. /\ "revoke" \in Places /\ "read" \in Places
          /\ "revoke" \notin Writing \cup Provisioning \cup {"rotating"}
          /\ "read" \notin Writing \cup Provisioning \cup {"rotating"}
      BY DEF Places, Writing, Provisioning
    <2>2. {"retire", "delete", "use"} \subseteq Operations
      BY DEF Operations
    <2>3. QED
      BY <1>4, <2>1, <2>2, EnterSound
  <1>5. ASSUME NEW t \in Threads, NEW id \in Ids, Retire(t, id) PROVE CallInv'
    <2> DEFINE identity == [mem[Host[t]].identities[id] EXCEPT !.state = "retired",
                              !.key = 0, !.health = "attention"]
    <2>1. mem[Host[t]].identities[id] \in Identity
      BY CallType DEF Memory
    <2>2. identity \in Identity
      BY <2>1 DEF Identity, States
    <2>3. /\ Enter(t, "retire", id, "revoke", identity) \/ UNCHANGED call
          /\ UNCHANGED lock
      BY <1>5, Zenon DEF Retire
    <2> HIDE DEF identity
    <2>4. CASE UNCHANGED call
      BY <2>3, <2>4 DEF CallInv, Sound
    <2>5. CASE Enter(t, "retire", id, "revoke", identity)
      BY <1>4, <2>2, <2>3, <2>5
    <2>6. QED
      BY <2>3, <2>4, <2>5
  <1>6. ASSUME NEW t \in Threads, NEW id \in Ids, DeleteBegin(t, id) \/ UseBegin(t, id)
        PROVE  CallInv'
    <2>1. mem[Host[t]].identities[id] \in Identity
      BY CallType DEF Memory
    <2>2. QED
      BY <1>4, <1>6, <2>1 DEF DeleteBegin, UseBegin
  <1>7. ASSUME NEW t \in Threads, Release(t), call[t].pc = "rotating", NEW c \in Call,
               Proceed(t, c), c.pc # "rotating", c.id \in Ids \/ c.pc = "idle", Sound(c)
        PROVE  CallInv'
    <2>1. call'[t] = c /\ \A u \in Threads \ {t} : call'[u] = call[u]
      BY <1>7, ProceedType
    <2>2. ASSUME NEW u \in Threads \ {t}, call[u].pc = "rotating"
          PROVE  lock'[Host[u]] = {u}
      BY <1>7, <2>2, StoreAssumption DEF CallInv, Release, TypeInv, TypeOK
    <2>3. QED
      BY <1>7, <2>1, <2>2 DEF CallInv, Sound
  <1>8. ASSUME NEW t \in Threads, RotateFail(t) PROVE CallInv'
    BY <1>7, <1>8, NoCallType, NoCallSound DEF RotateFail, Return
  <1>9. ASSUME NEW t \in Threads, RotateSucceed(t) PROVE CallInv'
    <2> DEFINE identity == [NoIdentity EXCEPT !.state = "active", !.key = nextKey + 1]
               c == [call[t] EXCEPT !.pc = "consume", !.view = identity]
    <2>1. /\ Proceed(t, c) /\ Release(t) /\ call[t].pc = "rotating"
      BY <1>9, Zenon DEF RotateSucceed
    <2>0. nextKey + 1 \in Nat
      BY DEF TypeInv, TypeOK
    <2>2. identity \in Identity /\ identity.state = "active"
      BY <2>0 DEF NoIdentity, Identity, States
    <2>3. call[t] \in Call /\ call[t].id \in Ids
      BY <2>1, CallType
    <2> HIDE DEF identity
    <2>4. /\ c \in Call /\ c.id = call[t].id /\ c.op = call[t].op
          /\ c.view.state = "active" /\ c.pc = "consume"
      BY <2>2, <2>3 DEF Call, Places
    <2> HIDE DEF c
    <2>5. Sound(c)
      BY <2>1, <2>4 DEF Sound, CallInv, Writing, Provisioning
    <2>6. QED
      BY <1>7, <2>1, <2>3, <2>4, <2>5
  <1>10. ASSUME NEW t \in Threads, RotateConsume(t) PROVE CallInv'
    <2> DEFINE secret == slot[Host[t]][ProviderOf[call[t].id]]
               place == IF secret = 0 THEN "persist" ELSE "deliver"
               c == [call[t] EXCEPT !.secret = secret, !.pc = place]
    <2>1. Proceed(t, c) /\ UNCHANGED lock /\ call[t].pc = "consume"
      BY <1>10, Zenon DEF RotateConsume
    <2>2. call[t] \in Call /\ call[t].id \in Ids /\ secret \in Nat
      BY <2>1, CallType, StoreAssumption DEF TypeInv, TypeOK
    <2>3. place \in {"persist", "deliver"}
      OBVIOUS
    <2> HIDE DEF secret, place
    <2>4. /\ c \in Call /\ c.id = call[t].id /\ c.op = call[t].op
          /\ c.view = call[t].view /\ c.pc = place
      BY <2>2, <2>3 DEF Call, Places
    <2> HIDE DEF c
    <2>5. call'[t] = c /\ \A u \in Threads \ {t} : call'[u] = call[u]
      BY <2>1, <2>2, <2>4, ProceedType
    <2>6. Sound(call[t])' /\ call'[t].pc # "rotating"
      BY <2>1, <2>3, <2>4, <2>5 DEF Sound, CallInv, Writing, Provisioning
    <2>7. QED
      BY <2>1, <2>5, <2>6, CallKeeps
  <1>11. ASSUME NEW t \in Threads,
                RotatePersist(t) \/ ProvisionReject(t) \/ ProvisionSave(t)
                \/ DeletePurge(t) \/ UseAudit(t)
         PROVE  CallInv'
    BY <1>11, ReturnSound
    DEF RotatePersist, ProvisionReject, ProvisionSave, DeletePurge, UseAudit
  <1>12. ASSUME NEW t \in Threads, DeliverToVault(t) \/ MirrorToCommonVault(t)
         PROVE  CallInv'
    BY <1>12, DeliverSound DEF DeliverToVault, MirrorToCommonVault
  <1>13. ASSUME NEW t \in Threads, RecordReferences(t) PROVE CallInv'
    <2>1. /\ Goto(t, persistPlace(call[t].op)) /\ UNCHANGED lock
          /\ call[t].pc = "record"
      BY <1>13 DEF RecordReferences
    <2>2. /\ persistPlace(call[t].op) \in Places \ {"rotating"}
          /\ persistPlace(call[t].op) \notin Writing
          /\ persistPlace(call[t].op) \in Provisioning => "provision" \in Ops
      BY <2>1 DEF persistPlace, Places, Writing, Provisioning, CallInv, Sound
    <2>3. QED
      BY <2>1, <2>2, GotoSound
  <1>14. ASSUME NEW t \in Threads, ProvisionAdopt(t) PROVE CallInv'
    <2>1. "deliver" \in Places \ {"rotating"} /\ "deliver" \notin Provisioning
      BY DEF Places, Provisioning
    <2>2. QED
      BY <1>14, <2>1, GotoSound DEF ProvisionAdopt, Writing
  <1>15. ASSUME NEW t \in Threads, ProvisionSnapshot(t) PROVE CallInv'
    <2> DEFINE c == call[t]
               m == mem[Host[t]]
               c1 == [c EXCEPT !.snap.identities = m.identities, !.pc = "copyEvents"]
               c2 == [c EXCEPT !.snap.events = m.events, !.pc = "copyRuns"]
               c3 == [c EXCEPT !.snap.runs = m.runs, !.snap.nextEvent = m.nextEvent,
                               !.snap.nextRun = m.nextRun, !.pc = "save"]
    <2>1. /\ UNCHANGED lock
          /\ c.pc \in {"copyIdentities", "copyEvents", "copyRuns"}
          /\ \/ call' = [call EXCEPT ![t] = c1] \/ call' = [call EXCEPT ![t] = c2]
             \/ call' = [call EXCEPT ![t] = c3]
      BY <1>15, Zenon DEF ProvisionSnapshot, CopyPart, Proceed
    <2>2. c \in Call /\ "provision" \in Ops
      BY <2>1, CallType DEF CallInv, Sound, Provisioning
    <2>3. /\ c1.pc = "copyEvents" /\ c2.pc = "copyRuns" /\ c3.pc = "save"
      BY <2>2 DEF Call
    <2> HIDE DEF c1, c2, c3
    <2>4. call'[t] \in {c1, c2, c3} /\ \A u \in Threads \ {t} : call'[u] = call[u]
      BY <2>1 DEF TypeInv, TypeOK
    <2>5. Sound(call[t])' /\ call'[t].pc # "rotating"
      BY <2>2, <2>3, <2>4 DEF Sound, Writing
    <2>6. QED
      BY <2>1, <2>4, <2>5, CallKeeps
  <1>16. ASSUME NEW t \in Threads, RevokeFromVault(t) \/ RevokeFromCommonVault(t)
         PROVE  CallInv'
    <2>1. /\ "revokeCommon" \in Places \ {"rotating"} /\ "purge" \in Places \ {"rotating"}
          /\ {"revokeCommon", "purge"} \cap (Writing \cup Provisioning) = {}
      BY DEF Places, Writing, Provisioning
    <2>2. /\ Goto(t, "revokeCommon") \/ Goto(t, "purge") \/ Return(t)
          /\ UNCHANGED lock /\ call[t].pc # "idle"
      BY <1>16 DEF RevokeFromVault, RevokeFromCommonVault
    <2>3. QED
      BY <2>1, <2>2, GotoSound, ReturnSound
  <1>17. ASSUME NEW t \in Threads, UseRead(t) PROVE CallInv'
    <2> DEFINE c == call[t]
    <2>1. UNCHANGED lock /\ c \in Call /\ c.pc = "read"
      BY <1>17, CallType DEF UseRead
    <2>2. Return(t) \/ \E s : Proceed(t, [c EXCEPT !.secret = s, !.pc = "audit"])
      BY <1>17, Zenon DEF UseRead, ReadSecret
    <2>3. ASSUME NEW s, Proceed(t, [c EXCEPT !.secret = s, !.pc = "audit"])
          PROVE  CallInv'
      <3> DEFINE d == [c EXCEPT !.secret = s, !.pc = "audit"]
      <3>1. d.pc = "audit" /\ d.op = c.op
        BY <2>1 DEF Call
      <3> HIDE DEF d
      <3>2. call'[t] = d /\ \A u \in Threads \ {t} : call'[u] = call[u]
        BY <2>3 DEF Proceed, TypeInv, TypeOK, d
      <3>3. Sound(call[t])' /\ call'[t].pc # "rotating"
        BY <3>1, <3>2 DEF Sound, CallInv, Writing, Provisioning
      <3>4. QED
        BY <2>1, <3>2, <3>3, CallKeeps
    <2>4. QED
      BY <2>1, <2>2, <2>3, ReturnSound
  <1>18. ASSUME NEW i \in Instances, WatchLoad(i) \/ WatchRestore(i) \/ LoseNotice(i)
         PROVE  CallInv'
    BY <1>18 DEF WatchLoad, WatchRestore, LoseNotice, CallInv, Sound
  <1>19. ASSUME NEW i \in Instances, Restart(i) PROVE CallInv'
    <2>1. /\ call' = [t \in Threads |-> IF Host[t] = i THEN NoCall ELSE call[t]]
          /\ lock' = [lock EXCEPT ![i] = {}]
      BY <1>19 DEF Restart
    <2>2. ASSUME NEW t \in Threads
          PROVE  Sound(call[t])' /\ (call'[t].pc = "rotating" => lock'[Host[t]] = {t})
      <3>1. CASE Host[t] = i
        BY <2>1, <3>1, NoCallSound, NoCallType DEF Sound
      <3>2. CASE Host[t] # i
        BY <2>1, <3>2, StoreAssumption DEF CallInv, Sound, TypeInv, TypeOK
      <3>3. QED
        BY <3>1, <3>2
    <2>3. QED
      BY <2>2 DEF CallInv
  <1>20. CASE UNCHANGED vars
    BY <1>20 DEF vars, CallInv, Sound
  <1>21. QED
    BY <1>1, <1>2, <1>3, <1>5, <1>6, <1>8, <1>9, <1>10, <1>11, <1>12, <1>13, <1>14,
       <1>15, <1>16, <1>17, <1>18, <1>19, <1>20
    DEF Next, Begin, Continue, Environment
-----------------------------------------------------------------------------
(* What a critical section may do to a memory.  Safe(m, s): numbering, the *)
(* absence of a rotation in progress and the audit of the runs survive the *)
(* change from m to s.                                                     *)
AllSettled(m) == \A id \in Ids : Settled(m, id)

Safe(m, s) == /\ Numbered(m) => Numbered(s)
              /\ AllSettled(m) => AllSettled(s)
              /\ Numbered(m) /\ Explained(m) => Explained(s)

(* A memory explains its runs when it takes them from one that does,       *)
(* together with their events, and adds no event of another run.           *)
LEMMA SameExplained ==
    ASSUME NEW m, NEW s, Explained(m),
           \A r \in s.runs :
             /\ r \in m.runs
             /\ \A k \in EventKinds : EventsOf(s, r.n, k) = EventsOf(m, r.n, k),
           \A e \in s.events : e.run # 0 =>
             \E r \in s.runs : r.n = e.run /\ r.id = e.id
    PROVE  Explained(s)
  <1>1. {"started", "completed", "failed"} \subseteq EventKinds
    BY DEF EventKinds
  <1>2. \A status : Terminal(status) \in EventKinds
    BY DEF Terminal, EventKinds
  <1> DEFINE Told(x, r) ==
               /\ \E e \in EventsOf(x, r.n, "started") :
                    EventsOf(x, r.n, "started") = {e}
               /\ IF r.status = "running"
                  THEN EventsOf(x, r.n, "completed") \cup EventsOf(x, r.n, "failed") = {}
                  ELSE \E e \in EventsOf(x, r.n, Terminal(r.status)) :
                         EventsOf(x, r.n, "completed") \cup EventsOf(x, r.n, "failed") = {e}
  <1>3. ASSUME NEW r \in s.runs PROVE Told(s, r)
    <2>1. Told(m, r)
      BY DEF Explained
    <2>2. /\ EventsOf(s, r.n, "started") = EventsOf(m, r.n, "started")
          /\ EventsOf(s, r.n, "completed") = EventsOf(m, r.n, "completed")
          /\ EventsOf(s, r.n, "failed") = EventsOf(m, r.n, "failed")
          /\ EventsOf(s, r.n, Terminal(r.status)) = EventsOf(m, r.n, Terminal(r.status))
      BY <1>1, <1>2
    <2>3. QED
      BY <2>1, <2>2
  <1>4. QED
    BY <1>3 DEF Explained

(* The next event number is fresh, and an event outside every run explains *)
(* as much as before.                                                      *)
LEMMA SafeAddEvent ==
    ASSUME NEW m \in Memory, NEW id \in Ids, NEW kind \in EventKinds,
           NEW outcome \in Outcomes
    PROVE  Safe(m, addEvent(m, id, kind, outcome, 0))
  <1> DEFINE a == addEvent(m, id, kind, outcome, 0)
             e == [n |-> m.nextEvent + 1, id |-> id, kind |-> kind,
                   outcome |-> outcome, run |-> 0]
  <1>1. /\ a.identities = m.identities /\ a.runs = m.runs /\ a.nextRun = m.nextRun
        /\ a.nextEvent = m.nextEvent + 1 /\ a.events = m.events \cup {e}
    BY AddEventFields
  <1>2. m.nextEvent \in Nat /\ e.n = m.nextEvent + 1 /\ e.run = 0
    BY DEF Memory
  <1> HIDE DEF a, e
  <1>3. ASSUME Numbered(m) PROVE Numbered(a)
    BY <1>1, <1>2, <1>3 DEF Numbered
  <1>4. AllSettled(m) => AllSettled(a)
    BY <1>1 DEF AllSettled, Settled
  <1>5. ASSUME Numbered(m), Explained(m) PROVE Explained(a)
    <2>1. \A r \in m.runs : r.n # 0
      BY <1>5 DEF Numbered, Memory
    <2>2. \A r \in m.runs, k \in EventKinds : EventsOf(a, r.n, k) = EventsOf(m, r.n, k)
      BY <1>1, <1>2, <2>1 DEF EventsOf
    <2>3. \A x \in a.events : x.run # 0 => \E r \in a.runs : r.n = x.run /\ r.id = x.id
      BY <1>1, <1>2, <1>5 DEF Explained
    <2>4. \A r \in a.runs :
            /\ r \in m.runs
            /\ \A k \in EventKinds : EventsOf(a, r.n, k) = EventsOf(m, r.n, k)
      BY <1>1, <2>2
    <2>5. QED
      BY <1>5, <2>3, <2>4, SameExplained
  <1>6. QED
    BY <1>3, <1>4, <1>5 DEF Safe, a

(* A record written back does not open a rotation.                         *)
LEMMA SafeSetIdentity ==
    ASSUME NEW m \in Memory, NEW id \in Ids, NEW identity \in Identity,
           identity.state # "renewing"
    PROVE  Safe(m, setIdentity(m, id, identity))
  <1> DEFINE a == setIdentity(m, id, identity)
  <1>1. /\ a.identities = [m.identities EXCEPT ![id] = identity]
        /\ a.runs = m.runs /\ a.nextRun = m.nextRun
        /\ a.nextEvent = m.nextEvent /\ a.events = m.events
        /\ m.identities \in [Ids -> Identity]
    BY SetIdentityFields DEF Memory
  <1> HIDE DEF a
  <1>2. Numbered(m) => Numbered(a)
    BY <1>1 DEF Numbered
  <1>3. AllSettled(m) => AllSettled(a)
    BY <1>1 DEF AllSettled, Settled
  <1>4. Explained(m) => Explained(a)
    BY <1>1 DEF Explained, EventsOf
  <1>5. QED
    BY <1>2, <1>3, <1>4 DEF Safe, a

LEMMA SafePurge ==
    ASSUME NEW m \in Memory, NEW id \in Ids
    PROVE  Safe(m, purge(m, id))
  <1> DEFINE a == purge(m, id)
  <1>1. /\ a.identities = [m.identities EXCEPT ![id] = NoIdentity]
        /\ a.runs = {r \in m.runs : r.id # id} /\ a.nextRun = m.nextRun
        /\ a.nextEvent = m.nextEvent + 1 /\ a.events = {e \in m.events : e.id # id}
        /\ m.identities \in [Ids -> Identity] /\ m.nextEvent \in Nat
        /\ NoIdentity.state = "absent"
    BY PurgeFields DEF Memory, NoIdentity
  <1> HIDE DEF a
  <1>2. Numbered(m) => Numbered(a)
    BY <1>1 DEF Numbered
  <1>3. AllSettled(m) => AllSettled(a)
    BY <1>1 DEF AllSettled, Settled
  <1>4. ASSUME Numbered(m), Explained(m) PROVE Explained(a)
    <2>1. ASSUME NEW r \in a.runs
          PROVE  r \in m.runs /\ \A k : EventsOf(a, r.n, k) = EventsOf(m, r.n, k)
      <3>1. r \in m.runs /\ r.id # id /\ r.n # 0
        BY <1>1, <1>4 DEF Numbered, Memory
      <3>2. \A e \in m.events : e.run = r.n => e.id = r.id
        BY <1>4, <3>1 DEF Explained, Numbered
      <3>3. QED
        BY <1>1, <3>1, <3>2 DEF EventsOf
    <2>2. ASSUME NEW e \in a.events, e.run # 0
          PROVE  \E r \in a.runs : r.n = e.run /\ r.id = e.id
      BY <1>1, <1>4, <2>2 DEF Explained
    <2>3. QED
      BY <1>4, <2>1, <2>2, SameExplained
  <1>5. QED
    BY <1>2, <1>3, <1>4 DEF Safe, a

LEMMA SafeRestore ==
    ASSUME NEW m \in Memory, NEW snap \in Memory
    PROVE  Safe(snap, restoreLocked(m, snap))
  <1> DEFINE a == restoreLocked(m, snap)
  <1>1. /\ a.identities = snap.identities /\ a.runs = snap.runs
        /\ a.nextRun = snap.nextRun /\ a.nextEvent = snap.nextEvent
        /\ a.events = snap.events
    BY RestoreFields
  <1> HIDE DEF a
  <1>2. Numbered(snap) => Numbered(a)
    BY <1>1 DEF Numbered
  <1>3. AllSettled(snap) => AllSettled(a)
    BY <1>1 DEF AllSettled, Settled
  <1>4. Explained(snap) => Explained(a)
    BY <1>1 DEF Explained, EventsOf
  <1>5. QED
    BY <1>2, <1>3, <1>4 DEF Safe, a

(* The run Rotate opens has a fresh number and is the only one running.    *)
OnlyRun(m, id, n) ==
    /\ \A x \in Ids \ {id} : Settled(m, x)
    /\ \A r \in m.runs : r.status = "running" => r.n = n

LEMMA StartRunNumbered ==
    ASSUME NEW m \in Memory, NEW id \in Ids, Numbered(m)
    PROVE  /\ Numbered(startRun(m, id))
           /\ m.nextRun + 1 \in 1..startRun(m, id).nextRun
           /\ AllSettled(m) => OnlyRun(startRun(m, id), id, m.nextRun + 1)
  <1> DEFINE s == startRun(m, id)
             n == m.nextRun + 1
             r == [n |-> n, id |-> id, status |-> "running", key |-> 0]
             e == [n |-> m.nextEvent + 1, id |-> id, kind |-> "requested",
                   outcome |-> "in_progress", run |-> n]
             f == [n |-> m.nextEvent + 2, id |-> id, kind |-> "started",
                   outcome |-> "in_progress", run |-> n]
  <1>1. /\ s.identities = [m.identities EXCEPT ![id] = [@ EXCEPT !.state = "renewing"]]
        /\ s.runs = m.runs \cup {r} /\ s.nextRun = n
        /\ s.nextEvent = m.nextEvent + 2 /\ s.events = m.events \cup {e, f}
    BY StartRunFields
  <1>2. /\ m.nextEvent \in Nat /\ m.nextRun \in Nat
        /\ m.identities \in [Ids -> Identity] /\ m.runs \in SUBSET Run
    BY DEF Memory
  <1>3. /\ e.n = m.nextEvent + 1 /\ f.n = m.nextEvent + 2
        /\ r.n = m.nextRun + 1 /\ r.id = id /\ n = m.nextRun + 1
    OBVIOUS
  <1> HIDE DEF s, n, r, e, f
  <1>4. n \in 1..s.nextRun
    BY <1>1, <1>2, <1>3
  <1>5. /\ \A x \in s.events : x.n \in 1..s.nextEvent
        /\ \A x, y \in s.events : x.n = y.n => x = y
    BY <1>1, <1>2, <1>3 DEF Numbered
  <1>6. /\ \A x \in s.runs : x.n \in 1..s.nextRun
        /\ \A x, y \in s.runs : x.n = y.n => x = y
    BY <1>1, <1>2, <1>3 DEF Numbered
  <1>7. ASSUME AllSettled(m) PROVE OnlyRun(s, id, n)
    <2>1. \A x \in m.runs : x.status # "running"
      BY <1>2, <1>7 DEF AllSettled, Settled, Run
    <2>2. \A x \in Ids \ {id} : Settled(s, x)
      BY <1>1, <1>2, <1>3, <1>7 DEF AllSettled, Settled
    <2>3. QED
      BY <1>1, <1>3, <2>1, <2>2 DEF OnlyRun
  <1>8. QED
    BY <1>4, <1>5, <1>6, <1>7 DEF Numbered, s, n

LEMMA FinishRunNumbered ==
    ASSUME NEW m \in Memory, NEW id \in Ids, NEW n \in Nat, NEW key \in Nat,
           NEW status \in {"succeeded", "failed"}, Numbered(m), n \in 1..m.nextRun
    PROVE  /\ Numbered(finishRun(m, id, n, status, key))
           /\ OnlyRun(m, id, n) /\ m.identities[id].state # "renewing"
                => AllSettled(finishRun(m, id, n, status, key))
  <1> DEFINE s == finishRun(m, id, n, status, key)
             r == [n |-> n, id |-> id, status |-> status, key |-> key]
             kind == Terminal(status)
             outcome == IF status = "succeeded" THEN "success" ELSE "failure"
             e == [n |-> m.nextEvent + 1, id |-> id, kind |-> kind,
                   outcome |-> outcome, run |-> n]
  <1>1. /\ s.identities = m.identities
        /\ s.runs = {x \in m.runs : x.n # n} \cup {r} /\ s.nextRun = m.nextRun
        /\ s.nextEvent = m.nextEvent + 1 /\ s.events = m.events \cup {e}
    BY FinishRunFields
  <1>2. m.nextEvent \in Nat /\ m.nextRun \in Nat
    BY DEF Memory
  <1>3. e.n = m.nextEvent + 1 /\ r.n = n /\ r.id = id /\ r.status # "running"
    OBVIOUS
  <1> HIDE DEF s, r, e
  <1>4. /\ \A x \in s.events : x.n \in 1..s.nextEvent
        /\ \A x, y \in s.events : x.n = y.n => x = y
    BY <1>1, <1>2, <1>3 DEF Numbered
  <1>5. /\ \A x \in s.runs : x.n \in 1..s.nextRun
        /\ \A x, y \in s.runs : x.n = y.n => x = y
    BY <1>1, <1>2, <1>3 DEF Numbered
  <1>6. ASSUME OnlyRun(m, id, n), m.identities[id].state # "renewing"
        PROVE  AllSettled(s)
    <2>1. \A x \in s.runs : x.status # "running"
      BY <1>1, <1>3, <1>6 DEF OnlyRun
    <2>2. QED
      BY <1>1, <1>6, <2>1 DEF OnlyRun, AllSettled, Settled
  <1>7. QED
    BY <1>4, <1>5, <1>6 DEF Numbered, s

(* The run a rotation has open in memory m.                                *)
Open(m, id, n) == \E r \in m.runs : r.n = n /\ r.id = id /\ r.status = "running"

(* The opened run is explained by its rotation.started.                    *)
LEMMA StartRunExplained ==
    ASSUME NEW m \in Memory, NEW id \in Ids, Numbered(m), Explained(m)
    PROVE  /\ Explained(startRun(m, id))
           /\ Open(startRun(m, id), id, m.nextRun + 1)
  <1> DEFINE s == startRun(m, id)
             n == m.nextRun + 1
             r == [n |-> n, id |-> id, status |-> "running", key |-> 0]
             e == [n |-> m.nextEvent + 1, id |-> id, kind |-> "requested",
                   outcome |-> "in_progress", run |-> n]
             f == [n |-> m.nextEvent + 2, id |-> id, kind |-> "started",
                   outcome |-> "in_progress", run |-> n]
  <1>1. s.runs = m.runs \cup {r} /\ s.events = m.events \cup {e, f}
    BY StartRunFields
  <1>2. /\ e.kind = "requested" /\ e.run = n /\ e.id = id
        /\ f.kind = "started" /\ f.run = n /\ f.id = id
        /\ r.n = n /\ r.id = id /\ r.status = "running"
    OBVIOUS
  <1>3. n \in Nat /\ n # 0 /\ \A q \in m.runs : q.n # n
    BY DEF Numbered, Memory
  <1> HIDE DEF s, n, r, e, f
  <1>4. \A x \in m.events : x.run # n
    BY <1>3 DEF Explained
  <1>5. ASSUME NEW q \in m.runs, NEW k PROVE EventsOf(s, q.n, k) = EventsOf(m, q.n, k)
    BY <1>1, <1>2, <1>3 DEF EventsOf
  <1>6. /\ EventsOf(s, n, "started") = {f}
        /\ EventsOf(s, n, "completed") = {} /\ EventsOf(s, n, "failed") = {}
    BY <1>1, <1>2, <1>4 DEF EventsOf
  <1>7. ASSUME NEW q \in s.runs
        PROVE  /\ \E x \in EventsOf(s, q.n, "started") :
                    EventsOf(s, q.n, "started") = {x}
               /\ IF q.status = "running"
                  THEN EventsOf(s, q.n, "completed") \cup EventsOf(s, q.n, "failed") = {}
                  ELSE \E x \in EventsOf(s, q.n, Terminal(q.status)) :
                         EventsOf(s, q.n, "completed") \cup EventsOf(s, q.n, "failed") = {x}
    <2>1. CASE q = r
      BY <1>2, <1>6, <2>1
    <2>2. CASE q \in m.runs
      BY <1>5, <2>2 DEF Explained
    <2>3. QED
      BY <1>1, <2>1, <2>2
  <1>8. ASSUME NEW x \in s.events, x.run # 0
        PROVE  \E q \in s.runs : q.n = x.run /\ q.id = x.id
    BY <1>1, <1>2, <1>8 DEF Explained
  <1>9. Explained(s)
    BY <1>7, <1>8 DEF Explained
  <1>10. Open(s, id, n)
    BY <1>1, <1>2 DEF Open
  <1>11. QED
    BY <1>9, <1>10 DEF s, n

(* The run that was open gets the terminal event of its own outcome.       *)
LEMMA FinishRunExplained ==
    ASSUME NEW m \in Memory, NEW id \in Ids, NEW n \in Nat, NEW key \in Nat,
           NEW status \in {"succeeded", "failed"}, Numbered(m), Explained(m),
           Open(m, id, n)
    PROVE  Explained(finishRun(m, id, n, status, key))
  <1> DEFINE s == finishRun(m, id, n, status, key)
             r == [n |-> n, id |-> id, status |-> status, key |-> key]
             kind == Terminal(status)
             outcome == IF status = "succeeded" THEN "success" ELSE "failure"
             e == [n |-> m.nextEvent + 1, id |-> id, kind |-> kind,
                   outcome |-> outcome, run |-> n]
  <1>1. s.runs = {x \in m.runs : x.n # n} \cup {r} /\ s.events = m.events \cup {e}
    BY FinishRunFields
  <1>2. /\ e.kind = kind /\ e.run = n /\ e.id = id
        /\ r.n = n /\ r.id = id /\ r.status = status
        /\ kind \in {"completed", "failed"} /\ status # "running"
    BY DEF Terminal
  <1>3. PICK q \in m.runs : q.n = n /\ q.id = id /\ q.status = "running"
    BY DEF Open
  <1> HIDE DEF s, kind, r, e
  <1>4. ASSUME NEW x \in m.runs, x.n # n, NEW k
        PROVE  EventsOf(s, x.n, k) = EventsOf(m, x.n, k)
    BY <1>1, <1>2, <1>4 DEF EventsOf
  <1>5. /\ EventsOf(s, n, "started") = EventsOf(m, n, "started")
        /\ EventsOf(s, n, kind) = EventsOf(m, n, kind) \cup {e}
        /\ \A k : k # kind => EventsOf(s, n, k) = EventsOf(m, n, k)
    BY <1>1, <1>2 DEF EventsOf
  <1>6. EventsOf(m, n, "completed") = {} /\ EventsOf(m, n, "failed") = {}
    BY <1>3 DEF Explained
  <1>7. EventsOf(s, n, kind) = {e}
        /\ EventsOf(s, n, "completed") \cup EventsOf(s, n, "failed") = {e}
    BY <1>2, <1>5, <1>6
  <1>8. \E x \in EventsOf(s, n, "started") : EventsOf(s, n, "started") = {x}
    BY <1>3, <1>5 DEF Explained
  <1>9. ASSUME NEW q2 \in s.runs
        PROVE  /\ \E x \in EventsOf(s, q2.n, "started") :
                    EventsOf(s, q2.n, "started") = {x}
               /\ IF q2.status = "running"
                  THEN EventsOf(s, q2.n, "completed") \cup EventsOf(s, q2.n, "failed") = {}
                  ELSE \E x \in EventsOf(s, q2.n, Terminal(q2.status)) :
                         EventsOf(s, q2.n, "completed") \cup EventsOf(s, q2.n, "failed") = {x}
    <2>1. CASE q2 = r
      BY <1>2, <1>7, <1>8, <2>1 DEF kind
    <2>2. CASE q2 \in m.runs /\ q2.n # n
      BY <1>4, <2>2 DEF Explained
    <2>3. QED
      BY <1>1, <2>1, <2>2
  <1>10. ASSUME NEW x \in s.events, x.run # 0
         PROVE  \E y \in s.runs : y.n = x.run /\ y.id = x.id
    <2>1. CASE x = e
      BY <1>1, <1>2, <2>1
    <2>2. CASE x \in m.events
      <3>1. PICK y \in m.runs : y.n = x.run /\ y.id = x.id
        BY <1>10, <2>2 DEF Explained
      <3>2. CASE y.n = n
        <4>1. y = q
          BY <1>3, <3>2 DEF Numbered
        <4>2. QED
          BY <1>1, <1>2, <1>3, <3>1, <4>1
      <3>3. CASE y.n # n
        BY <1>1, <3>1, <3>3
      <3>4. QED
        BY <3>2, <3>3
    <2>3. QED
      BY <1>1, <2>1, <2>2
  <1>11. QED
    BY <1>9, <1>10 DEF Explained, s

LEMMA AdoptedNumbered ==
    Numbered(adopted) /\ AllSettled(adopted) /\ Explained(adopted)
  <1> DEFINE found == DOMAIN Discovered
             d(k) == [n |-> 2 * k - 1, id |-> Discovered[k], kind |-> "discovered",
                      outcome |-> "success", run |-> 0]
             r(k) == [n |-> 2 * k, id |-> Discovered[k], kind |-> "registered",
                      outcome |-> "success", run |-> 0]
  <1>1. Len(Discovered) \in Nat /\ found = 1..Len(Discovered)
    BY StoreAssumption
  <1>2. /\ adopted.events = {d(k) : k \in found} \cup {r(k) : k \in found}
        /\ adopted.nextEvent = 2 * Len(Discovered) /\ adopted.runs = {}
        /\ \A id \in Ids : adopted.identities[id].state \in {"absent", "active"}
    BY AdoptedFields
  <1>3. \A k : /\ d(k).n = 2 * k - 1 /\ r(k).n = 2 * k
              /\ d(k).run = 0 /\ r(k).run = 0
    OBVIOUS
  <1> HIDE DEF d, r, found
  <1>4. \A k \in found : d(k).n \in 1..adopted.nextEvent /\ r(k).n \in 1..adopted.nextEvent
    BY <1>1, <1>2, <1>3
  <1>5. \A k, l \in found : /\ d(k).n = d(l).n => k = l
                            /\ r(k).n = r(l).n => k = l
                            /\ d(k).n # r(l).n
    BY <1>1, <1>3
  <1>6. Explained(adopted)
    BY <1>2, <1>3 DEF Explained
  <1>7. QED
    BY <1>2, <1>4, <1>5, <1>6 DEF Numbered, AllSettled, Settled
-----------------------------------------------------------------------------
(* What one step does, for all actions but the three of a rotation and the *)
(* environment's: one call moves, and its memory changes only in a         *)
(* critical section of its own, which is safe.                             *)
Critical(t) ==
    \/ UNCHANGED mem
    \/ /\ Unlocked(t)
       /\ mem'[Host[t]] \in Memory /\ Safe(mem[Host[t]], mem'[Host[t]])
       /\ \A i \in Instances \ {Host[t]} : mem'[i] = mem[i]

Persisted(t) ==
    \/ UNCHANGED snapshot
    \/ Unlocked(t) /\ snapshot' = mem'[Host[t]]
    \/ /\ call[t].pc = "save" /\ ~ (PersistResults \subseteq {"none"})
       /\ snapshot' = call[t].snap

Quiet(t) ==
    /\ UNCHANGED <<lock, watch>>
    /\ call[t].pc # "rotating" /\ call'[t].pc # "rotating"
    /\ \A u \in Threads \ {t} : call'[u] = call[u]
    /\ Critical(t)
    /\ Persisted(t)

Rotating(t) == (\E id \in Ids : RotateBegin(t, id)) \/ RotateFail(t) \/ RotateSucceed(t)

LEMMA CriticalWrite ==
    ASSUME TypeInv, NEW t \in Threads, NEW m \in Memory, SetMem(t, m), Unlocked(t),
           Safe(mem[Host[t]], m)
    PROVE  Critical(t)
  BY SetMemType DEF Critical, TypeInv

LEMMA CriticalPersist ==
    ASSUME TypeInv, NEW t \in Threads, NEW m \in Memory, persistLocked(t, m),
           Unlocked(t), Safe(mem[Host[t]], m)
    PROVE  Critical(t) /\ Persisted(t)
  BY PersistType DEF Critical, Persisted, TypeInv

LEMMA SafeTrans ==
    ASSUME NEW a, NEW b, NEW c, Safe(a, b), Safe(b, c) PROVE Safe(a, c)
  BY DEF Safe

LEMMA CallEffects ==
    ASSUME TypeInv, CallInv
    PROVE  \A t \in Threads : Begin(t) \/ Continue(t) => Quiet(t) \/ Rotating(t)
  <1> USE DEF provider, repository
  <1>0. "success" \in Outcomes /\ "attention" \in Outcomes
    BY DEF Outcomes
  <1>a. ASSUME NEW t \in Threads,
               \/ Return(t)
               \/ \E place \in Places \ {"rotating"} : Goto(t, place) /\ call[t].pc # "idle"
        PROVE  /\ call'[t].pc # "rotating"
               /\ \A u \in Threads \ {t} : call'[u] = call[u]
    <2>1. CASE Return(t)
      BY <2>1, ReturnType DEF NoCall
    <2>2. ASSUME NEW place \in Places \ {"rotating"}, Goto(t, place), call[t].pc # "idle"
          PROVE  /\ call'[t].pc # "rotating"
                 /\ \A u \in Threads \ {t} : call'[u] = call[u]
      BY <2>2, GotoType
    <2>3. QED
      BY <1>a, <2>1, <2>2
  <1>1. ASSUME NEW t \in Threads, NEW id \in Ids, Register(t, id) PROVE Quiet(t)
    <2> DEFINE m == mem[Host[t]]
    <2>0. PICK key \in issued[id] \cup {0} :
            persistLocked(t, addEvent(setIdentity(m, id, [NoIdentity EXCEPT !.state = "active",
                                                                            !.key = key]),
                                      id, "registered", "success", 0))
      BY <1>1, Zenon DEF Register
    <2>a. key \in Nat
      BY DEF TypeInv, TypeOK
    <2> DEFINE identity == [NoIdentity EXCEPT !.state = "active", !.key = key]
               s == setIdentity(m, id, identity)
               a == addEvent(s, id, "registered", "success", 0)
    <2>1. /\ m \in Memory /\ identity \in Identity /\ "registered" \in EventKinds
          /\ identity.state # "renewing"
      BY <2>a, CallType DEF NoIdentity, Identity, States, EventKinds
    <2> HIDE DEF identity
    <2>2. s \in Memory /\ Safe(m, s)
      BY <2>1, SetIdentityFields, SafeSetIdentity
    <2> HIDE DEF s
    <2>3. a \in Memory /\ Safe(s, a)
      BY <1>0, <2>1, <2>2, AddEventFields, SafeAddEvent
    <2> HIDE DEF a
    <2>4. persistLocked(t, a) /\ Unlocked(t)
      BY <1>1, <2>0, Zenon DEF Register, a, s, identity
    <2>5. Critical(t) /\ Persisted(t)
      BY <2>2, <2>3, <2>4, SafeTrans, CriticalPersist
    <2>6. QED
      BY <1>1, <2>5 DEF Quiet, Register, Start
  <1>2. ASSUME NEW t \in Threads, NEW id \in Ids, ProvisionCreate(t, id) PROVE Quiet(t)
    <2> DEFINE identity == [NoIdentity EXCEPT !.state = "active", !.key = nextKey + 1]
               c == [NoCall EXCEPT !.pc = "adopt", !.op = "provision", !.id = id,
                                   !.view = identity, !.secret = nextKey + 1]
    <2>1. call' = [call EXCEPT ![t] = c] /\ UNCHANGED <<mem, lock, watch, snapshot>>
      BY <1>2, Zenon DEF ProvisionCreate, Proceed
    <2>2. c.pc = "adopt" /\ call[t].pc = "idle"
      BY <1>2 DEF NoCall, ProvisionCreate, Start
    <2> HIDE DEF c
    <2>3. QED
      BY <2>1, <2>2 DEF Quiet, Critical, Persisted, TypeInv, TypeOK
  <1>3. ASSUME NEW t \in Threads, NEW id \in Ids, Retire(t, id) PROVE Quiet(t)
    <2> DEFINE m == mem[Host[t]]
               identity == [m.identities[id] EXCEPT !.state = "retired", !.key = 0,
                                                    !.health = "attention"]
               s == setIdentity(m, id, identity)
               a == addEvent(s, id, "retired", "success", 0)
    <2>1. m \in Memory /\ m.identities[id] \in Identity /\ "retired" \in EventKinds
      BY CallType DEF Memory, EventKinds
    <2>2. identity \in Identity /\ identity.state = "retired"
      BY <2>1 DEF Identity, States
    <2> HIDE DEF identity
    <2>3. s \in Memory /\ Safe(m, s)
      BY <2>1, <2>2, SetIdentityFields, SafeSetIdentity
    <2> HIDE DEF s
    <2>4. a \in Memory /\ Safe(s, a)
      BY <1>0, <2>1, <2>3, AddEventFields, SafeAddEvent
    <2> HIDE DEF a
    <2>5. PICK result \in PersistResults :
            /\ Save(a, result)
            /\ IF Saved(result) THEN Enter(t, "retire", id, "revoke", identity)
                                ELSE UNCHANGED call
      BY <1>3, Zenon DEF Retire, a, s, identity
    <2>6. /\ SetMem(t, a) /\ Unlocked(t) /\ call[t].pc = "idle" /\ UNCHANGED <<lock, watch>>
      BY <1>3, Zenon DEF Retire, Start, a, s, identity
    <2>7. Critical(t)
      BY <2>3, <2>4, <2>6, SafeTrans, CriticalWrite
    <2>8. Persisted(t)
      BY <2>4, <2>5, <2>6, SaveType, SetMemType DEF Persisted, TypeInv
    <2>9. /\ call'[t].pc # "rotating"
          /\ \A u \in Threads \ {t} : call'[u] = call[u]
      <3>1. "retire" \in Operations /\ "revoke" \in Places
        BY DEF Operations, Places
      <3>2. CASE Saved(result)
        BY <2>2, <2>5, <3>1, <3>2, EnterType
      <3>3. CASE ~ Saved(result)
        BY <2>5, <2>6, <3>3
      <3>4. QED
        BY <3>2, <3>3
    <2>10. QED
      BY <2>6, <2>7, <2>8, <2>9 DEF Quiet
  <1>4. ASSUME NEW t \in Threads, NEW id \in Ids, RetireFail(t, id) PROVE Quiet(t)
    BY <1>4 DEF RetireFail, Start, Quiet, Critical, Persisted
  <1>5. ASSUME NEW t \in Threads, NEW id \in Ids, DeleteBegin(t, id) \/ UseBegin(t, id)
        PROVE  Quiet(t)
    <2>1. /\ mem[Host[t]].identities[id] \in Identity /\ "delete" \in Operations
          /\ "use" \in Operations /\ "revoke" \in Places /\ "read" \in Places
      BY CallType DEF Memory, Operations, Places
    <2>2. /\ call'[t].pc \in {"revoke", "read"}
          /\ \A u \in Threads \ {t} : call'[u] = call[u]
      BY <1>5, <2>1, EnterType DEF DeleteBegin, UseBegin
    <2>3. QED
      BY <1>5, <2>2 DEF DeleteBegin, UseBegin, Start, Quiet, Critical, Persisted
  <1>6. ASSUME NEW t \in Threads, RotateConsume(t) PROVE Quiet(t)
    <2> DEFINE secret == slot[Host[t]][ProviderOf[call[t].id]]
               place == IF secret = 0 THEN "persist" ELSE "deliver"
               c == [call[t] EXCEPT !.secret = secret, !.pc = place]
    <2>1. /\ call' = [call EXCEPT ![t] = c] /\ call[t].pc = "consume"
          /\ UNCHANGED <<mem, lock, watch, snapshot>>
      BY <1>6, Zenon DEF RotateConsume, Proceed
    <2>2. c.pc = place /\ place # "rotating"
      BY CallType DEF Call
    <2> HIDE DEF c, place
    <2>3. QED
      BY <2>1, <2>2 DEF Quiet, Critical, Persisted, TypeInv, TypeOK
  <1>7. ASSUME NEW t \in Threads, RotatePersist(t) PROVE Quiet(t)
    <2>1. mem[Host[t]] \in Memory /\ Safe(mem[Host[t]], mem[Host[t]])
      BY CallType DEF Safe
    <2>2. Critical(t) /\ Persisted(t)
      BY <1>7, <2>1, CriticalPersist DEF RotatePersist
    <2>3. QED
      BY <1>a, <1>7, <2>2 DEF RotatePersist, Quiet
  <1>8. ASSUME NEW t \in Threads, DeliverToVault(t) \/ MirrorToCommonVault(t)
        PROVE  Quiet(t)
    <2> DEFINE c == call[t]
               m == mem[Host[t]]
    <2>1. PICK w \in {"native", "common"} : Deliver(t, w)
      BY <1>8 DEF DeliverToVault, MirrorToCommonVault
    <2>2. /\ Unlocked(t) /\ UNCHANGED <<lock, watch, snapshot>>
          /\ c.pc \in {"deliver", "mirror"}
      BY <1>8 DEF DeliverToVault, MirrorToCommonVault
    <2> DEFINE kind == IF w = "native" THEN "delivered" ELSE "mirrored"
               place(refs) == afterDelivery(w, c.op, refs)
    <2>3. /\ m \in Memory /\ c.id \in Ids /\ c \in Call /\ c.view \in Identity
          /\ kind \in EventKinds
      BY <2>2, CallType DEF EventKinds
    <2>4. \A refs : place(refs) \in Places \ {"rotating"}
      BY DEF afterDelivery, persistPlace, Places
    <2>5. /\ \/ UNCHANGED mem
             \/ SetMem(t, addEvent(m, c.id, kind, "attention", 0))
             \/ SetMem(t, addEvent(m, c.id, kind, "success", 0))
          /\ \/ Goto(t, place(c.view.refs))
             \/ Proceed(t, [c EXCEPT !.view.refs = @ \cup {w},
                                     !.pc = place(c.view.refs \cup {w})])
      BY <2>1, Zenon DEF Deliver
    <2>6. Critical(t)
      <3>1. /\ addEvent(m, c.id, kind, "attention", 0) \in Memory
            /\ addEvent(m, c.id, kind, "success", 0) \in Memory
            /\ Safe(m, addEvent(m, c.id, kind, "attention", 0))
            /\ Safe(m, addEvent(m, c.id, kind, "success", 0))
        BY <1>0, <2>3, AddEventFields, SafeAddEvent
      <3>2. QED
        BY <2>2, <2>5, <3>1, CriticalWrite DEF Critical
    <2> HIDE DEF place
    <2>7. /\ call'[t].pc # "rotating"
          /\ \A u \in Threads \ {t} : call'[u] = call[u]
      <3>1. CASE Goto(t, place(c.view.refs))
        BY <1>a, <2>2, <2>4, <3>1
      <3>2. CASE Proceed(t, [c EXCEPT !.view.refs = @ \cup {w},
                                      !.pc = place(c.view.refs \cup {w})])
        <4> DEFINE d == [c EXCEPT !.view.refs = @ \cup {w},
                                  !.pc = place(c.view.refs \cup {w})]
        <4>1. d.pc = place(c.view.refs \cup {w})
          BY <2>3 DEF Call, Identity
        <4> HIDE DEF d
        <4>2. call'[t] = d /\ \A u \in Threads \ {t} : call'[u] = call[u]
          BY <3>2 DEF d, Proceed, TypeInv, TypeOK
        <4>3. QED
          BY <2>4, <4>1, <4>2
      <3>3. QED
        BY <2>5, <3>1, <3>2
    <2>8. QED
      BY <2>2, <2>6, <2>7 DEF Quiet, Persisted
  <1>9. ASSUME NEW t \in Threads, RecordReferences(t) PROVE Quiet(t)
    <2> DEFINE a == setIdentity(mem[Host[t]], call[t].id, call[t].view)
    <2>1. /\ SetMem(t, a) /\ Unlocked(t) /\ call[t].pc = "record"
          /\ Goto(t, persistPlace(call[t].op)) /\ UNCHANGED <<lock, watch, snapshot>>
      BY <1>9, Zenon DEF RecordReferences
    <2>2. call[t].view.state = "active"
      BY <2>1 DEF CallInv, Sound, Writing
    <2>3. a \in Memory /\ Safe(mem[Host[t]], a)
      BY <2>1, <2>2, CallType, SetIdentityFields, SafeSetIdentity
    <2> HIDE DEF a
    <2>4. Critical(t)
      BY <2>1, <2>3, CriticalWrite
    <2>5. persistPlace(call[t].op) \in Places \ {"rotating"}
      BY DEF persistPlace, Places
    <2>6. QED
      BY <1>a, <2>1, <2>4, <2>5 DEF Quiet, Persisted
  <1>10. ASSUME NEW t \in Threads, ProvisionReject(t) PROVE Quiet(t)
    BY <1>a, <1>10 DEF ProvisionReject, Quiet, Critical, Persisted
  <1>11. ASSUME NEW t \in Threads, ProvisionAdopt(t) PROVE Quiet(t)
    <2> DEFINE c == call[t]
               m == setIdentity(mem[Host[t]], c.id, c.view)
               e == addEvent(m, c.id, "discovered", "success", 0)
               f == addEvent(e, c.id, "registered", "success", 0)
    <2>1. /\ SetMem(t, f) /\ Goto(t, "deliver") /\ Unlocked(t) /\ c.pc = "adopt"
          /\ UNCHANGED <<lock, watch, snapshot>>
      BY <1>11, Zenon DEF ProvisionAdopt
    <2>2. /\ mem[Host[t]] \in Memory /\ c.id \in Ids /\ c.view \in Identity
          /\ "discovered" \in EventKinds /\ "registered" \in EventKinds
          /\ c.view.state = "active" /\ "deliver" \in Places \ {"rotating"}
      BY <2>1, CallType DEF EventKinds, CallInv, Sound, Writing, Places
    <2>3. m \in Memory /\ Safe(mem[Host[t]], m)
      BY <2>2, SetIdentityFields, SafeSetIdentity
    <2> HIDE DEF m
    <2>4. e \in Memory /\ Safe(m, e)
      BY <1>0, <2>2, <2>3, AddEventFields, SafeAddEvent
    <2> HIDE DEF e
    <2>5. f \in Memory /\ Safe(e, f)
      BY <1>0, <2>2, <2>4, AddEventFields, SafeAddEvent
    <2> HIDE DEF f
    <2>6. Safe(mem[Host[t]], f)
      BY <2>3, <2>4, <2>5, SafeTrans
    <2>7. Critical(t)
      BY <2>1, <2>5, <2>6, CriticalWrite
    <2>8. QED
      BY <1>a, <2>1, <2>2, <2>7 DEF Quiet, Persisted
  <1>12. ASSUME NEW t \in Threads, ProvisionSnapshot(t) PROVE Quiet(t)
    <2> DEFINE c == call[t]
               m == mem[Host[t]]
               c1 == [c EXCEPT !.snap.identities = m.identities, !.pc = "copyEvents"]
               c2 == [c EXCEPT !.snap.events = m.events, !.pc = "copyRuns"]
               c3 == [c EXCEPT !.snap.runs = m.runs, !.snap.nextEvent = m.nextEvent,
                               !.snap.nextRun = m.nextRun, !.pc = "save"]
    <2>1. /\ UNCHANGED <<mem, lock, watch, snapshot>>
          /\ c.pc \in {"copyIdentities", "copyEvents", "copyRuns"}
          /\ \/ call' = [call EXCEPT ![t] = c1] \/ call' = [call EXCEPT ![t] = c2]
             \/ call' = [call EXCEPT ![t] = c3]
      BY <1>12, Zenon DEF ProvisionSnapshot, CopyPart, Proceed
    <2>2. /\ c1.pc = "copyEvents" /\ c2.pc = "copyRuns" /\ c3.pc = "save"
      BY CallType DEF Call
    <2> HIDE DEF c1, c2, c3
    <2>3. call'[t] \in {c1, c2, c3} /\ \A u \in Threads \ {t} : call'[u] = call[u]
      BY <2>1 DEF TypeInv, TypeOK
    <2>4. QED
      BY <2>1, <2>2, <2>3 DEF Quiet, Critical, Persisted
  <1>13. ASSUME NEW t \in Threads, ProvisionSave(t) PROVE Quiet(t)
    BY <1>a, <1>13 DEF ProvisionSave, Save, Quiet, Critical, Persisted
  <1>14. ASSUME NEW t \in Threads, RevokeFromVault(t) \/ RevokeFromCommonVault(t)
         PROVE  Quiet(t)
    <2> DEFINE c == call[t]
               m == mem[Host[t]]
    <2>1. PICK w \in {"native", "common"} : Revoke(t, w)
      BY <1>14 DEF RevokeFromVault, RevokeFromCommonVault
    <2>2. /\ Unlocked(t) /\ UNCHANGED <<lock, watch, snapshot>>
          /\ c.pc \in {"revoke", "revokeCommon"}
          /\ Goto(t, "revokeCommon") \/ Goto(t, "purge") \/ Return(t)
      BY <1>14 DEF RevokeFromVault, RevokeFromCommonVault
    <2> DEFINE kind == IF w = "native" THEN "revoked" ELSE "unmirrored"
    <2>3. /\ m \in Memory /\ c.id \in Ids /\ kind \in EventKinds
          /\ "revokeCommon" \in Places \ {"rotating"} /\ "purge" \in Places \ {"rotating"}
      BY <2>2, CallType DEF EventKinds, Places
    <2>4. \/ UNCHANGED mem
          \/ SetMem(t, addEvent(m, c.id, kind, "attention", 0))
          \/ SetMem(t, addEvent(m, c.id, kind, "success", 0))
      BY <2>1, Zenon DEF Revoke
    <2>5. /\ addEvent(m, c.id, kind, "attention", 0) \in Memory
          /\ addEvent(m, c.id, kind, "success", 0) \in Memory
          /\ Safe(m, addEvent(m, c.id, kind, "attention", 0))
          /\ Safe(m, addEvent(m, c.id, kind, "success", 0))
      BY <1>0, <2>3, AddEventFields, SafeAddEvent
    <2>6. Critical(t)
      BY <2>2, <2>4, <2>5, CriticalWrite DEF Critical
    <2>7. QED
      BY <1>a, <2>2, <2>3, <2>6 DEF Quiet, Persisted
  <1>15. ASSUME NEW t \in Threads, DeletePurge(t) PROVE Quiet(t)
    <2> DEFINE a == purge(mem[Host[t]], call[t].id)
    <2>1. /\ Unlocked(t) /\ call[t].pc = "purge" /\ Return(t) /\ UNCHANGED <<lock, watch>>
          /\ UNCHANGED <<mem, repository>> \/ persistLocked(t, a)
      BY <1>15, Zenon DEF DeletePurge
    <2>2. a \in Memory /\ Safe(mem[Host[t]], a)
      BY <2>1, CallType, PurgeFields, SafePurge
    <2> HIDE DEF a
    <2>3. Critical(t) /\ Persisted(t)
      BY <2>1, <2>2, CriticalPersist DEF Critical, Persisted
    <2>4. QED
      BY <1>a, <2>1, <2>3 DEF Quiet
  <1>16. ASSUME NEW t \in Threads, UseRead(t) PROVE Quiet(t)
    <2> DEFINE c == call[t]
    <2>1. UNCHANGED <<mem, lock, watch, snapshot>> /\ c \in Call /\ c.pc = "read"
      BY <1>16, CallType DEF UseRead
    <2>2. Return(t) \/ \E s : Proceed(t, [c EXCEPT !.secret = s, !.pc = "audit"])
      BY <1>16, Zenon DEF UseRead, ReadSecret
    <2>3. ASSUME NEW s, Proceed(t, [c EXCEPT !.secret = s, !.pc = "audit"])
          PROVE  Quiet(t)
      <3> DEFINE d == [c EXCEPT !.secret = s, !.pc = "audit"]
      <3>1. d.pc = "audit"
        BY <2>1 DEF Call
      <3> HIDE DEF d
      <3>2. call'[t] = d /\ \A u \in Threads \ {t} : call'[u] = call[u]
        BY <2>3 DEF Proceed, TypeInv, TypeOK, d
      <3>3. QED
        BY <2>1, <3>1, <3>2 DEF Quiet, Critical, Persisted
    <2>4. CASE Return(t)
      BY <1>a, <2>1, <2>4 DEF Quiet, Critical, Persisted
    <2>5. QED
      BY <2>2, <2>3, <2>4
  <1>17. ASSUME NEW t \in Threads, UseAudit(t) PROVE Quiet(t)
    <2> DEFINE a == addEvent(mem[Host[t]], call[t].id, "used", "success", 0)
    <2>1. /\ Unlocked(t) /\ call[t].pc = "audit" /\ Return(t) /\ UNCHANGED <<lock, watch>>
          /\ persistLocked(t, a)
      BY <1>17, Zenon DEF UseAudit
    <2>2. "used" \in EventKinds
      BY DEF EventKinds
    <2>3. a \in Memory /\ Safe(mem[Host[t]], a)
      BY <1>0, <2>1, <2>2, CallType, AddEventFields, SafeAddEvent
    <2> HIDE DEF a
    <2>4. Critical(t) /\ Persisted(t)
      BY <2>1, <2>3, CriticalPersist
    <2>5. QED
      BY <1>a, <2>1, <2>4 DEF Quiet
  <1>18. QED
    <2>1. ASSUME NEW t \in Threads, NEW id \in Ids,
                 \/ Register(t, id) \/ RotateBegin(t, id) \/ ProvisionCreate(t, id)
                 \/ Retire(t, id) \/ RetireFail(t, id) \/ DeleteBegin(t, id)
                 \/ UseBegin(t, id)
          PROVE  Quiet(t) \/ Rotating(t)
      BY <1>1, <1>2, <1>3, <1>4, <1>5, <2>1 DEF Rotating
    <2>2. ASSUME NEW t \in Threads, Continue(t) PROVE Quiet(t) \/ Rotating(t)
      BY <1>6, <1>7, <1>8, <1>9, <1>10, <1>11, <1>12, <1>13, <1>14, <1>15, <1>16,
         <1>17, <2>2 DEF Continue, Rotating
    <2>3. QED
      BY <2>1, <2>2 DEF Begin

LEMMA Effects ==
    ASSUME TypeInv, CallInv, Next
    PROVE  \/ \E t \in Threads : Quiet(t) \/ Rotating(t)
           \/ \E i \in Instances : Environment(i)
  BY CallEffects DEF Next

-----------------------------------------------------------------------------
(* The inductive invariant.  Every copy of the state (the snapshot, the    *)
(* one a reload has in hand, the memories) is well numbered and explains   *)
(* its runs; none of them shows a rotation in progress, but for a memory   *)
(* whose mutex a rotation holds, and that one shows its open run and no    *)
(* other rotation.                                                         *)
Alone(i) ==
    \A t \in lock[i] :
      /\ Host[t] = i /\ call[t].pc = "rotating"
      /\ call[t].run \in 1..mem[i].nextRun
      /\ OnlyRun(mem[i], call[t].id, call[t].run)
      /\ Open(mem[i], call[t].id, call[t].run)

MemInv ==
    /\ Numbered(snapshot) /\ AllSettled(snapshot) /\ Explained(snapshot)
    /\ \A i \in Instances :
         /\ Numbered(watch[i].snap) /\ AllSettled(watch[i].snap)
         /\ Explained(watch[i].snap)
         /\ Numbered(mem[i]) /\ Explained(mem[i])
         /\ lock[i] = {} => AllSettled(mem[i])
         /\ Alone(i)

LEMMA EmptyMemoryGood ==
    Numbered(EmptyMemory) /\ AllSettled(EmptyMemory) /\ Explained(EmptyMemory)
  <1>1. /\ EmptyMemory.events = {} /\ EmptyMemory.runs = {}
        /\ \A id \in Ids : EmptyMemory.identities[id].state = "absent"
    BY DEF EmptyMemory, NoIdentity
  <1>2. QED
    BY <1>1 DEF Numbered, AllSettled, Settled, Explained

(* A rotation leaves its memory well numbered and, at its end, settled.    *)
LEMMA RotationStep ==
    ASSUME TypeInv, CallInv, MemInv, NEW t \in Threads, Rotating(t) PROVE MemInv'
  <1> DEFINE i == Host[t]
             m == mem[i]
             c == call[t]
  <1>1. i \in Instances /\ m \in Memory /\ c \in Call
    BY CallType
  <1>2. ASSUME NEW id \in Ids, RotateBegin(t, id) PROVE MemInv'
    <2> DEFINE d == [NoCall EXCEPT !.pc = "rotating", !.op = "rotate", !.id = id,
                       !.view = [m.identities[id] EXCEPT !.state = "renewing"],
                       !.run = m.nextRun + 1]
    <2>1. /\ SetMem(t, startRun(m, id)) /\ lock[i] = {}
          /\ lock' = [lock EXCEPT ![i] = {t}] /\ call' = [call EXCEPT ![t] = d]
          /\ UNCHANGED <<snapshot, watch>> /\ c.pc = "idle"
      BY <1>2, Zenon DEF RotateBegin, Unlocked, Proceed, repository, Start
    <2>2. d.pc = "rotating" /\ d.id = id /\ d.run = m.nextRun + 1
      BY DEF NoCall
    <2> HIDE DEF d
    <2>3. call'[t] = d /\ \A u \in Threads \ {t} : call'[u] = call[u]
      BY <2>1 DEF TypeInv, TypeOK
    <2>4. /\ Numbered(startRun(m, id)) /\ m.nextRun + 1 \in 1..startRun(m, id).nextRun
          /\ OnlyRun(startRun(m, id), id, m.nextRun + 1) /\ startRun(m, id) \in Memory
          /\ Explained(startRun(m, id)) /\ Open(startRun(m, id), id, m.nextRun + 1)
      BY <1>1, <2>1, StartRunNumbered, StartRunExplained, StartRunFields DEF MemInv
    <2>5. /\ mem'[i] = startRun(m, id)
          /\ \A j \in Instances \ {i} : mem'[j] = mem[j] /\ lock'[j] = lock[j]
          /\ lock'[i] = {t}
      BY <1>1, <2>1, <2>4, SetMemType DEF TypeInv, TypeOK
    <2>6. Alone(i)'
      BY <2>2, <2>3, <2>4, <2>5 DEF Alone
    <2>7. ASSUME NEW j \in Instances \ {i} PROVE Alone(j)'
      <3>1. \A u \in lock[j] : u \in Threads \ {t}
        BY <2>1 DEF MemInv, Alone, TypeInv, TypeOK
      <3>2. QED
        BY <2>3, <2>5, <3>1 DEF MemInv, Alone
    <2>8. QED
      BY <2>1, <2>4, <2>5, <2>6, <2>7 DEF MemInv
  <1>3. ASSUME NEW f \in Memory, NEW d, Numbered(f), AllSettled(f), Explained(f),
               SetMem(t, f),
               Release(t), call' = [call EXCEPT ![t] = d], UNCHANGED watch,
               snapshot' = snapshot \/ snapshot' = f, c.pc = "rotating"
        PROVE  MemInv'
    <2>1. /\ mem'[i] = f /\ lock'[i] = {}
          /\ \A j \in Instances \ {i} : mem'[j] = mem[j] /\ lock'[j] = lock[j]
          /\ \A u \in Threads \ {t} : call'[u] = call[u]
      BY <1>1, <1>3, SetMemType DEF Release, TypeInv, TypeOK
    <2>2. ASSUME NEW j \in Instances \ {i} PROVE Alone(j)'
      <3>1. \A u \in lock[j] : u \in Threads \ {t}
        BY <1>3 DEF MemInv, Alone, TypeInv, TypeOK
      <3>2. QED
        BY <2>1, <3>1 DEF MemInv, Alone
    <2>3. Alone(i)'
      BY <2>1 DEF Alone
    <2>4. QED
      BY <1>3, <2>1, <2>2, <2>3 DEF MemInv
  <1>4. ASSUME c.pc = "rotating"
        PROVE  /\ c.run \in 1..m.nextRun /\ OnlyRun(m, c.id, c.run)
               /\ Open(m, c.id, c.run)
               /\ c.run \in Nat /\ c.id \in Ids /\ c.view \in Identity
    BY <1>1, <1>4, CallType DEF CallInv, MemInv, Alone
  <1>5. ASSUME NEW identity \in Identity, identity.state = "active", c.pc = "rotating",
               NEW status \in {"succeeded", "failed"}, NEW key \in Nat
        PROVE  LET f == finishRun(setIdentity(m, c.id, identity), c.id, c.run, status, key)
               IN  f \in Memory /\ Numbered(f) /\ AllSettled(f) /\ Explained(f)
    <2> DEFINE s == setIdentity(m, c.id, identity)
               f == finishRun(s, c.id, c.run, status, key)
    <2>1. c.run \in 1..m.nextRun /\ c.run \in Nat /\ c.id \in Ids
      BY <1>4, <1>5
    <2>2. /\ s \in Memory /\ s.identities = [m.identities EXCEPT ![c.id] = identity]
          /\ s.runs = m.runs /\ s.nextRun = m.nextRun /\ Safe(m, s)
      BY <1>1, <1>5, <2>1, SetIdentityFields, SafeSetIdentity
    <2>3. m.identities \in [Ids -> Identity] /\ Numbered(m) /\ Explained(m)
      BY <1>1 DEF Memory, MemInv
    <2>4. /\ Numbered(s) /\ Explained(s) /\ s.identities[c.id].state = "active"
      BY <1>5, <2>1, <2>2, <2>3 DEF Safe
    <2>5. OnlyRun(s, c.id, c.run) /\ Open(s, c.id, c.run)
      BY <1>4, <1>5, <2>1, <2>2, <2>3 DEF OnlyRun, Settled, Open
    <2> HIDE DEF s
    <2>6. f \in Memory
      BY <1>5, <2>1, <2>2, FinishRunFields
    <2>7. Numbered(f) /\ AllSettled(f) /\ Explained(f)
      BY <1>5, <2>1, <2>2, <2>4, <2>5, FinishRunNumbered, FinishRunExplained
    <2>8. QED
      BY <2>6, <2>7 DEF s
  <1>6. ASSUME RotateFail(t) PROVE MemInv'
    <2> DEFINE f == finishRun(setIdentity(m, c.id, returned(c.view)), c.id, c.run,
                              "failed", 0)
    <2>1. /\ persistLocked(t, f) /\ Release(t) /\ call' = [call EXCEPT ![t] = NoCall]
          /\ UNCHANGED watch /\ c.pc = "rotating"
      BY <1>6, Zenon DEF RotateFail, Return, Proceed
    <2>2. returned(c.view) \in Identity /\ returned(c.view).state = "active"
      BY <1>4, <2>1 DEF returned, Identity, States
    <2>3. f \in Memory /\ Numbered(f) /\ AllSettled(f) /\ Explained(f)
      BY <1>5, <2>1, <2>2
    <2> HIDE DEF f
    <2>4. SetMem(t, f) /\ (snapshot' = snapshot \/ snapshot' = f)
      BY <2>1, <2>3, PersistType DEF persistLocked, TypeInv
    <2>5. QED
      BY <1>3, <2>1, <2>3, <2>4
  <1>7. ASSUME RotateSucceed(t) PROVE MemInv'
    <2> DEFINE key == nextKey + 1
               identity == [NoIdentity EXCEPT !.state = "active", !.key = key]
               f == finishRun(setIdentity(m, c.id, identity), c.id, c.run,
                              "succeeded", key)
               d == [c EXCEPT !.pc = "consume", !.view = identity]
    <2>1. /\ SetMem(t, f) /\ Release(t) /\ call' = [call EXCEPT ![t] = d]
          /\ UNCHANGED <<watch, snapshot>> /\ c.pc = "rotating"
      BY <1>7, Zenon DEF RotateSucceed, Proceed, repository
    <2>2. key \in Nat
      BY DEF TypeInv, TypeOK
    <2> HIDE DEF key
    <2>3. identity \in Identity /\ identity.state = "active"
      BY <2>2 DEF NoIdentity, Identity, States
    <2> HIDE DEF identity, d
    <2>4. f \in Memory /\ Numbered(f) /\ AllSettled(f) /\ Explained(f)
      BY <1>5, <2>1, <2>2, <2>3
    <2> HIDE DEF f
    <2>5. QED
      BY <1>3, <2>1, <2>4
  <1>8. QED
    BY <1>2, <1>6, <1>7 DEF Rotating
(* What Provision is about to save without the mutex is fit to be loaded.  *)
SavesGood ==
    \A t \in Threads : call[t].pc = "save" =>
      \/ PersistResults \subseteq {"none"}
      \/ LET m == call[t].snap IN Numbered(m) /\ AllSettled(m) /\ Explained(m)

(* Every step keeps the invariant.                                         *)
LEMMA MemStep ==
    ASSUME SavesGood, TypeInv, CallInv, MemInv, [Next]_vars
    PROVE  MemInv'
  <1>1. ASSUME NEW t \in Threads, Quiet(t) PROVE MemInv'
    <2>1. /\ UNCHANGED <<lock, watch>> /\ Critical(t) /\ Persisted(t)
          /\ call[t].pc # "rotating"
          /\ \A u \in Threads \ {t} : call'[u] = call[u]
      BY <1>1 DEF Quiet
    <2>2. ASSUME NEW i \in Instances
          PROVE  /\ Numbered(mem'[i]) /\ Explained(mem'[i])
                 /\ lock[i] = {} => AllSettled(mem'[i])
                 /\ lock[i] # {} => mem'[i] = mem[i]
      BY <2>1 DEF Critical, Unlocked, Safe, MemInv
    <2>3. Host[t] \in Instances
      BY CallType
    <2>4. Numbered(snapshot') /\ AllSettled(snapshot') /\ Explained(snapshot')
      BY <2>1, <2>2, <2>3 DEF Persisted, Unlocked, MemInv, SavesGood
    <2>5. ASSUME NEW i \in Instances PROVE Alone(i)'
      <3>1. \A u \in lock[i] : u \in Threads \ {t}
        BY <2>1 DEF MemInv, Alone, TypeInv, TypeOK
      <3>2. QED
        BY <2>1, <2>2, <3>1 DEF MemInv, Alone
    <2>6. ASSUME NEW i \in Instances
          PROVE  /\ Numbered(mem[i])' /\ (lock[i] = {} => AllSettled(mem[i]))'
                 /\ Explained(mem[i])'
      BY <2>1, <2>2 DEF Numbered, AllSettled, Settled, Explained, EventsOf
    <2>7. QED
      BY <2>1, <2>4, <2>5, <2>6
      DEF MemInv, Numbered, AllSettled, Settled, Explained, EventsOf
  <1>2. ASSUME NEW i \in Instances, WatchLoad(i) PROVE MemInv'
    <2>1. /\ watch' = [watch EXCEPT ![i] = [busy |-> TRUE, snap |-> snapshot]]
          /\ UNCHANGED <<mem, lock, call, snapshot>>
      BY <1>2 DEF WatchLoad
    <2>2. \A j \in Instances : watch'[j].snap = watch[j].snap \/ watch'[j].snap = snapshot
      BY <2>1 DEF TypeInv, TypeOK
    <2>3. QED
      BY <2>1, <2>2 DEF MemInv, Alone
  <1>3. ASSUME NEW i \in Instances, WatchRestore(i) PROVE MemInv'
    <2> DEFINE a == restoreLocked(mem[i], watch[i].snap)
    <2>1. /\ mem' = [mem EXCEPT ![i] = a] /\ watch' = [watch EXCEPT ![i] = NoWatch]
          /\ lock[i] = {} /\ UNCHANGED <<lock, call, snapshot>>
      BY <1>3, Zenon DEF WatchRestore, repository
    <2>2. Safe(watch[i].snap, a)
      BY SafeRestore DEF TypeInv, TypeOK, Watch
    <2>3. Numbered(a) /\ AllSettled(a) /\ Explained(a)
      BY <2>2 DEF Safe, MemInv
    <2> HIDE DEF a
    <2>4. /\ \A j \in Instances : watch'[j].snap \in {watch[j].snap, EmptyMemory}
          /\ mem'[i] = a /\ \A j \in Instances \ {i} : mem'[j] = mem[j]
      BY <2>1 DEF TypeInv, TypeOK, NoWatch
    <2>5. QED
      BY <2>1, <2>3, <2>4, EmptyMemoryGood DEF MemInv, Alone
  <1>4. ASSUME NEW i \in Instances, LoseNotice(i) PROVE MemInv'
    BY <1>4 DEF LoseNotice, MemInv, Alone
  <1>5. ASSUME NEW i \in Instances, Restart(i) PROVE MemInv'
    <2> DEFINE a == restoreLocked(EmptyMemory, snapshot)
    <2>1. /\ mem' = [mem EXCEPT ![i] = a] /\ watch' = [watch EXCEPT ![i] = NoWatch]
          /\ lock' = [lock EXCEPT ![i] = {}] /\ UNCHANGED snapshot
          /\ call' = [t \in Threads |-> IF Host[t] = i THEN NoCall ELSE call[t]]
      BY <1>5, Zenon DEF Restart
    <2>2. Safe(snapshot, a)
      BY SafeRestore, EmptyMemoryType DEF TypeInv, TypeOK
    <2>3. Numbered(a) /\ AllSettled(a) /\ Explained(a)
      BY <2>2 DEF Safe, MemInv
    <2> HIDE DEF a
    <2>4. /\ \A j \in Instances : watch'[j].snap \in {watch[j].snap, EmptyMemory}
          /\ mem'[i] = a /\ lock'[i] = {}
          /\ \A j \in Instances \ {i} : mem'[j] = mem[j] /\ lock'[j] = lock[j]
          /\ \A t \in Threads : Host[t] # i => call'[t] = call[t]
      BY <2>1 DEF TypeInv, TypeOK, NoWatch
    <2>5. ASSUME NEW j \in Instances PROVE Alone(j)'
      <3>1. CASE j = i
        BY <2>4, <3>1 DEF Alone
      <3>2. CASE j # i
        <4>1. \A t \in lock[j] : t \in Threads /\ Host[t] # i
          BY <3>2 DEF MemInv, Alone, TypeInv, TypeOK
        <4>2. QED
          BY <2>4, <3>2, <4>1 DEF MemInv, Alone
      <3>3. QED
        BY <3>1, <3>2
    <2>6. QED
      BY <2>1, <2>3, <2>4, <2>5, EmptyMemoryGood DEF MemInv
  <1>6. CASE UNCHANGED vars
    BY <1>6 DEF vars, MemInv, Alone
  <1>7. QED
    BY <1>1, <1>2, <1>3, <1>4, <1>5, <1>6, Effects, RotationStep DEF Environment

LEMMA Initially == Init => TypeInv /\ CallInv /\ MemInv
  <1> SUFFICES ASSUME Init PROVE TypeInv /\ CallInv /\ MemInv
    OBVIOUS
  <1>1. TypeInv
    <2>1. DOMAIN Discovered \in SUBSET Nat /\ Len(Discovered) \in Nat
      BY StoreAssumption
    <2>2. NoWatch \in Watch
      BY EmptyMemoryType DEF NoWatch, Watch
    <2>3. QED
      BY <2>1, <2>2, AdoptedFields, NoCallType DEF Init, TypeInv, TypeOK, Busy
  <1>2. CallInv
    BY NoCallSound, NoCallType DEF Init, CallInv
  <1>3. MemInv
    BY AdoptedNumbered, EmptyMemoryGood DEF Init, MemInv, Alone, NoWatch
  <1>4. QED
    BY <1>1, <1>2, <1>3

-----------------------------------------------------------------------------
(* When the snapshot can be trusted.  Either it is only ever written by a  *)
(* critical section (nobody provisions, or there is no repository to       *)
(* persist to), or a process serves one call at a time and reloads         *)
(* nothing, so that the parts Provision copies without the mutex are those *)
(* of one moment.                                                          *)
LockedPersists == "provision" \notin Ops \/ PersistResults \subseteq {"none"}

OneCaller == \A t, u \in Threads : Host[t] = Host[u] => t = u

Sequential == OneCaller /\ NoticeCap = 0

Copies == {"copyEvents", "copyRuns", "save"}

Copied(t) ==
    LET c == call[t]
        m == mem[Host[t]]
    IN  /\ c.pc \in Copies => c.snap.identities = m.identities
        /\ c.pc \in Copies \ {"copyEvents"} => c.snap.events = m.events
        /\ c.pc = "save" => /\ c.snap.runs = m.runs
                            /\ c.snap.nextEvent = m.nextEvent
                            /\ c.snap.nextRun = m.nextRun

Still == \A i \in Instances : notices[i] = 0 /\ ~watch[i].busy

CopyInv == Still /\ \A t \in Threads : Copied(t)

(* Only Provision copies the state.                                        *)
LEMMA CopyPlaces ==
    ASSUME TypeInv, NEW t \in Threads, Begin(t) \/ Continue(t), ~ ProvisionSnapshot(t)
    PROVE  call'[t].pc \notin Copies
  <1> DEFINE c == call[t]
  <1> USE DEF Copies
  <1>0. c \in Call /\ Host[t] \in Instances
    BY CallType
  <1>1. ASSUME NEW d, call' = [call EXCEPT ![t] = d] PROVE call'[t] = d
    BY <1>1 DEF TypeInv, TypeOK
  <1>2. ASSUME Return(t) PROVE call'[t].pc \notin Copies
    BY <1>2, ReturnType, NoCallType
  <1>3. ASSUME c.pc # "idle", NEW place \in Places \ Copies, Goto(t, place)
        PROVE  call'[t].pc \notin Copies
    BY <1>3, GotoType
  <1>4. CASE Begin(t)
    <2>1. PICK id \in Ids : \/ Register(t, id) \/ RotateBegin(t, id)
                            \/ ProvisionCreate(t, id) \/ Retire(t, id)
                            \/ RetireFail(t, id) \/ DeleteBegin(t, id)
                            \/ UseBegin(t, id)
      BY <1>4 DEF Begin
    <2> DEFINE view == mem[Host[t]].identities[id]
               gone == [view EXCEPT !.state = "retired", !.key = 0, !.health = "attention"]
    <2>2. view \in Identity
      BY CallType DEF Memory
    <2>3. gone \in Identity
      BY <2>2 DEF Identity, States
    <2>4. CASE Register(t, id) \/ RetireFail(t, id)
      BY <2>4 DEF Register, RetireFail, Start
    <2>5. CASE RotateBegin(t, id)
      <3> DEFINE d == [NoCall EXCEPT !.pc = "rotating", !.op = "rotate", !.id = id,
                         !.view = [view EXCEPT !.state = "renewing"],
                         !.run = mem[Host[t]].nextRun + 1]
      <3>1. call' = [call EXCEPT ![t] = d]
        BY <2>5, Zenon DEF RotateBegin, Proceed
      <3>2. d.pc = "rotating"
        BY DEF NoCall
      <3> HIDE DEF d
      <3>3. QED
        BY <1>1, <3>1, <3>2
    <2>6. CASE ProvisionCreate(t, id)
      <3> DEFINE d == [NoCall EXCEPT !.pc = "adopt", !.op = "provision", !.id = id,
                         !.view = [NoIdentity EXCEPT !.state = "active",
                                                     !.key = nextKey + 1],
                         !.secret = nextKey + 1]
      <3>1. call' = [call EXCEPT ![t] = d]
        BY <2>6, Zenon DEF ProvisionCreate, Proceed
      <3>2. d.pc = "adopt"
        BY DEF NoCall
      <3> HIDE DEF d
      <3>3. QED
        BY <1>1, <3>1, <3>2
    <2>7. CASE Retire(t, id) \/ DeleteBegin(t, id) \/ UseBegin(t, id)
      <3> HIDE DEF view, gone
      <3>1. /\ c.pc = "idle"
            /\ \/ UNCHANGED call \/ Enter(t, "retire", id, "revoke", gone)
               \/ Enter(t, "delete", id, "revoke", view) \/ Enter(t, "use", id, "read", view)
        BY <2>7 DEF Retire, DeleteBegin, UseBegin, Start, view, gone
      <3>2. /\ {"retire", "delete", "use"} \subseteq Operations
            /\ {"revoke", "read"} \subseteq Places
        BY DEF Operations, Places
      <3>3. QED
        BY <2>2, <2>3, <3>1, <3>2, EnterType
    <2>8. QED
      BY <2>1, <2>4, <2>5, <2>6, <2>7
  <1>5. CASE RotateFail(t) \/ RotatePersist(t) \/ ProvisionReject(t) \/ ProvisionSave(t)
             \/ DeletePurge(t) \/ UseAudit(t)
    BY <1>2, <1>5
    DEF RotateFail, RotatePersist, ProvisionReject, ProvisionSave, DeletePurge, UseAudit
  <1>6. CASE RotateSucceed(t) \/ RotateConsume(t)
    <2>1. \/ \E view : call' = [call EXCEPT ![t] = [c EXCEPT !.pc = "consume", !.view = view]]
          \/ \E secret : call' = [call EXCEPT ![t] = [c EXCEPT !.secret = secret,
                                     !.pc = IF secret = 0 THEN "persist" ELSE "deliver"]]
      BY <1>6, Zenon DEF RotateSucceed, RotateConsume, Proceed
    <2>2. ASSUME NEW view, NEW secret
          PROVE  /\ [c EXCEPT !.pc = "consume", !.view = view].pc \notin Copies
                 /\ [c EXCEPT !.secret = secret,
                       !.pc = IF secret = 0 THEN "persist" ELSE "deliver"].pc \notin Copies
      BY <1>0 DEF Call
    <2>3. QED
      BY <1>1, <2>1, <2>2
  <1>7. CASE DeliverToVault(t) \/ MirrorToCommonVault(t)
    <2> DEFINE place(w, refs) == afterDelivery(w, c.op, refs)
    <2>1. PICK w \in {"native", "common"} :
            \/ Goto(t, place(w, c.view.refs))
            \/ Proceed(t, [c EXCEPT !.view.refs = @ \cup {w},
                                    !.pc = place(w, c.view.refs \cup {w})])
      BY <1>7, Zenon DEF DeliverToVault, MirrorToCommonVault, Deliver
    <2>2. \A refs : place(w, refs) \in Places \ Copies
      BY DEF afterDelivery, persistPlace, Places
    <2>3. c.pc # "idle"
      BY <1>7 DEF DeliverToVault, MirrorToCommonVault
    <2> HIDE DEF place
    <2>4. CASE Goto(t, place(w, c.view.refs))
      BY <1>3, <2>2, <2>3, <2>4
    <2>5. CASE Proceed(t, [c EXCEPT !.view.refs = @ \cup {w},
                                    !.pc = place(w, c.view.refs \cup {w})])
      <3> DEFINE d == [c EXCEPT !.view.refs = @ \cup {w},
                                !.pc = place(w, c.view.refs \cup {w})]
      <3>1. d.pc = place(w, c.view.refs \cup {w})
        BY <1>0 DEF Call
      <3>2. call' = [call EXCEPT ![t] = d]
        BY <2>5 DEF Proceed
      <3> HIDE DEF d
      <3>3. QED
        BY <1>1, <2>2, <3>1, <3>2
    <2>6. QED
      BY <2>1, <2>4, <2>5
  <1>8. CASE RecordReferences(t) \/ ProvisionAdopt(t) \/ RevokeFromVault(t)
             \/ RevokeFromCommonVault(t)
    <2>1. {persistPlace(c.op), "deliver", "revokeCommon", "purge"} \subseteq Places \ Copies
      BY DEF persistPlace, Places
    <2>2. /\ c.pc # "idle"
          /\ \/ Goto(t, persistPlace(c.op)) \/ Goto(t, "deliver")
             \/ Goto(t, "revokeCommon") \/ Goto(t, "purge") \/ Return(t)
      BY <1>8 DEF RecordReferences, ProvisionAdopt, RevokeFromVault, RevokeFromCommonVault
    <2>3. QED
      BY <1>2, <1>3, <2>1, <2>2
  <1>9. CASE UseRead(t)
    <2>1. Return(t) \/ \E s : call' = [call EXCEPT ![t] = [c EXCEPT !.secret = s, !.pc = "audit"]]
      BY <1>9, Zenon DEF UseRead, ReadSecret, Proceed
    <2>2. \A s : [c EXCEPT !.secret = s, !.pc = "audit"].pc = "audit"
      BY <1>0 DEF Call
    <2>3. QED
      BY <1>1, <1>2, <2>1, <2>2
  <1>10. QED
    BY <1>4, <1>5, <1>6, <1>7, <1>8, <1>9 DEF Continue

(* The strengthened invariant of a store that persists under its mutex.    *)
THEOREM Invariant ==
    ASSUME LockedPersists PROVE Spec => [](TypeInv /\ CallInv /\ MemInv)
  <1>1. CallInv => SavesGood
    BY DEF CallInv, Sound, Provisioning, LockedPersists, SavesGood
  <1>2. TypeInv /\ CallInv /\ MemInv /\ [Next]_vars => (TypeInv /\ CallInv /\ MemInv)'
    BY <1>1, TypeStep, CallStep, MemStep
  <1>3. QED
    BY <1>2, Initially, PTL DEF Spec

LEMMA CopyStep ==
    ASSUME Sequential, TypeInv, CallInv, CopyInv, [Next]_vars
    PROVE  CopyInv'
  <1> USE DEF Copies
  <1>1. CASE UNCHANGED vars
    BY <1>1 DEF vars, CopyInv, Still, Copied
  <1>2. \A m : \A result \in PersistResults : Save(m, result) => UNCHANGED notices
    BY DEF Save, publish, repository, Sequential, CopyInv, Still, TypeInv, TypeOK
  <1>3. ASSUME NEW t \in Threads, Begin(t) \/ Continue(t) PROVE CopyInv'
    <2>1. UNCHANGED <<notices, watch>>
      BY <1>2, <1>3
      DEF Begin, Continue, Register, RotateBegin, ProvisionCreate, Retire, RetireFail,
          DeleteBegin, UseBegin, RotateFail, RotateSucceed, RotateConsume, RotatePersist,
          DeliverToVault, MirrorToCommonVault, RecordReferences, ProvisionReject,
          ProvisionAdopt, ProvisionSnapshot, ProvisionSave, RevokeFromVault,
          RevokeFromCommonVault, DeletePurge, UseRead, UseAudit, persistLocked, repository
    <2>2. /\ \A u \in Threads \ {t} : call'[u] = call[u]
          /\ \A i \in Instances \ {Host[t]} : mem'[i] = mem[i]
      <3>1. CASE Quiet(t)
        BY <3>1 DEF Quiet, Critical
      <3>2. CASE Rotating(t)
        <4>1. \E m : SetMem(t, m)
          BY <3>2, Zenon DEF Rotating, RotateBegin, RotateFail, RotateSucceed, persistLocked
        <4>2. \E c : call' = [call EXCEPT ![t] = c]
          BY <3>2, Zenon DEF Rotating, RotateBegin, RotateFail, RotateSucceed, Proceed, Return
        <4>3. QED
          BY <4>1, <4>2 DEF SetMem, TypeInv, TypeOK
      <3>3. QED
        BY <1>3, <3>1, <3>2, CallEffects
    <2>3. ASSUME NEW u \in Threads \ {t} PROVE Copied(u)'
      <3>1. Host[u] # Host[t] /\ Host[u] \in Instances
        BY CallType DEF Sequential, OneCaller
      <3>2. QED
        BY <2>2, <3>1 DEF CopyInv, Copied
    <2>4. Copied(t)'
      <3>1. CASE ~ ProvisionSnapshot(t)
        BY <1>3, <3>1, CopyPlaces DEF Copied
      <3>2. CASE ProvisionSnapshot(t)
        <4> DEFINE c == call[t]
                   m == mem[Host[t]]
                   c1 == [c EXCEPT !.snap.identities = m.identities, !.pc = "copyEvents"]
                   c2 == [c EXCEPT !.snap.events = m.events, !.pc = "copyRuns"]
                   c3 == [c EXCEPT !.snap.runs = m.runs, !.snap.nextEvent = m.nextEvent,
                                   !.snap.nextRun = m.nextRun, !.pc = "save"]
        <4>1. /\ UNCHANGED mem
              /\ \/ call' = [call EXCEPT ![t] = c1]
                 \/ c.pc = "copyEvents" /\ call' = [call EXCEPT ![t] = c2]
                 \/ c.pc = "copyRuns" /\ call' = [call EXCEPT ![t] = c3]
          BY <3>2, Zenon DEF ProvisionSnapshot, CopyPart, Proceed
        <4>2. c \in Call /\ c.snap \in Memory /\ m \in Memory
          BY CallType
        <4>3. /\ c1.pc = "copyEvents" /\ c1.snap.identities = m.identities
              /\ c2.pc = "copyRuns" /\ c2.snap.identities = c.snap.identities
              /\ c2.snap.events = m.events
              /\ c3.pc = "save" /\ c3.snap.identities = c.snap.identities
              /\ c3.snap.events = c.snap.events /\ c3.snap.runs = m.runs
              /\ c3.snap.nextEvent = m.nextEvent /\ c3.snap.nextRun = m.nextRun
          BY <4>2 DEF Call, Memory
        <4> HIDE DEF c1, c2, c3
        <4>4. \/ call'[t] = c1
              \/ c.pc = "copyEvents" /\ call'[t] = c2
              \/ c.pc = "copyRuns" /\ call'[t] = c3
          BY <4>1 DEF TypeInv, TypeOK
        <4>5. QED
          BY <4>1, <4>3, <4>4 DEF CopyInv, Copied
      <3>3. QED
        BY <3>1, <3>2
    <2>5. QED
      BY <2>1, <2>3, <2>4 DEF CopyInv, Still
  <1>4. ASSUME NEW i \in Instances, Environment(i) PROVE CopyInv'
    <2>1. Restart(i)
      BY <1>4 DEF Environment, WatchLoad, WatchRestore, LoseNotice, CopyInv, Still
    <2>2. /\ \A j \in Instances \ {i} : mem'[j] = mem[j]
          /\ \A t \in Threads : call'[t] = IF Host[t] = i THEN NoCall ELSE call[t]
          /\ \A j \in Instances : notices'[j] \in {0, notices[j]}
          /\ \A j \in Instances : watch'[j] \in {NoWatch, watch[j]}
      BY <2>1 DEF Restart, TypeInv, TypeOK
    <2>3. ASSUME NEW t \in Threads PROVE Copied(t)'
      <3>1. CASE Host[t] = i
        BY <2>2, <3>1, NoCallType DEF Copied
      <3>2. CASE Host[t] # i
        BY <2>2, <3>2, CallType DEF CopyInv, Copied
      <3>3. QED
        BY <3>1, <3>2
    <2>4. Still'
      BY <2>2 DEF CopyInv, Still, NoWatch
    <2>5. QED
      BY <2>3, <2>4 DEF CopyInv
  <1>5. QED
    BY <1>1, <1>3, <1>4 DEF Next

(* What a lone caller copied is the memory of its process.                 *)
LEMMA CopiesGood ==
    ASSUME Sequential, TypeInv, CallInv, MemInv, CopyInv
    PROVE  SavesGood
  <1>1. SUFFICES ASSUME NEW t \in Threads, call[t].pc = "save"
                 PROVE  LET m == call[t].snap
                        IN  Numbered(m) /\ AllSettled(m) /\ Explained(m)
    BY DEF SavesGood
  <1> DEFINE m == mem[Host[t]]
             s == call[t].snap
  <1>2. Host[t] \in Instances
    BY CallType
  <1>3. lock[Host[t]] = {}
    <2>1. Alone(Host[t]) /\ lock[Host[t]] \subseteq Threads
      BY <1>2 DEF MemInv, TypeInv, TypeOK
    <2>2. SUFFICES ASSUME NEW u \in lock[Host[t]] PROVE FALSE
      OBVIOUS
    <2>3. u \in Threads /\ Host[u] = Host[t] /\ call[u].pc = "rotating"
      BY <2>1 DEF Alone
    <2>4. u = t
      BY <2>3 DEF Sequential, OneCaller
    <2>5. QED
      BY <1>1, <2>3, <2>4
  <1>4. Numbered(m) /\ AllSettled(m) /\ Explained(m)
    BY <1>2, <1>3 DEF MemInv
  <1>5. /\ s.identities = m.identities /\ s.events = m.events /\ s.runs = m.runs
        /\ s.nextEvent = m.nextEvent /\ s.nextRun = m.nextRun
    BY <1>1 DEF CopyInv, Copied, Copies
  <1> HIDE DEF m, s
  <1>6. Numbered(s) /\ AllSettled(s) /\ Explained(s)
    BY <1>4, <1>5 DEF Numbered, AllSettled, Settled, Explained, EventsOf
  <1>7. QED
    BY <1>6 DEF s

(* The strengthened invariant of a process that serves one call at a time. *)
THEOREM SequentialInvariant ==
    ASSUME Sequential PROVE Spec => [](TypeInv /\ CallInv /\ MemInv /\ CopyInv)
  <1>1. Init => CopyInv
    BY NoCallType DEF Init, CopyInv, Still, Copied, Copies, NoWatch
  <1>2. TypeInv /\ CallInv /\ MemInv /\ CopyInv /\ [Next]_vars
          => (TypeInv /\ CallInv /\ MemInv /\ CopyInv)'
    BY TypeStep, CallStep, MemStep, CopyStep, CopiesGood
  <1>3. QED
    BY <1>1, <1>2, Initially, PTL DEF Spec

(* The strengthened invariant, in either case.                             *)
LEMMA SnapshotInvariant ==
    ASSUME LockedPersists \/ Sequential PROVE Spec => [](TypeInv /\ CallInv /\ MemInv)
  <1>1. CASE LockedPersists
    BY <1>1, Invariant
  <1>2. CASE Sequential
    BY <1>2, SequentialInvariant, PTL
  <1>3. QED
    BY <1>1, <1>2

(* Event and run ids are never reused, in any memory and in the snapshot,  *)
(* for any number of instances that overwrite each other's snapshots,      *)
(* reload, fail to persist and restart (addEvent, Rotate, restoreLocked).  *)
THEOREM IdsStayUnique == ASSUME LockedPersists \/ Sequential PROVE Spec => []IdsUnique
  <1>1. MemInv => IdsUnique
    BY DEF MemInv, IdsUnique
  <1>2. QED
    BY <1>1, SnapshotInvariant, PTL

(* In every memory and in the snapshot each rotation run has its one       *)
(* rotation.started and, once over, exactly the terminal event of its      *)
(* outcome, and no event names a run that is not on record (Rotate,        *)
(* Delete, persistLocked, restoreLocked).                                  *)
THEOREM RunsStayExplained == ASSUME LockedPersists \/ Sequential PROVE Spec => []RunsExplained
  <1>1. MemInv => RunsExplained
    BY DEF MemInv, RunsExplained
  <1>2. QED
    BY <1>1, SnapshotInvariant, PTL

(* A rotation in progress is seen only in the memory of the instance whose *)
(* mutex it holds: no failure, reload, overwrite or restart leaves an      *)
(* identity in renewing (Rotate, persistLocked, restoreLocked).            *)
THEOREM NoneEverStuck == ASSUME LockedPersists \/ Sequential PROVE Spec => []NoneStuck
  <1>1. TypeInv /\ MemInv => NoneStuck
    <2> SUFFICES ASSUME TypeInv, MemInv, NEW id \in Ids
                 PROVE  /\ Settled(snapshot, id)
                        /\ \A i \in Instances :
                             \/ Settled(mem[i], id)
                             \/ \E t \in lock[i] : call[t].pc = "rotating" /\ call[t].id = id
      BY DEF NoneStuck
    <2>1. ASSUME NEW i \in Instances
          PROVE  \/ Settled(mem[i], id)
                 \/ \E t \in lock[i] : call[t].pc = "rotating" /\ call[t].id = id
      BY DEF MemInv, Alone, AllSettled, OnlyRun
    <2>2. QED
      BY <2>1 DEF MemInv, AllSettled
  <1>2. QED
    BY <1>1, SnapshotInvariant, PTL

(* The mutex is held by the call inside Rotate: nobody else writes there.  *)
LEMMA UndisturbedStep ==
    ASSUME TypeInv, CallInv, Next, NEW t \in Threads,
           call[t].pc = "rotating", call'[t].pc = "rotating"
    PROVE  mem'[Host[t]] = mem[Host[t]]
  <1>1. Host[t] \in Instances /\ lock[Host[t]] = {t}
    BY CallType DEF CallInv
  <1>2. ASSUME NEW u \in Threads, Quiet(u) PROVE mem'[Host[t]] = mem[Host[t]]
    BY <1>1, <1>2 DEF Quiet, Critical, Unlocked
  <1>3. ASSUME NEW u \in Threads, NEW m, SetMem(u, m), Host[u] # Host[t]
        PROVE  mem'[Host[t]] = mem[Host[t]]
    BY <1>1, <1>3, CallType DEF SetMem, TypeInv, TypeOK
  <1>4. ASSUME NEW u \in Threads, NEW id \in Ids, RotateBegin(u, id)
        PROVE  mem'[Host[t]] = mem[Host[t]]
    BY <1>1, <1>3, <1>4 DEF RotateBegin, Unlocked
  <1>5. ASSUME NEW u \in Threads, RotateFail(u) PROVE mem'[Host[t]] = mem[Host[t]]
    <2>1. u # t
      BY <1>5, ReturnType DEF RotateFail, NoCall
    <2>2. Host[u] # Host[t]
      BY <1>1, <1>5, <2>1 DEF RotateFail, CallInv
    <2>3. QED
      BY <1>3, <1>5, <2>2 DEF RotateFail, persistLocked
  <1>6. ASSUME NEW u \in Threads, RotateSucceed(u) PROVE mem'[Host[t]] = mem[Host[t]]
    <2>1. u # t
      <3>1. \E view : call' = [call EXCEPT ![u] = [call[u] EXCEPT !.pc = "consume",
                                                                   !.view = view]]
        BY <1>6, Zenon DEF RotateSucceed, Proceed
      <3>2. call'[u].pc = "consume"
        BY <3>1, CallType DEF TypeInv, TypeOK, Call
      <3>3. QED
        BY <3>2
    <2>2. Host[u] # Host[t]
      BY <1>1, <1>6, <2>1 DEF RotateSucceed, CallInv
    <2>3. QED
      BY <1>3, <1>6, <2>2 DEF RotateSucceed
  <1>7. ASSUME NEW i \in Instances, Environment(i) PROVE mem'[Host[t]] = mem[Host[t]]
    BY <1>1, <1>7, NoCallType
    DEF Environment, WatchLoad, WatchRestore, LoseNotice, Restart, TypeInv, TypeOK
  <1>8. QED
    BY <1>2, <1>4, <1>5, <1>6, <1>7, Effects DEF Rotating

(* While a call is inside the provider's Rotate the memory it works on is  *)
(* its own, Provision included ("so the renewing state cannot be mutated   *)
(* concurrently").                                                         *)
THEOREM RotationUndisturbed == Spec => RenewingUndisturbed
  <1> DEFINE Kept == \A t \in Threads :
                       call[t].pc = "rotating" /\ call'[t].pc = "rotating" =>
                         mem'[Host[t]] = mem[Host[t]]
  <1>1. TypeInv /\ CallInv /\ [Next]_vars => [Kept]_vars
    BY UndisturbedStep
  <1>2. TypeInv /\ CallInv /\ [Next]_vars => (TypeInv /\ CallInv)'
    BY TypeStep, CallStep
  <1>3. QED
    BY <1>1, <1>2, Initially, PTL DEF Spec, RenewingUndisturbed

(* Every variable of the store keeps its type, whatever the callers, the   *)
(* vaults, the repository and the restarts do.                             *)
THEOREM TypeCorrect == Spec => []TypeOK
  <1>1. TypeInv => TypeOK
    BY DEF TypeInv
  <1>2. QED
    BY <1>1, Initially, TypeStep, PTL DEF Spec
=============================================================================
