---------------------------- MODULE LifecycleProofs ----------------------------
(***************************************************************************)
(* Theorems about Store that need its configuration.  The in-memory store, *)
(* which has no vault and no repository, implements the canonical          *)
(* lifecycle, keeps its audit trail and loses a healthy record's key to    *)
(* nothing but a retirement, for any number of concurrent callers.  A      *)
(* process that serves one call at a time files every secret under its own *)
(* name, keeps its audit trail and what the repository has saved of it     *)
(* and, as far as its writes land, follows the lifecycle, with every       *)
(* operation and vault.  In any configuration a retired record is brought  *)
(* back only by a copy of it that is written back.                         *)
(***************************************************************************)
EXTENDS StoreProofs

(* No vault and no repository is configured, and identities come from      *)
(* discovery and from Provision, which gives each its own name.  (A        *)
(* Register of a name whose Delete is under way may see its record purged  *)
(* by a second Delete, which checks the state before it gives up the       *)
(* mutex.)                                                                 *)
InMemory ==
    /\ NativeResults \cup CommonResults \subseteq {"unsupported"}
    /\ PersistResults = {"none"}
    /\ "register" \notin Ops

-----------------------------------------------------------------------------
(* The invariant.  Nothing is reloaded.  No call reaches the write-back of *)
(* vault references or an audited use; a call inside the provider's Rotate *)
(* works on a renewing record; a Delete past its check works on a record   *)
(* that is retired or gone and that nobody can provision again; an         *)
(* identity being provisioned is governed nowhere and by nobody else.      *)
Governed(i, id) == mem[i].identities[id].state # "absent"

Deleting(c) == c.op = "delete" /\ c.pc \in {"revoke", "revokeCommon", "purge"}

Known == \A i \in Instances, id \in Ids : Governed(i, id) => issued[id] # {}

Plain(c) ==
    /\ c.pc \notin {"record", "audit"}
    /\ c.pc \in {"consume", "adopt", "deliver", "mirror"} => c.view.refs = {}
    /\ c.pc = "purge" => c.op = "delete"
    /\ c.pc = "adopt" => c.op = "provision"

Renewed(t) ==
    call[t].pc = "rotating" => mem[Host[t]].identities[call[t].id].state = "renewing"

Doomed(t) ==
    Deleting(call[t]) =>
      /\ issued[call[t].id] # {}
      /\ mem[Host[t]].identities[call[t].id].state \in {"retired", "absent"}

Unborn(t) ==
    call[t].pc = "adopt" =>
      /\ issued[call[t].id] # {}
      /\ \A i \in Instances : ~ Governed(i, call[t].id)
      /\ \A u \in Threads \ {t} :
           call[u].pc = "adopt" \/ Deleting(call[u]) => call[u].id # call[t].id

LifeInv ==
    /\ Known /\ Still
    /\ \A t \in Threads : Plain(call[t]) /\ Renewed(t) /\ Doomed(t) /\ Unborn(t)

-----------------------------------------------------------------------------
(* What a step does.  Writes: thread t, while nobody else on its instance  *)
(* is inside the provider's Rotate, writes one record of its memory.       *)
Others(t) == \A u \in Threads \ {t} : call'[u] = call[u]

Writes(t, id, identity) ==
    /\ \A u \in Threads \ {t} : call[u].pc = "rotating" => Host[u] # Host[t]
    /\ identity \in Identity
    /\ mem'[Host[t]].identities = [mem[Host[t]].identities EXCEPT ![id] = identity]
    /\ \A i \in Instances \ {Host[t]} : mem'[i] = mem[i]
    /\ Others(t)

(* The events a step adds are about identity id.                           *)
Audits(t, id) ==
    \A e \in mem'[Host[t]].events : e \in mem[Host[t]].events \/ e.id = id

Begins(t, id) ==
    /\ mem[Host[t]].identities[id].state = "active"
    /\ \E identity \in Identity : /\ identity.state = "renewing"
                                  /\ Writes(t, id, identity)
    /\ Audits(t, id)
    /\ mem[Host[t]].runs \subseteq mem'[Host[t]].runs
    /\ call'[t].pc = "rotating" /\ call'[t].id = id
    /\ UNCHANGED <<issued, live>>

Fails(t, identity) == call'[t].pc = "idle" /\ identity.health = "attention"

Succeeds(t, identity) ==
    /\ call'[t].pc = "consume" /\ call'[t].op = call[t].op
    /\ call'[t].id = call[t].id /\ call'[t].run = call[t].run
    /\ call'[t].view.refs = {}
    /\ identity.key \in live'[call[t].id]
    /\ \E r \in mem'[Host[t]].runs :
         r.n = call[t].run /\ r.id = call[t].id /\ r.status = "succeeded"

Ends(t) ==
    /\ call[t].pc = "rotating"
    /\ \E identity \in Identity :
         /\ identity.state = "active"
         /\ Writes(t, call[t].id, identity)
         /\ Fails(t, identity) \/ Succeeds(t, identity)
    /\ Audits(t, call[t].id)
    /\ \A r \in mem[Host[t]].runs : r.n # call[t].run => r \in mem'[Host[t]].runs
    /\ \A id \in Ids : issued[id] \subseteq issued'[id]
    /\ \A id \in Ids \ {call[t].id} : live'[id] = live[id]

Retires(t, id) ==
    /\ mem[Host[t]].identities[id].state \in {"active", "renewing"}
    /\ \E identity \in Identity : identity.state = "retired" /\ Writes(t, id, identity)
    /\ Audits(t, id)
    /\ UNCHANGED issued /\ mem'[Host[t]].runs = mem[Host[t]].runs
    /\ call'[t].pc = "idle" \/ (call'[t].op = "retire" /\ call'[t].pc = "revoke")
    /\ \A x \in Ids \ {id} : live'[x] = live[x]

Adopts(t) ==
    /\ call[t].pc = "adopt"
    /\ Writes(t, call[t].id, call[t].view)
    /\ Audits(t, call[t].id)
    /\ mem'[Host[t]].runs = mem[Host[t]].runs
    /\ call'[t].pc = "deliver" /\ call'[t].view = call[t].view
    /\ call'[t].op = call[t].op /\ call'[t].id = call[t].id
    /\ UNCHANGED <<issued, live>>

Purges(t) ==
    /\ call[t].pc = "purge"
    /\ Governed(Host[t], call[t].id)
    /\ Writes(t, call[t].id, NoIdentity)
    /\ \A e \in mem'[Host[t]].events : e \in mem[Host[t]].events /\ e.id # call[t].id
    /\ \A r \in mem[Host[t]].runs : r.id # call[t].id => r \in mem'[Host[t]].runs
    /\ call'[t].pc = "idle"
    /\ UNCHANGED <<issued, live>>

Creates(t, id) ==
    /\ issued[id] = {} /\ \A i \in Instances : ~ Governed(i, id)
    /\ UNCHANGED mem
    /\ Others(t)
    /\ call'[t].pc = "adopt" /\ call'[t].id = id /\ call'[t].view.refs = {}
    /\ call'[t].op = "provision"
    /\ issued'[id] # {} /\ call'[t].view.key \in live'[id]
    /\ \A x \in Ids \ {id} : issued'[x] = issued[x] /\ live'[x] = live[x]

Rejects(t) ==
    /\ call[t].pc = "adopt"
    /\ UNCHANGED <<mem, issued>>
    /\ Others(t) /\ call'[t].pc = "idle"
    /\ \A id \in Ids \ {call[t].id} : live'[id] = live[id]

(* A step of a call that changes no record.                                *)
Follows(t, c, d) ==
    \/ d.pc = "idle"
    \/ d.pc = "read" /\ d.op = "use"
    \/ /\ d.pc = "revoke" /\ d.op = "delete" /\ d.id \in Ids
       /\ mem[Host[t]].identities[d.id].state = "retired"
    \/ /\ d.id = c.id /\ d.op = c.op /\ d.run = c.run /\ d.view = c.view
       /\ <<c.pc, d.pc>> \in {<<"consume", "persist">>, <<"consume", "deliver">>,
                              <<"deliver", "mirror">>, <<"mirror", "persist">>,
                              <<"revoke", "revokeCommon">>}
    \/ /\ d.id = c.id /\ d.op = c.op /\ c.op = "delete"
       /\ c.pc = "revokeCommon" /\ d.pc = "purge"
    \/ d.pc \in {"copyIdentities", "copyEvents", "copyRuns", "save"}

Moves(t) == UNCHANGED <<mem, issued, live>> /\ Others(t) /\ Follows(t, call[t], call'[t])

Step(t) ==
    \/ \E id \in Ids : Begins(t, id) \/ Retires(t, id) \/ Creates(t, id)
                       \/ RetireFail(t, id)
    \/ Ends(t) \/ Adopts(t) \/ Purges(t) \/ Rejects(t) \/ Moves(t)

(* The mutex keeps a writer apart from a rotation.                         *)
LEMMA Apart ==
    ASSUME CallInv, NEW t \in Threads, Unlocked(t) \/ call[t].pc = "rotating"
    PROVE  \A u \in Threads \ {t} : call[u].pc = "rotating" => Host[u] # Host[t]
  BY DEF CallInv, Unlocked

LEMMA WritesOne ==
    ASSUME TypeInv, CallInv, NEW t \in Threads, NEW id \in Ids, NEW identity \in Identity,
           Unlocked(t) \/ call[t].pc = "rotating", NEW m \in Memory, SetMem(t, m),
           m.identities = [mem[Host[t]].identities EXCEPT ![id] = identity], Others(t)
    PROVE  Writes(t, id, identity) /\ mem'[Host[t]] = m
  BY Apart, SetMemType DEF Writes, TypeInv

LEMMA BeginsStep ==
    ASSUME TypeInv, CallInv, NEW t \in Threads, NEW id \in Ids, RotateBegin(t, id)
    PROVE  Begins(t, id)
  <1> DEFINE m == mem[Host[t]]
             identity == [m.identities[id] EXCEPT !.state = "renewing"]
             c == [NoCall EXCEPT !.pc = "rotating", !.op = "rotate", !.id = id,
                     !.view = identity, !.run = m.nextRun + 1]
  <1>1. /\ SetMem(t, startRun(m, id)) /\ Unlocked(t) /\ UNCHANGED <<issued, live>>
        /\ call' = [call EXCEPT ![t] = c]
        /\ CanTransition(m.identities[id].state, "renewing")
    BY Zenon DEF RotateBegin, Proceed, provider
  <1>2. m \in Memory /\ m.identities[id] \in Identity
    BY CallType DEF Memory
  <1>3. identity \in Identity /\ identity.state = "renewing"
    BY <1>2 DEF Identity, States
  <1>4. /\ startRun(m, id) \in Memory /\ m.runs \subseteq startRun(m, id).runs
        /\ startRun(m, id).identities = [m.identities EXCEPT ![id] = identity]
        /\ \A e \in startRun(m, id).events : e \in m.events \/ e.id = id
    <2> DEFINE s == startRun(m, id)
               n == m.nextRun + 1
               e == [n |-> m.nextEvent + 1, id |-> id, kind |-> "requested",
                     outcome |-> "in_progress", run |-> n]
               f == [n |-> m.nextEvent + 2, id |-> id, kind |-> "started",
                     outcome |-> "in_progress", run |-> n]
    <2>1. s \in Memory /\ m.runs \subseteq s.runs
      <3>1. /\ s \in Memory
            /\ s.runs = m.runs \cup
                 {[n |-> m.nextRun + 1, id |-> id, status |-> "running", key |-> 0]}
        BY <1>2, StartRunFields, Zenon
      <3> HIDE DEF s
      <3>2. QED
        BY <3>1
    <2>2. s.identities = [m.identities EXCEPT ![id] = identity]
      <3>1. s.identities = [m.identities EXCEPT ![id] = [@ EXCEPT !.state = "renewing"]]
        BY <1>2, StartRunFields
      <3> HIDE DEF s
      <3>2. QED
        BY <3>1, Zenon
    <2>3. s.events = m.events \cup {e, f}
      BY <1>2, StartRunFields
    <2>4. e.id = id /\ f.id = id
      OBVIOUS
    <2> HIDE DEF s, e, f
    <2>5. QED
      BY <2>1, <2>2, <2>3, <2>4 DEF s
  <1>5. c.pc = "rotating" /\ c.id = id
    BY DEF NoCall
  <1> HIDE DEF c, identity
  <1>6. call'[t] = c /\ Others(t)
    BY <1>1 DEF Others, TypeInv, TypeOK
  <1>7. Writes(t, id, identity) /\ mem'[Host[t]] = startRun(m, id)
    BY <1>1, <1>3, <1>4, <1>6, WritesOne
  <1>8. m.identities[id].state = "active"
    BY <1>1 DEF CanTransition, AllowedTransitions
  <1>9. QED
    BY <1>1, <1>3, <1>4, <1>5, <1>6, <1>7, <1>8 DEF Begins, Audits

LEMMA FinishKeeps ==
    ASSUME NEW m \in Memory, NEW id \in Ids, NEW n \in Nat, NEW key \in Nat,
           NEW identity \in Identity, NEW status \in {"succeeded", "failed"}
    PROVE  LET f == finishRun(setIdentity(m, id, identity), id, n, status, key)
           IN  /\ f \in Memory
               /\ f.identities = [m.identities EXCEPT ![id] = identity]
               /\ \A e \in f.events : e \in m.events \/ e.id = id
               /\ \A r \in m.runs : r.n # n => r \in f.runs
               /\ \E r \in f.runs : r.n = n /\ r.id = id /\ r.status = status
  <1> DEFINE s == setIdentity(m, id, identity)
             f == finishRun(s, id, n, status, key)
             r == [n |-> n, id |-> id, status |-> status, key |-> key]
             kind == Terminal(status)
             outcome == IF status = "succeeded" THEN "success" ELSE "failure"
             e == [n |-> s.nextEvent + 1, id |-> id, kind |-> kind,
                   outcome |-> outcome, run |-> n]
  <1>1. /\ s \in Memory /\ s.identities = [m.identities EXCEPT ![id] = identity]
        /\ s.events = m.events /\ s.runs = m.runs
    BY SetIdentityFields
  <1> HIDE DEF s
  <1>2. /\ f \in Memory /\ f.identities = s.identities
        /\ f.events = s.events \cup {e}
        /\ f.runs = {q \in s.runs : q.n # n} \cup {r}
    BY <1>1, FinishRunFields
  <1>3. r.n = n /\ r.id = id /\ r.status = status /\ e.id = id
    OBVIOUS
  <1> HIDE DEF f, r, e
  <1>4. QED
    BY <1>1, <1>2, <1>3 DEF f, s

(* The end of a rotation, whatever the provider said.                      *)
LEMMA FinishWrites ==
    ASSUME TypeInv, CallInv, NEW t \in Threads, call[t].pc = "rotating",
           NEW identity \in Identity, NEW status \in {"succeeded", "failed"},
           NEW key \in Nat, Others(t),
           SetMem(t, finishRun(setIdentity(mem[Host[t]], call[t].id, identity),
                               call[t].id, call[t].run, status, key))
    PROVE  /\ Writes(t, call[t].id, identity)
           /\ Audits(t, call[t].id)
           /\ \A r \in mem[Host[t]].runs : r.n # call[t].run => r \in mem'[Host[t]].runs
           /\ \E r \in mem'[Host[t]].runs :
                r.n = call[t].run /\ r.id = call[t].id /\ r.status = status
  <1>1. PICK m \in Memory, id \in Ids, n \in Nat :
          m = mem[Host[t]] /\ id = call[t].id /\ n = call[t].run
    BY CallType
  <1> DEFINE f == finishRun(setIdentity(m, id, identity), id, n, status, key)
  <1>2. /\ f \in Memory
        /\ f.identities = [m.identities EXCEPT ![id] = identity]
        /\ \A e \in f.events : e \in m.events \/ e.id = id
        /\ \A r \in m.runs : r.n # n => r \in f.runs
        /\ \E r \in f.runs : r.n = n /\ r.id = id /\ r.status = status
    BY FinishKeeps
  <1>3. SetMem(t, f)
    BY <1>1
  <1> HIDE DEF f
  <1>4. Writes(t, id, identity) /\ mem'[Host[t]] = f
    BY <1>1, <1>2, <1>3, WritesOne
  <1>5. QED
    BY <1>1, <1>2, <1>4 DEF Audits

LEMMA FailStep ==
    ASSUME TypeInv, CallInv, NEW t \in Threads, RotateFail(t)
    PROVE  Ends(t)
  <1> DEFINE m == mem[Host[t]]
             c == call[t]
             identity == returned(c.view)
             f == finishRun(setIdentity(m, c.id, identity), c.id, c.run, "failed", 0)
             key == nextKey + 1
  <1>1. /\ c.pc = "rotating" /\ persistLocked(t, f) /\ Return(t)
        /\ \/ UNCHANGED provider
           \/ /\ issued' = [issued EXCEPT ![c.id] = @ \cup {key}]
              /\ \/ live' = [live EXCEPT ![c.id] = @ \cup {key}]
                 \/ live' = [live EXCEPT ![c.id] = (@ \ {c.view.key}) \cup {key}]
    BY Zenon DEF RotateFail
  <1>2. c.id \in Ids /\ c.view \in Identity
    BY <1>1, CallType
  <1>3. /\ identity \in Identity /\ identity.state = "active"
        /\ identity.health = "attention"
    BY <1>2 DEF returned, Identity, States
  <1>4. SetMem(t, f) /\ Others(t) /\ call'[t].pc = "idle"
    BY <1>1, ReturnType, NoCallType DEF persistLocked, Others
  <1> HIDE DEF identity
  <1>5. /\ Writes(t, c.id, identity) /\ Audits(t, c.id)
        /\ \A r \in m.runs : r.n # c.run => r \in mem'[Host[t]].runs
    BY <1>1, <1>3, <1>4, FinishWrites
  <1>6. /\ \A id \in Ids : issued[id] \subseteq issued'[id]
        /\ \A id \in Ids \ {c.id} : live'[id] = live[id]
    BY <1>1 DEF provider, TypeInv, TypeOK
  <1>7. QED
    BY <1>1, <1>3, <1>4, <1>5, <1>6 DEF Ends, Fails

LEMMA SucceedStep ==
    ASSUME TypeInv, CallInv, NEW t \in Threads, RotateSucceed(t)
    PROVE  Ends(t)
  <1> DEFINE m == mem[Host[t]]
             c == call[t]
             key == nextKey + 1
             identity == [NoIdentity EXCEPT !.state = "active", !.key = key]
             f == finishRun(setIdentity(m, c.id, identity), c.id, c.run, "succeeded", key)
             d == [c EXCEPT !.pc = "consume", !.view = identity]
  <1>1. /\ c.pc = "rotating" /\ SetMem(t, f) /\ Proceed(t, d)
        /\ issued' = [issued EXCEPT ![c.id] = @ \cup {key}]
        /\ live' = [live EXCEPT ![c.id] = (@ \ {c.view.key}) \cup {key}]
    BY Zenon DEF RotateSucceed
  <1>2. c.id \in Ids /\ c \in Call /\ key \in Nat
    BY <1>1, CallType DEF TypeInv, TypeOK
  <1> HIDE DEF key
  <1>3. /\ identity \in Identity /\ identity.state = "active"
        /\ identity.key = key /\ identity.refs = {}
    BY <1>2 DEF NoIdentity, Identity, States
  <1> HIDE DEF identity
  <1>4. /\ d.pc = "consume" /\ d.view = identity /\ d.op = c.op /\ d.id = c.id
        /\ d.run = c.run
    BY <1>2 DEF Call
  <1> HIDE DEF d
  <1>5. call'[t] = d /\ Others(t)
    BY <1>1 DEF Proceed, Others, TypeInv, TypeOK
  <1>6. /\ Writes(t, c.id, identity) /\ Audits(t, c.id)
        /\ \A r \in m.runs : r.n # c.run => r \in mem'[Host[t]].runs
        /\ \E r \in mem'[Host[t]].runs :
             r.n = c.run /\ r.id = c.id /\ r.status = "succeeded"
    BY <1>1, <1>2, <1>3, <1>5, FinishWrites
  <1>7. /\ \A id \in Ids : issued[id] \subseteq issued'[id]
        /\ \A id \in Ids \ {c.id} : live'[id] = live[id]
        /\ key \in live'[c.id]
    BY <1>1, <1>2 DEF TypeInv, TypeOK
  <1>8. Succeeds(t, identity)
    BY <1>3, <1>4, <1>5, <1>6, <1>7 DEF Succeeds
  <1>9. QED
    BY <1>1, <1>3, <1>6, <1>7, <1>8 DEF Ends

LEMMA EventKeeps ==
    ASSUME NEW m \in Memory, NEW id \in Ids, NEW kind \in EventKinds,
           NEW outcome \in Outcomes
    PROVE  LET a == addEvent(m, id, kind, outcome, 0)
           IN  /\ a \in Memory /\ a.identities = m.identities /\ a.runs = m.runs
               /\ \A e \in a.events : e \in m.events \/ e.id = id
  <1> DEFINE a == addEvent(m, id, kind, outcome, 0)
             e == [n |-> m.nextEvent + 1, id |-> id, kind |-> kind,
                   outcome |-> outcome, run |-> 0]
  <1>1. /\ a \in Memory /\ a.identities = m.identities /\ a.runs = m.runs
        /\ a.events = m.events \cup {e}
    BY AddEventFields
  <1>2. e.id = id
    OBVIOUS
  <1> HIDE DEF a, e
  <1>3. QED
    BY <1>1, <1>2 DEF a

LEMMA RetiresStep ==
    ASSUME TypeInv, CallInv, NEW t \in Threads, NEW id \in Ids, Retire(t, id)
    PROVE  Retires(t, id)
  <1>1. PICK m \in Memory : m = mem[Host[t]]
    BY CallType
  <1> DEFINE identity == [m.identities[id] EXCEPT !.state = "retired", !.key = 0,
                                                  !.health = "attention"]
             s == setIdentity(m, id, identity)
             a == addEvent(s, id, "retired", "success", 0)
  <1>2. /\ Unlocked(t) /\ CanTransition(m.identities[id].state, "retired")
        /\ call[t].pc = "idle"
        /\ live' = [live EXCEPT ![id] = {}] /\ UNCHANGED issued
        /\ SetMem(t, a)
        /\ Enter(t, "retire", id, "revoke", identity) \/ UNCHANGED call
    BY <1>1, Zenon DEF Retire, Start
  <1>3. identity \in Identity /\ identity.state = "retired"
    BY DEF Memory, Identity, States
  <1> HIDE DEF identity
  <1>4. /\ s \in Memory /\ s.identities = [m.identities EXCEPT ![id] = identity]
        /\ s.events = m.events /\ s.runs = m.runs
    BY <1>3, SetIdentityFields
  <1> HIDE DEF s
  <1>5. "retired" \in EventKinds /\ "success" \in Outcomes
    BY DEF EventKinds, Outcomes
  <1>6. /\ a \in Memory /\ a.identities = s.identities /\ a.runs = s.runs
        /\ \A e \in a.events : e \in s.events \/ e.id = id
    BY <1>4, <1>5, EventKeeps
  <1> HIDE DEF a
  <1>7. /\ Others(t)
        /\ call'[t].pc = "idle" \/ (call'[t].op = "retire" /\ call'[t].pc = "revoke")
    <2>1. "retire" \in Operations /\ "revoke" \in Places
      BY DEF Operations, Places
    <2>2. QED
      BY <1>2, <1>3, <2>1, EnterType DEF Others
  <1>8. Writes(t, id, identity) /\ mem'[Host[t]] = a
    BY <1>1, <1>2, <1>3, <1>4, <1>6, <1>7, WritesOne
  <1>9. /\ m.identities[id].state \in {"active", "renewing"}
        /\ \A x \in Ids \ {id} : live'[x] = live[x]
    BY <1>2 DEF CanTransition, AllowedTransitions, TypeInv, TypeOK
  <1>10. QED
    BY <1>1, <1>2, <1>3, <1>4, <1>6, <1>7, <1>8, <1>9 DEF Retires, Audits

LEMMA AdoptsStep ==
    ASSUME TypeInv, CallInv, NEW t \in Threads, ProvisionAdopt(t)
    PROVE  Adopts(t)
  <1>1. call[t].pc = "adopt"
    BY DEF ProvisionAdopt
  <1>2. PICK m \in Memory, id \in Ids, view \in Identity :
          m = mem[Host[t]] /\ id = call[t].id /\ view = call[t].view
    BY <1>1, CallType
  <1> DEFINE s == setIdentity(m, id, view)
             d == addEvent(s, id, "discovered", "success", 0)
             r == addEvent(d, id, "registered", "success", 0)
  <1>3. /\ Unlocked(t) /\ SetMem(t, r) /\ Goto(t, "deliver")
        /\ UNCHANGED <<issued, live>>
    BY <1>2, Zenon DEF ProvisionAdopt, provider
  <1>4. /\ s \in Memory /\ s.identities = [m.identities EXCEPT ![id] = view]
        /\ s.events = m.events /\ s.runs = m.runs
    BY SetIdentityFields
  <1> HIDE DEF s
  <1>5. /\ "discovered" \in EventKinds /\ "registered" \in EventKinds
        /\ "success" \in Outcomes /\ "deliver" \in Places
    BY DEF EventKinds, Outcomes, Places
  <1>6. /\ d \in Memory /\ d.identities = s.identities /\ d.runs = s.runs
        /\ \A e \in d.events : e \in s.events \/ e.id = id
    BY <1>4, <1>5, EventKeeps
  <1> HIDE DEF d
  <1>7. /\ r \in Memory /\ r.identities = d.identities /\ r.runs = d.runs
        /\ \A e \in r.events : e \in d.events \/ e.id = id
    BY <1>5, <1>6, EventKeeps
  <1> HIDE DEF r
  <1>8. /\ Others(t) /\ call'[t] = [call[t] EXCEPT !.pc = "deliver"]
    BY <1>1, <1>3, <1>5, GotoType DEF Others
  <1>9. /\ call'[t].pc = "deliver" /\ call'[t].view = view
        /\ call'[t].op = call[t].op /\ call'[t].id = id
    BY <1>2, <1>8, CallType DEF Call
  <1>10. Writes(t, id, view) /\ mem'[Host[t]] = r
    BY <1>2, <1>3, <1>4, <1>6, <1>7, <1>8, WritesOne
  <1>11. QED
    BY <1>1, <1>2, <1>3, <1>4, <1>6, <1>7, <1>9, <1>10 DEF Adopts, Audits

LEMMA PurgesStep ==
    ASSUME TypeInv, CallInv, NEW t \in Threads, DeletePurge(t)
    PROVE  Purges(t) \/ Moves(t)
  <1>1. call[t].pc = "purge" /\ Unlocked(t) /\ Return(t) /\ UNCHANGED <<issued, live>>
    BY DEF DeletePurge, provider
  <1>2. PICK m \in Memory, id \in Ids : m = mem[Host[t]] /\ id = call[t].id
    BY <1>1, CallType
  <1>3. call'[t].pc = "idle" /\ Others(t)
    BY <1>1, ReturnType, NoCallType DEF Others
  <1>4. CASE m.identities[id].state = "absent"
    <2>1. UNCHANGED mem
      BY <1>2, <1>4 DEF DeletePurge
    <2>2. QED
      BY <1>1, <1>3, <2>1 DEF Moves, Follows
  <1>5. CASE m.identities[id].state # "absent"
    <2> DEFINE p == purge(m, id)
    <2>1. SetMem(t, p) /\ Governed(Host[t], call[t].id)
      BY <1>2, <1>5 DEF DeletePurge, persistLocked, Governed
    <2>2. /\ p \in Memory
          /\ p.identities = [m.identities EXCEPT ![id] = NoIdentity]
          /\ p.events = {e \in m.events : e.id # id}
          /\ p.runs = {r \in m.runs : r.id # id}
      BY PurgeFields
    <2> HIDE DEF p
    <2>3. Writes(t, id, NoIdentity) /\ mem'[Host[t]] = p
      BY <1>1, <1>2, <1>3, <2>1, <2>2, EmptyMemoryType, WritesOne
    <2>4. QED
      BY <1>1, <1>2, <1>3, <2>1, <2>2, <2>3 DEF Purges
  <1>6. QED
    BY <1>4, <1>5

LEMMA CreatesStep ==
    ASSUME TypeInv, CallInv, NEW t \in Threads, NEW id \in Ids, ProvisionCreate(t, id)
    PROVE  Creates(t, id)
  <1> DEFINE key == nextKey + 1
             identity == [NoIdentity EXCEPT !.state = "active", !.key = key]
             c == [NoCall EXCEPT !.pc = "adopt", !.op = "provision", !.id = id,
                                 !.view = identity, !.secret = key]
  <1>1. /\ issued[id] = {} /\ \A i \in Instances : ~ Governed(i, id)
        /\ issued' = [issued EXCEPT ![id] = {key}] /\ live' = [live EXCEPT ![id] = {key}]
        /\ call' = [call EXCEPT ![t] = c] /\ UNCHANGED mem
    BY DEF ProvisionCreate, Proceed, Governed
  <1>2. identity.key = key /\ identity.refs = {}
    BY DEF NoIdentity
  <1>3. c.pc = "adopt" /\ c.id = id /\ c.view = identity /\ c.op = "provision"
    BY DEF NoCall
  <1> HIDE DEF key, identity, c
  <1>4. call'[t] = c /\ Others(t)
    BY <1>1 DEF Others, TypeInv, TypeOK
  <1>5. /\ issued'[id] = {key} /\ live'[id] = {key}
        /\ \A x \in Ids \ {id} : issued'[x] = issued[x] /\ live'[x] = live[x]
    BY <1>1 DEF TypeInv, TypeOK
  <1>6. QED
    BY <1>1, <1>2, <1>3, <1>4, <1>5 DEF Creates

LEMMA RejectsStep ==
    ASSUME TypeInv, NEW t \in Threads, ProvisionReject(t) PROVE Rejects(t)
  <1>1. /\ call[t].pc = "adopt" /\ Return(t) /\ UNCHANGED <<mem, issued>>
        /\ live' = [live EXCEPT ![call[t].id] = {}] \/ UNCHANGED live
    BY DEF ProvisionReject
  <1>2. call'[t].pc = "idle" /\ Others(t)
    BY <1>1, ReturnType, NoCallType DEF Others
  <1>3. QED
    BY <1>1, <1>2 DEF Rejects, TypeInv, TypeOK

(* The steps of a call that, without vault and repository, change no       *)
(* record.                                                                 *)
LEMMA GotoMoves ==
    ASSUME TypeInv, NEW t \in Threads, NEW place \in Places, Goto(t, place),
           call[t].pc # "idle", UNCHANGED <<mem, issued, live>>,
           LET c == call[t]
           IN  \/ <<c.pc, place>> \in {<<"consume", "persist">>, <<"consume", "deliver">>,
                                       <<"deliver", "mirror">>, <<"mirror", "persist">>,
                                       <<"revoke", "revokeCommon">>}
               \/ c.op = "delete" /\ c.pc = "revokeCommon" /\ place = "purge"
               \/ place \in {"copyIdentities", "copyEvents", "copyRuns", "save"}
    PROVE  Moves(t)
  <1>1. call'[t] = [call[t] EXCEPT !.pc = place] /\ Others(t)
    BY GotoType DEF Others
  <1>2. /\ call'[t].pc = place /\ call'[t].id = call[t].id /\ call'[t].op = call[t].op
        /\ call'[t].run = call[t].run /\ call'[t].view = call[t].view
    BY <1>1, CallType DEF Call
  <1>3. QED
    BY <1>1, <1>2 DEF Moves, Follows

LEMMA ReturnMoves ==
    ASSUME TypeInv, NEW t \in Threads, Return(t), UNCHANGED <<mem, issued, live>>
    PROVE  Moves(t)
  BY ReturnType, NoCallType DEF Moves, Follows, Others

LEMMA MoveSteps ==
    ASSUME InMemory, TypeInv, CallInv, NEW t \in Threads, Plain(call[t])
    PROVE  /\ RotateConsume(t) \/ RotatePersist(t) => Moves(t)
           /\ DeliverToVault(t) \/ MirrorToCommonVault(t) => Moves(t)
           /\ ProvisionSnapshot(t) \/ ProvisionSave(t) => Moves(t)
           /\ RevokeFromVault(t) \/ RevokeFromCommonVault(t) => Moves(t)
           /\ UseRead(t) => Moves(t)
           /\ \A id \in Ids : DeleteBegin(t, id) \/ UseBegin(t, id) => Moves(t)
           /\ ~ RecordReferences(t) /\ ~ UseAudit(t)
  <1> USE DEF provider
  <1>0. call[t] \in Call /\ Host[t] \in Instances /\ mem[Host[t]] \in Memory
    BY CallType
  <1>1. ASSUME RotateConsume(t) PROVE Moves(t)
    <2> DEFINE secret == slot[Host[t]][ProviderOf[call[t].id]]
               place == IF secret = 0 THEN "persist" ELSE "deliver"
               d == [call[t] EXCEPT !.secret = secret, !.pc = place]
    <2>1. /\ call' = [call EXCEPT ![t] = d] /\ call[t].pc = "consume"
          /\ UNCHANGED <<mem, issued, live>>
      BY <1>1, Zenon DEF RotateConsume, Proceed
    <2>2. place \in {"persist", "deliver"}
      OBVIOUS
    <2> HIDE DEF secret, place
    <2>3. /\ d.pc = place /\ d.id = call[t].id /\ d.op = call[t].op
          /\ d.run = call[t].run /\ d.view = call[t].view
      BY <1>0 DEF Call
    <2> HIDE DEF d
    <2>4. call'[t] = d /\ Others(t)
      BY <2>1 DEF Others, TypeInv, TypeOK
    <2>5. QED
      BY <2>1, <2>2, <2>3, <2>4 DEF Moves, Follows
  <1>2. ASSUME RotatePersist(t) PROVE Moves(t)
    <2>1. mem' = mem
      BY <1>0, <1>2 DEF RotatePersist, persistLocked, SetMem, TypeInv, TypeOK
    <2>2. QED
      BY <1>2, <2>1, ReturnMoves DEF RotatePersist
  <1>3. ASSUME NEW w \in {"native", "common"}, Deliver(t, w)
        PROVE  UNCHANGED mem /\ Goto(t, afterDelivery(w, call[t].op, call[t].view.refs))
    BY <1>3, Zenon DEF Deliver, Answers, InMemory
  <1>4. ASSUME DeliverToVault(t) PROVE Moves(t)
    <2>1. "mirror" \in Places
      BY DEF Places
    <2>2. QED
      BY <1>3, <1>4, <2>1, GotoMoves DEF DeliverToVault, afterDelivery
  <1>5. ASSUME MirrorToCommonVault(t) PROVE Moves(t)
    <2>1. call[t].view.refs = {} /\ call[t].pc = "mirror"
      BY <1>5 DEF MirrorToCommonVault, Plain
    <2>2. /\ Goto(t, persistPlace(call[t].op)) /\ UNCHANGED <<mem, issued, live>>
      BY <1>3, <1>5, <2>1 DEF MirrorToCommonVault, afterDelivery
    <2>3. /\ persistPlace(call[t].op) \in {"persist", "copyIdentities"}
          /\ {"persist", "copyIdentities"} \subseteq Places
      BY DEF persistPlace, Places
    <2>4. QED
      BY <2>1, <2>2, <2>3, GotoMoves
  <1>6. ASSUME ProvisionSnapshot(t) PROVE Moves(t)
    <2> DEFINE c == call[t]
               m == mem[Host[t]]
               c1 == [c EXCEPT !.snap.identities = m.identities, !.pc = "copyEvents"]
               c2 == [c EXCEPT !.snap.events = m.events, !.pc = "copyRuns"]
               c3 == [c EXCEPT !.snap.runs = m.runs, !.snap.nextEvent = m.nextEvent,
                               !.snap.nextRun = m.nextRun, !.pc = "save"]
    <2>1. /\ UNCHANGED <<mem, issued, live>>
          /\ \/ call' = [call EXCEPT ![t] = c1] \/ call' = [call EXCEPT ![t] = c2]
             \/ call' = [call EXCEPT ![t] = c3]
      BY <1>6, Zenon DEF ProvisionSnapshot, CopyPart, Proceed
    <2>2. c1.pc = "copyEvents" /\ c2.pc = "copyRuns" /\ c3.pc = "save"
      BY <1>0 DEF Call
    <2> HIDE DEF c1, c2, c3
    <2>3. call'[t] \in {c1, c2, c3} /\ Others(t)
      BY <2>1 DEF Others, TypeInv, TypeOK
    <2>4. QED
      BY <2>1, <2>2, <2>3 DEF Moves, Follows
  <1>7. ASSUME ProvisionSave(t) PROVE Moves(t)
    BY <1>7, ReturnMoves DEF ProvisionSave
  <1>8. ASSUME NEW w \in {"native", "common"}, Revoke(t, w) PROVE UNCHANGED mem
    BY <1>8, Zenon DEF Revoke, Answers, InMemory
  <1>9. ASSUME RevokeFromVault(t) PROVE Moves(t)
    <2>1. "revokeCommon" \in Places
      BY DEF Places
    <2>2. QED
      BY <1>8, <1>9, <2>1, GotoMoves DEF RevokeFromVault
  <1>10. ASSUME RevokeFromCommonVault(t) PROVE Moves(t)
    <2>1. "purge" \in Places
      BY DEF Places
    <2>2. QED
      BY <1>8, <1>10, <2>1, GotoMoves, ReturnMoves DEF RevokeFromCommonVault
  <1>11. ASSUME UseRead(t) PROVE Moves(t)
    <2>1. Return(t) /\ UNCHANGED <<mem, issued, live>>
      BY <1>11, Zenon DEF UseRead, ReadSecret, Answers, InMemory
    <2>2. QED
      BY <2>1, ReturnMoves
  <1>12. ASSUME NEW id \in Ids, DeleteBegin(t, id) \/ UseBegin(t, id) PROVE Moves(t)
    <2> DEFINE identity == mem[Host[t]].identities[id]
    <2>1. /\ identity \in Identity /\ "delete" \in Operations /\ "use" \in Operations
          /\ "revoke" \in Places /\ "read" \in Places
      BY <1>0 DEF Memory, Operations, Places
    <2>2. /\ UNCHANGED <<mem, issued, live>>
          /\ \/ identity.state = "retired" /\ Enter(t, "delete", id, "revoke", identity)
             \/ Enter(t, "use", id, "read", identity)
      BY <1>12 DEF DeleteBegin, UseBegin
    <2>3. CASE Enter(t, "use", id, "read", identity)
      BY <2>1, <2>2, <2>3, EnterType DEF Moves, Follows, Others
    <2>4. CASE identity.state = "retired" /\ Enter(t, "delete", id, "revoke", identity)
      <3>1. call'[t].id = id
        BY <2>4 DEF Enter, Proceed, NoCall, TypeInv, TypeOK
      <3>2. QED
        BY <2>1, <2>2, <2>4, <3>1, EnterType DEF Moves, Follows, Others
    <2>5. QED
      BY <2>2, <2>3, <2>4
  <1>13. ~ RecordReferences(t) /\ ~ UseAudit(t)
    BY DEF RecordReferences, UseAudit, Plain
  <1>14. QED
    BY <1>1, <1>2, <1>4, <1>5, <1>6, <1>7, <1>9, <1>10, <1>11, <1>12, <1>13

(* Every step of the in-memory store.                                      *)
LEMMA Steps ==
    ASSUME InMemory, TypeInv, CallInv, LifeInv, Next
    PROVE  \E t \in Threads : Step(t) /\ UNCHANGED <<notices, watch>>
  <1> USE DEF repository
  <1>1. ASSUME NEW i \in Instances, Environment(i) PROVE FALSE
    BY <1>1 DEF Environment, WatchLoad, WatchRestore, LoseNotice, Restart, LifeInv,
                Still, InMemory
  <1>2. ASSUME NEW t \in Threads, Begin(t) \/ Continue(t) PROVE Step(t)
    <2>1. Plain(call[t])
      BY DEF LifeInv
    <2>2. CASE Begin(t)
      <3>1. PICK id \in Ids : \/ Register(t, id) \/ RotateBegin(t, id)
                              \/ ProvisionCreate(t, id) \/ Retire(t, id)
                              \/ RetireFail(t, id) \/ DeleteBegin(t, id)
                              \/ UseBegin(t, id)
        BY <2>2 DEF Begin
      <3>2. ~ Register(t, id)
        BY DEF Register, Start, InMemory
      <3>3. QED
        BY <2>1, <3>1, <3>2, BeginsStep, RetiresStep, CreatesStep, MoveSteps
        DEF Step
    <2>3. CASE Continue(t)
      BY <2>1, <2>3, FailStep, SucceedStep, AdoptsStep, PurgesStep, RejectsStep, MoveSteps
      DEF Continue, Step
    <2>4. QED
      BY <1>2, <2>2, <2>3
  <1>3. ASSUME NEW t \in Threads, Begin(t) \/ Continue(t)
        PROVE  UNCHANGED <<notices, watch>>
    <2>1. \A m : \A result \in PersistResults : Save(m, result) => UNCHANGED notices
      BY DEF Save, InMemory
    <2>2. QED
      BY <1>3, <2>1
      DEF Begin, Continue, Register, RotateBegin, ProvisionCreate, Retire, RetireFail,
          DeleteBegin, UseBegin, RotateFail, RotateSucceed, RotateConsume, RotatePersist,
          DeliverToVault, MirrorToCommonVault, RecordReferences, ProvisionReject,
          ProvisionAdopt, ProvisionSnapshot, ProvisionSave, RevokeFromVault,
          RevokeFromCommonVault, DeletePurge, UseRead, UseAudit, persistLocked
  <1>4. QED
    BY <1>1, <1>2, <1>3 DEF Next

-----------------------------------------------------------------------------
(* The invariant is inductive.                                             *)

(* A write keeps what the other calls know, when it opens no record that   *)
(* was closed to them: the record was in use, or nobody else deletes or    *)
(* provisions its identity.                                                *)
LEMMA WriteKeeps ==
    ASSUME TypeInv, LifeInv, NEW t \in Threads, NEW id \in Ids, NEW identity,
           Writes(t, id, identity),
           \A x \in Ids : issued[x] \subseteq issued'[x],
           call'[t].pc # "adopt", ~ Deleting(call'[t]),
           \/ identity.state = "absent"
           \/ identity.state = "retired" /\ Governed(Host[t], id)
           \/ mem[Host[t]].identities[id].state \in {"active", "renewing"}
           \/ call[t].pc = "adopt" /\ id = call[t].id,
           identity.state # "absent" => issued[id] # {}
    PROVE  /\ Known'
           /\ \A u \in Threads \ {t} :
                Plain(call[u])' /\ Renewed(u)' /\ Doomed(u)' /\ Unborn(u)'
  <1>1. /\ mem'[Host[t]].identities = [mem[Host[t]].identities EXCEPT ![id] = identity]
        /\ \A i \in Instances \ {Host[t]} : mem'[i] = mem[i]
        /\ \A u \in Threads \ {t} : call'[u] = call[u]
        /\ \A u \in Threads \ {t} : call[u].pc = "rotating" => Host[u] # Host[t]
        /\ Host[t] \in Instances /\ mem[Host[t]].identities \in [Ids -> Identity]
    BY CallType DEF Writes, Others, Memory
  <1>2. ASSUME NEW i \in Instances, NEW x \in Ids
        PROVE  mem'[i].identities[x] = IF i = Host[t] /\ x = id
                                       THEN identity ELSE mem[i].identities[x]
    BY <1>1
  <1>3. Known'
    <2>1. ASSUME NEW i \in Instances, NEW x \in Ids, mem'[i].identities[x].state # "absent"
          PROVE  issued'[x] # {}
      BY <1>2, <2>1 DEF LifeInv, Known, Governed
    <2>2. QED
      BY <2>1 DEF Known, Governed
  <1>4. ASSUME NEW u \in Threads \ {t}
        PROVE  Plain(call[u])' /\ Renewed(u)' /\ Doomed(u)' /\ Unborn(u)'
    <2>0. /\ Host[u] \in Instances /\ call'[u] = call[u]
          /\ call[u].pc # "idle" => call[u].id \in Ids
      BY <1>1, CallType
    <2>1. Plain(call[u])'
      BY <2>0 DEF LifeInv, Plain
    <2>2. Renewed(u)'
      BY <1>1, <2>0 DEF LifeInv, Renewed
    <2>3. Doomed(u)'
      <3>1. SUFFICES ASSUME Deleting(call[u])
                     PROVE  /\ issued'[call[u].id] # {}
                            /\ mem'[Host[u]].identities[call[u].id].state
                                 \in {"retired", "absent"}
        BY <2>0 DEF Doomed
      <3>2. /\ issued[call[u].id] # {} /\ call[u].id \in Ids
            /\ mem[Host[u]].identities[call[u].id].state \in {"retired", "absent"}
        BY <2>0, <3>1 DEF LifeInv, Doomed, Deleting
      <3>3. ~ (call[t].pc = "adopt" /\ call[u].id = call[t].id)
        BY <3>1 DEF LifeInv, Unborn
      <3>4. issued'[call[u].id] # {}
        BY <3>2
      <3>5. mem'[Host[u]].identities[call[u].id].state \in {"retired", "absent"}
        BY <1>2, <2>0, <3>2, <3>3
      <3>6. QED
        BY <3>4, <3>5
    <2>4. Unborn(u)'
      <3>1. SUFFICES ASSUME call[u].pc = "adopt"
                     PROVE  /\ issued'[call[u].id] # {}
                            /\ \A i \in Instances :
                                 mem'[i].identities[call[u].id].state = "absent"
                            /\ \A v \in Threads \ {u} :
                                 call'[v].pc = "adopt" \/ Deleting(call'[v])
                                   => call'[v].id # call[u].id
        BY <2>0 DEF Unborn, Governed
      <3>2. /\ issued[call[u].id] # {} /\ call[u].id \in Ids
            /\ \A i \in Instances : mem[i].identities[call[u].id].state = "absent"
            /\ \A v \in Threads \ {u} :
                 call[v].pc = "adopt" \/ Deleting(call[v]) => call[v].id # call[u].id
        BY <2>0, <3>1 DEF LifeInv, Unborn, Governed
      <3>3. \A v \in Threads \ {u} :
              call'[v].pc = "adopt" \/ Deleting(call'[v]) => call'[v].id # call[u].id
        BY <1>1, <3>2
      <3>4. ASSUME NEW i \in Instances
            PROVE  mem'[i].identities[call[u].id].state = "absent"
        <4>1. CASE i = Host[t] /\ call[u].id = id
          <5>1. ~ (call[t].pc = "adopt" /\ id = call[t].id)
            BY <3>2, <4>1
          <5>2. mem[Host[t]].identities[id].state = "absent"
            BY <1>1, <3>2, <4>1
          <5>3. identity.state = "absent"
            BY <5>1, <5>2 DEF Governed
          <5>4. QED
            BY <1>2, <3>2, <4>1, <5>3
        <4>2. CASE ~ (i = Host[t] /\ call[u].id = id)
          BY <1>2, <3>2, <4>2
        <4>3. QED
          BY <4>1, <4>2
      <3>5. issued'[call[u].id] # {}
        BY <3>2
      <3>6. QED
        BY <3>3, <3>4, <3>5
    <2>5. QED
      BY <2>1, <2>2, <2>3, <2>4
  <1>5. QED
    BY <1>3, <1>4

(* A call about to be something else than a provision or a delete.         *)
Settles(t) == Plain(call[t])' /\ Renewed(t)' /\ Doomed(t)' /\ Unborn(t)'

LEMMA SettlesStep ==
    ASSUME NEW t \in Threads, Plain(call'[t]), call'[t].pc \notin {"adopt", "rotating"},
           ~ Deleting(call'[t])
    PROVE  Settles(t)
  BY DEF Settles, Plain, Renewed, Doomed, Unborn, Deleting

LEMMA LifeStep ==
    ASSUME InMemory, TypeInv, CallInv, LifeInv, Next
    PROVE  LifeInv'
  <1>1. PICK t \in Threads : Step(t) /\ UNCHANGED <<notices, watch>>
    BY Steps
  <1>2. /\ Still' /\ Host[t] \in Instances
        /\ mem[Host[t]].identities \in [Ids -> Identity]
        /\ call[t].pc # "idle" => call[t].id \in Ids
        /\ Plain(call[t]) /\ Renewed(t) /\ Doomed(t) /\ Unborn(t) /\ Known
    BY <1>1, CallType DEF LifeInv, Still, Memory
  <1>3. ASSUME Known', Settles(t),
               \A u \in Threads \ {t} :
                 Plain(call[u])' /\ Renewed(u)' /\ Doomed(u)' /\ Unborn(u)'
        PROVE  LifeInv'
    BY <1>2, <1>3 DEF LifeInv, Settles
  <1>4. ASSUME NEW id \in Ids, Begins(t, id) PROVE LifeInv'
    <2>1. PICK identity \in Identity : identity.state = "renewing" /\ Writes(t, id, identity)
      BY <1>4 DEF Begins
    <2>2. /\ call'[t].pc = "rotating" /\ call'[t].id = id /\ UNCHANGED issued
          /\ mem[Host[t]].identities[id].state = "active"
      BY <1>4 DEF Begins
    <2>3. issued[id] # {}
      BY <1>2, <2>2 DEF Known, Governed
    <2>4. mem'[Host[t]].identities[id].state = "renewing"
      BY <1>2, <2>1 DEF Writes
    <2>5. Settles(t)
      BY <2>2, <2>4 DEF Settles, Plain, Renewed, Doomed, Unborn, Deleting
    <2>6. QED
      BY <1>3, <2>1, <2>2, <2>3, <2>5, WriteKeeps DEF Deleting
  <1>5. ASSUME NEW id \in Ids, Retires(t, id) PROVE LifeInv'
    <2>1. PICK identity \in Identity : identity.state = "retired" /\ Writes(t, id, identity)
      BY <1>5 DEF Retires
    <2>2. /\ call'[t].pc = "idle" \/ (call'[t].op = "retire" /\ call'[t].pc = "revoke")
          /\ UNCHANGED issued
          /\ mem[Host[t]].identities[id].state \in {"active", "renewing"}
      BY <1>5 DEF Retires
    <2>3. issued[id] # {}
      BY <1>2, <2>2 DEF Known, Governed
    <2>4. Settles(t)
      BY <2>2, SettlesStep DEF Plain, Deleting
    <2>5. QED
      BY <1>3, <2>1, <2>2, <2>3, <2>4, WriteKeeps DEF Deleting
  <1>6. ASSUME Ends(t) PROVE LifeInv'
    <2>1. PICK identity \in Identity :
            /\ identity.state = "active" /\ Writes(t, call[t].id, identity)
            /\ Fails(t, identity) \/ Succeeds(t, identity)
      BY <1>6 DEF Ends
    <2>2. /\ call[t].pc = "rotating" /\ \A id \in Ids : issued[id] \subseteq issued'[id]
          /\ call[t].id \in Ids
      BY <1>2, <1>6 DEF Ends
    <2>3. mem[Host[t]].identities[call[t].id].state = "renewing"
      BY <1>2, <2>2 DEF Renewed
    <2>4. issued[call[t].id] # {}
      BY <1>2, <2>2, <2>3 DEF Known, Governed
    <2>5. call'[t].pc \in {"idle", "consume"} /\ Plain(call'[t])
      BY <2>1 DEF Fails, Succeeds, Plain
    <2>6. Settles(t)
      BY <2>5, SettlesStep DEF Deleting
    <2>7. QED
      BY <1>3, <2>1, <2>2, <2>3, <2>4, <2>5, <2>6, WriteKeeps DEF Deleting
  <1>7. ASSUME Adopts(t) PROVE LifeInv'
    <2>1. /\ call[t].pc = "adopt" /\ Writes(t, call[t].id, call[t].view)
          /\ call'[t].pc = "deliver" /\ call'[t].view = call[t].view
          /\ UNCHANGED issued /\ call[t].id \in Ids
      BY <1>2, <1>7 DEF Adopts
    <2>2. issued[call[t].id] # {} /\ Plain(call'[t])
      BY <1>2, <2>1 DEF Unborn, Plain
    <2>3. Settles(t)
      BY <2>1, <2>2, SettlesStep DEF Deleting
    <2>4. QED
      BY <1>3, <2>1, <2>2, <2>3, WriteKeeps DEF Deleting
  <1>8. ASSUME Purges(t) PROVE LifeInv'
    <2>1. /\ call[t].pc = "purge" /\ Writes(t, call[t].id, NoIdentity)
          /\ call'[t].pc = "idle" /\ UNCHANGED issued /\ call[t].id \in Ids
          /\ NoIdentity.state = "absent"
      BY <1>2, <1>8 DEF Purges, NoIdentity
    <2>2. Settles(t)
      BY <2>1, SettlesStep DEF Deleting, Plain
    <2>3. QED
      BY <1>3, <2>1, <2>2, WriteKeeps DEF Deleting
  <1>9. ASSUME NEW id \in Ids, Creates(t, id) PROVE LifeInv'
    <2>1. /\ issued[id] = {} /\ issued'[id] # {} /\ UNCHANGED mem
          /\ \A i \in Instances : mem[i].identities[id].state = "absent"
          /\ \A x \in Ids \ {id} : issued'[x] = issued[x]
          /\ call'[t].pc = "adopt" /\ call'[t].id = id /\ call'[t].view.refs = {}
          /\ call'[t].op = "provision"
          /\ \A u \in Threads \ {t} : call'[u] = call[u]
      BY <1>9 DEF Creates, Governed, Others
    <2>2. \A u \in Threads \ {t} :
            call[u].pc = "adopt" \/ Deleting(call[u]) => call[u].id # id
      BY <2>1 DEF LifeInv, Doomed, Unborn
    <2>3. Known'
      BY <1>2, <2>1 DEF Known, Governed
    <2>4. Settles(t)
      BY <2>1, <2>2 DEF Settles, Plain, Renewed, Doomed, Unborn, Deleting, Governed
    <2>5. ASSUME NEW u \in Threads \ {t}
          PROVE  Plain(call[u])' /\ Renewed(u)' /\ Doomed(u)' /\ Unborn(u)'
      <3>1. /\ call'[u] = call[u] /\ Plain(call[u]) /\ Renewed(u) /\ Doomed(u) /\ Unborn(u)
            /\ call[u].pc # "idle" => call[u].id \in Ids
        BY <2>1, CallType DEF LifeInv
      <3>2. Plain(call[u])' /\ Renewed(u)'
        BY <2>1, <3>1 DEF Plain, Renewed
      <3>3. Doomed(u)'
        BY <2>1, <2>2, <3>1 DEF Doomed, Deleting
      <3>4. Unborn(u)'
        BY <2>1, <2>2, <3>1 DEF Unborn, Deleting, Governed
      <3>5. QED
        BY <3>2, <3>3, <3>4
    <2>6. QED
      BY <1>3, <2>3, <2>4, <2>5
  <1>10. ASSUME UNCHANGED <<mem, issued>>, Others(t), Settles(t),
                call'[t].pc # "adopt",
                Deleting(call'[t]) => \A u \in Threads \ {t} :
                  call[u].pc = "adopt" => call[u].id # call'[t].id
         PROVE  LifeInv'
    <2>1. Known'
      BY <1>2, <1>10 DEF Known, Governed
    <2>2. ASSUME NEW u \in Threads \ {t}
          PROVE  Plain(call[u])' /\ Renewed(u)' /\ Doomed(u)' /\ Unborn(u)'
      <3>1. /\ call'[u] = call[u] /\ Plain(call[u]) /\ Renewed(u) /\ Doomed(u) /\ Unborn(u)
        BY <1>10 DEF LifeInv, Others
      <3>2. Plain(call[u])' /\ Renewed(u)' /\ Doomed(u)'
        BY <1>10, <3>1 DEF Plain, Renewed, Doomed, Deleting
      <3>3. Unborn(u)'
        BY <1>10, <3>1 DEF Unborn, Deleting, Governed, Others
      <3>4. QED
        BY <3>2, <3>3
    <2>3. QED
      BY <1>3, <1>10, <2>1, <2>2
  <1>11. ASSUME Rejects(t) PROVE LifeInv'
    <2>1. Settles(t)
      BY <1>11, SettlesStep DEF Rejects, Plain, Deleting
    <2>2. QED
      BY <1>10, <1>11, <2>1 DEF Rejects, Deleting
  <1>12. ASSUME Moves(t) PROVE LifeInv'
    <2>1. UNCHANGED <<mem, issued>> /\ Others(t) /\ Follows(t, call[t], call'[t])
      BY <1>12 DEF Moves
    <2>2. Plain(call'[t]) /\ call'[t].pc \notin {"adopt", "rotating"}
      BY <1>2, <2>1 DEF Follows, Plain
    <2>3. CASE ~ Deleting(call'[t])
      BY <1>10, <2>1, <2>2, <2>3, SettlesStep
    <2>4. CASE Deleting(call'[t])
      <3>1. /\ call'[t].id \in Ids /\ issued[call'[t].id] # {}
            /\ mem[Host[t]].identities[call'[t].id].state \in {"retired", "absent"}
            /\ \A u \in Threads \ {t} : call[u].pc = "adopt" => call[u].id # call'[t].id
        <4>1. CASE Deleting(call[t]) /\ call'[t].id = call[t].id
          <5>1. \A u \in Threads \ {t} : call[u].pc = "adopt" => call[u].id # call[t].id
            BY <4>1 DEF LifeInv, Unborn
          <5>2. QED
            BY <1>2, <4>1, <5>1 DEF Doomed, Deleting
        <4>2. CASE /\ call'[t].id \in Ids
                   /\ mem[Host[t]].identities[call'[t].id].state = "retired"
          BY <1>2, <4>2 DEF Known, Governed, LifeInv, Unborn
        <4>3. QED
          BY <2>1, <2>4, <4>1, <4>2 DEF Follows, Deleting
      <3>2. Settles(t)
        BY <2>1, <2>2, <3>1 DEF Settles, Plain, Renewed, Doomed, Unborn, Deleting
      <3>3. QED
        BY <1>10, <2>1, <2>2, <3>1, <3>2
    <2>5. QED
      BY <2>3, <2>4
  <1>13. ASSUME NEW id \in Ids, RetireFail(t, id) PROVE LifeInv'
    <2>1. UNCHANGED <<mem, call, issued, notices, watch>>
      BY <1>13 DEF RetireFail, repository
    <2>2. Known' /\ Still'
      BY <2>1 DEF LifeInv, Known, Still, Governed
    <2>3. ASSUME NEW u \in Threads
          PROVE  Plain(call'[u]) /\ Renewed(u)' /\ Doomed(u)' /\ Unborn(u)'
      BY <2>1 DEF LifeInv, Plain, Renewed, Doomed, Unborn, Deleting, Governed
    <2>4. QED
      BY <2>2, <2>3 DEF LifeInv, Plain
  <1>14. QED
    BY <1>1, <1>4, <1>5, <1>6, <1>7, <1>8, <1>9, <1>11, <1>12, <1>13 DEF Step

(* At first boot a governed identity is a discovered one, and its key is   *)
(* its place in the discovery.                                             *)
LEMMA AdoptedKnown ==
    \A id \in Ids : adopted.identities[id].state # "absent" =>
      /\ Discovered[adopted.identities[id].key] = id
      /\ adopted.identities[id].key \in DOMAIN Discovered
  <1> DEFINE found == DOMAIN Discovered
             key(id) == CHOOSE k \in found : Discovered[k] = id
             f == [id \in Ids |->
                     IF \E k \in found : Discovered[k] = id
                     THEN [NoIdentity EXCEPT !.state = "active", !.key = key(id)]
                     ELSE NoIdentity]
  <1>1. adopted.identities = f
    BY DEF adopted, EmptyMemory
  <1>2. ASSUME NEW id \in Ids, f[id].state # "absent"
        PROVE  Discovered[f[id].key] = id /\ f[id].key \in found
    <2>1. \E k \in found : Discovered[k] = id
      BY <1>2 DEF NoIdentity
    <2>2. f[id].key = key(id)
      BY <2>1 DEF NoIdentity
    <2>3. key(id) \in found /\ Discovered[key(id)] = id
      BY <2>1
    <2>4. QED
      BY <2>2, <2>3
  <1>3. QED
    BY <1>1, <1>2

LEMMA LifeInitially == Init => LifeInv
  <1> SUFFICES ASSUME Init PROVE LifeInv
    OBVIOUS
  <1>1. Still
    BY DEF Init, Still, NoWatch
  <1>2. \A t \in Threads : Plain(call[t]) /\ Renewed(t) /\ Doomed(t) /\ Unborn(t)
    BY NoCallType DEF Init, Plain, Renewed, Doomed, Unborn, Deleting
  <1>3. Known
    <2>1. ASSUME NEW id \in Ids, adopted.identities[id].state # "absent"
          PROVE  \E k \in DOMAIN Discovered : Discovered[k] = id
      BY <2>1, AdoptedKnown
    <2>2. QED
      BY <2>1 DEF Init, Known, Governed
  <1>4. QED
    BY <1>1, <1>2, <1>3 DEF LifeInv

LEMMA LifeInvariant ==
    ASSUME InMemory
    PROVE  Spec => [](TypeInv /\ CallInv /\ MemInv /\ LifeInv)
  <1>1. LockedPersists
    BY DEF LockedPersists, InMemory
  <1>2. LifeInv /\ UNCHANGED vars => LifeInv'
    BY DEF vars, LifeInv, Known, Still, Plain, Renewed, Doomed, Unborn, Deleting, Governed
  <1>3. TypeInv /\ CallInv /\ LifeInv /\ [Next]_vars => LifeInv'
    BY <1>2, LifeStep
  <1>4. QED
    BY <1>1, <1>3, Invariant, LifeInitially, PTL DEF Spec

-----------------------------------------------------------------------------
(* The canonical lifecycle.                                                *)
Gov == [x \in Instances \X Ids |-> mem[x[1]].identities[x[2]].state]

LEMMA GovWrites ==
    ASSUME TypeInv, NEW t \in Threads, NEW id \in Ids, NEW identity, Writes(t, id, identity)
    PROVE  /\ <<Host[t], id>> \in Instances \X Ids
           /\ Gov[<<Host[t], id>>] = mem[Host[t]].identities[id].state
           /\ Gov' = [Gov EXCEPT ![<<Host[t], id>>] = identity.state]
  <1>1. /\ Host[t] \in Instances /\ mem[Host[t]].identities \in [Ids -> Identity]
        /\ mem'[Host[t]].identities = [mem[Host[t]].identities EXCEPT ![id] = identity]
        /\ \A i \in Instances \ {Host[t]} : mem'[i] = mem[i]
    BY CallType DEF Writes, Memory
  <1>2. ASSUME NEW x \in Instances \X Ids
        PROVE  Gov'[x] = IF x = <<Host[t], id>> THEN identity.state ELSE Gov[x]
    <2>1. PICK i \in Instances, y \in Ids : x = <<i, y>>
      OBVIOUS
    <2>2. /\ Gov'[x] = mem'[i].identities[y].state
          /\ Gov[x] = mem[i].identities[y].state
      BY <2>1 DEF Gov
    <2>3. QED
      BY <1>1, <2>1, <2>2
  <1>3. /\ Gov' \in [Instances \X Ids -> {Gov'[x] : x \in Instances \X Ids}]
        /\ Gov = [x \in Instances \X Ids |-> Gov[x]]
        /\ Gov' = [x \in Instances \X Ids |-> Gov'[x]]
    BY DEF Gov
  <1>4. QED
    BY <1>1, <1>2, <1>3 DEF Gov

(* The three ways a record may change, as steps of the abstract lifecycle. *)
LEMMA Abstractly ==
    ASSUME NEW x \in Instances \X Ids, NEW to, Gov' = [Gov EXCEPT ![x] = to],
           \/ to \in States /\ CanTransition(Gov[x], to)
           \/ Gov[x] = "absent" /\ to = "active"
           \/ Gov[x] = "retired" /\ to = "absent"
    PROVE  Lifecycle!Next
  <1>1. CASE to \in States /\ CanTransition(Gov[x], to)
    <2>1. Lifecycle!Transition(x, to)
      BY <1>1 DEF Lifecycle!Transition, Lifecycle!CanTransition, CanTransition,
         Lifecycle!AllowedTransitions, AllowedTransitions, Gov
    <2>2. to \in Lifecycle!States
      BY <1>1 DEF States, Lifecycle!States
    <2>3. QED
      BY <2>1, <2>2 DEF Lifecycle!Next
  <1>2. CASE Gov[x] = "absent" /\ to = "active"
    <2>1. Lifecycle!Govern(x)
      BY <1>2 DEF Lifecycle!Govern, Gov
    <2>2. QED
      BY <2>1 DEF Lifecycle!Next
  <1>3. CASE Gov[x] = "retired" /\ to = "absent"
    <2>1. Lifecycle!Delete(x)
      BY <1>3 DEF Lifecycle!Delete, Gov
    <2>2. QED
      BY <2>1 DEF Lifecycle!Next
  <1>4. QED
    BY <1>1, <1>2, <1>3

(* Every step of a call is a step of the lifecycle or leaves it alone.     *)
LEMMA Refines ==
    ASSUME InMemory, TypeInv, CallInv, LifeInv, [Next]_vars
    PROVE  [Lifecycle!Next]_Gov
  <1>0. CASE UNCHANGED vars
    BY <1>0 DEF vars, Gov
  <1>1. SUFFICES ASSUME Next PROVE Lifecycle!Next \/ UNCHANGED Gov
    BY <1>0
  <1>2. PICK t \in Threads : Step(t)
    BY <1>1, Steps
  <1> DEFINE i == Host[t]
  <1>3. /\ call[t].pc # "idle" => call[t].id \in Ids
        /\ Renewed(t) /\ Doomed(t) /\ Unborn(t) /\ Plain(call[t]) /\ i \in Instances
    BY CallType DEF LifeInv
  <1>4. ASSUME NEW id \in Ids, NEW identity, Writes(t, id, identity),
               LET from == mem[i].identities[id].state
               IN  \/ identity.state \in States /\ CanTransition(from, identity.state)
                   \/ from = "absent" /\ identity.state = "active"
                   \/ from = "retired" /\ identity.state = "absent"
        PROVE  Lifecycle!Next
    <2>1. PICK x \in Instances \X Ids, to \in {identity.state} : x = <<i, id>>
      BY <1>3
    <2>2. Gov' = [Gov EXCEPT ![x] = to] /\ Gov[x] = mem[i].identities[id].state
      BY <1>4, <2>1, GovWrites
    <2>3. \/ to \in States /\ CanTransition(Gov[x], to)
          \/ Gov[x] = "absent" /\ to = "active"
          \/ Gov[x] = "retired" /\ to = "absent"
      BY <1>4, <2>1, <2>2
    <2>4. QED
      BY <2>2, <2>3, Abstractly
  <1>5. ASSUME NEW id \in Ids, Begins(t, id) \/ Retires(t, id) PROVE Lifecycle!Next
    BY <1>4, <1>5 DEF Begins, Retires, CanTransition, AllowedTransitions, States
  <1>6. ASSUME Ends(t) PROVE Lifecycle!Next
    <2>1. PICK id \in Ids : id = call[t].id
      BY <1>3, <1>6 DEF Ends
    <2>2. PICK identity \in Identity : identity.state = "active" /\ Writes(t, id, identity)
      BY <1>6, <2>1 DEF Ends
    <2>3. mem[i].identities[id].state = "renewing"
      BY <1>3, <1>6, <2>1 DEF Ends, Renewed
    <2>4. QED
      BY <1>4, <2>2, <2>3 DEF CanTransition, AllowedTransitions, States
  <1>7. ASSUME Adopts(t) PROVE Lifecycle!Next
    <2>1. PICK id \in Ids : id = call[t].id
      BY <1>3, <1>7 DEF Adopts
    <2>2. PICK identity : /\ Writes(t, id, identity) /\ identity.state = "active"
      BY <1>3, <1>7, <2>1 DEF Adopts, CallInv, Sound, Writing
    <2>3. mem[i].identities[id].state = "absent"
      BY <1>3, <1>7, <2>1 DEF Adopts, Unborn, Governed
    <2>4. QED
      BY <1>4, <2>2, <2>3
  <1>8. ASSUME Purges(t) PROVE Lifecycle!Next
    <2>1. PICK id \in Ids : id = call[t].id
      BY <1>3, <1>8 DEF Purges
    <2>2. Writes(t, id, NoIdentity) /\ NoIdentity.state = "absent"
      BY <1>8, <2>1 DEF Purges, NoIdentity
    <2>3. mem[i].identities[id].state = "retired"
      BY <1>3, <1>8, <2>1 DEF Purges, Doomed, Deleting, Plain, Governed
    <2>4. QED
      BY <1>4, <2>2, <2>3
  <1>9. ASSUME Rejects(t) \/ Moves(t) \/ \E id \in Ids : Creates(t, id) \/ RetireFail(t, id)
        PROVE  UNCHANGED Gov
    BY <1>9 DEF Rejects, Moves, Creates, RetireFail, Gov
  <1>10. QED
    BY <1>2, <1>5, <1>6, <1>7, <1>8, <1>9 DEF Step

(* The in-memory store implements the canonical lifecycle, for any number  *)
(* of concurrent callers: a record appears as active, moves only along     *)
(* AllowedTransitions, and disappears only when retired (Provision,        *)
(* Rotate, Retire, Delete).                                                *)
THEOREM ImplementsLifecycle == ASSUME InMemory PROVE Spec => FollowsLifecycle
  <1>1. Init => Lifecycle!Init
    BY AdoptedFields DEF Init, Lifecycle!Init
  <1>2. TypeInv /\ CallInv /\ LifeInv /\ [Next]_vars => [Lifecycle!Next]_Gov
    BY Refines
  <1>3. QED
    BY <1>1, <1>2, LifeInvariant, PTL DEF Spec, FollowsLifecycle, Lifecycle!Spec, Gov

(* In particular retired is terminal: nothing brings a retired record back *)
(* to life (Retire).  With a vault this is false: deliverToVault writes a  *)
(* copy of the record taken before.                                        *)
THEOREM RetiredStaysRetired == ASSUME InMemory PROVE Spec => RetiredIsFinal
  <1> DEFINE RetiredStep == \A i \in Instances : \A id \in Ids :
                              mem[i].identities[id].state = "retired" =>
                                mem'[i].identities[id].state \in {"retired", "absent"}
  <1>1. ASSUME [Lifecycle!Next]_Gov PROVE RetiredStep
    <2> SUFFICES ASSUME NEW i \in Instances, NEW id \in Ids,
                        mem[i].identities[id].state = "retired"
                 PROVE  mem'[i].identities[id].state \in {"retired", "absent"}
      OBVIOUS
    <2> DEFINE x == <<i, id>>
    <2>1. x \in Instances \X Ids /\ Gov[x] = "retired"
      BY DEF Gov
    <2>2. Gov'[x] = mem'[i].identities[id].state
      BY DEF Gov
    <2> HIDE DEF x
    <2>3. CASE UNCHANGED Gov
      BY <2>1, <2>2, <2>3
    <2>4. CASE Lifecycle!Next
      <3>1. PICK y \in Instances \X Ids :
              \/ Lifecycle!Govern(y) \/ Lifecycle!Delete(y)
              \/ \E to \in Lifecycle!States : Lifecycle!Transition(y, to)
        BY <2>4 DEF Lifecycle!Next
      <3>2. PICK to : Gov' = [Gov EXCEPT ![y] = to] /\ (Gov[y] = "retired" => to = "absent")
        BY <3>1 DEF Lifecycle!Govern, Lifecycle!Transition, Lifecycle!Delete,
           Lifecycle!CanTransition, Lifecycle!AllowedTransitions, Gov
      <3>3. Gov = [z \in Instances \X Ids |-> Gov[z]]
        BY DEF Gov
      <3>4. Gov'[x] = IF x = y THEN to ELSE Gov[x]
        BY <2>1, <3>2, <3>3
      <3>5. QED
        BY <2>1, <2>2, <3>2, <3>4
    <2>5. QED
      BY <1>1, <2>3, <2>4
  <1>2. TypeInv /\ CallInv /\ LifeInv /\ [Next]_vars => [RetiredStep]_vars
    BY <1>1, Refines
  <1>3. QED
    BY <1>2, LifeInvariant, PTL DEF Spec, RetiredIsFinal

-----------------------------------------------------------------------------
(* A write that leaves the record governed keeps the audit trail about     *)
(* governed identities when its events are about this record.              *)
LEMMA WriteListed ==
    ASSUME TypeInv, NoOrphanEvents, NEW t \in Threads, NEW id \in Ids, NEW identity,
           Writes(t, id, identity), Audits(t, id), identity.state # "absent"
    PROVE  NoOrphanEvents'
  <1>1. /\ Host[t] \in Instances /\ mem[Host[t]].identities \in [Ids -> Identity]
        /\ mem[Host[t]].events \subseteq Event
    BY CallType DEF Memory
  <1>2. ASSUME NEW e \in mem'[Host[t]].events
        PROVE  mem'[Host[t]].identities[e.id].state # "absent"
    <2>1. CASE e.id = id
      BY <1>1, <2>1 DEF Writes
    <2>2. CASE e.id # id
      <3>1. e \in mem[Host[t]].events /\ e.id \in Ids
        BY <1>1, <2>2 DEF Audits, Event
      <3>2. QED
        BY <1>1, <2>2, <3>1 DEF Writes, NoOrphanEvents
    <2>3. QED
      BY <2>1, <2>2
  <1>3. ASSUME NEW j \in Instances \ {Host[t]} PROVE mem'[j] = mem[j]
    BY DEF Writes
  <1>4. QED
    BY <1>2, <1>3 DEF NoOrphanEvents

LEMMA ListedStep ==
    ASSUME InMemory, TypeInv, CallInv, LifeInv, NoOrphanEvents, [Next]_vars
    PROVE  NoOrphanEvents'
  <1>0. ASSUME UNCHANGED mem PROVE NoOrphanEvents'
    BY <1>0 DEF NoOrphanEvents
  <1>1. SUFFICES ASSUME Next PROVE NoOrphanEvents'
    BY <1>0 DEF vars
  <1>2. PICK t \in Threads : Step(t)
    BY <1>1, Steps
  <1> DEFINE i == Host[t]
  <1>3. call[t].pc # "idle" => call[t].id \in Ids
    BY CallType
  <1>4. ASSUME NEW id \in Ids, Begins(t, id) \/ Retires(t, id) PROVE NoOrphanEvents'
    BY <1>4, WriteListed DEF Begins, Retires
  <1>5. ASSUME Ends(t) PROVE NoOrphanEvents'
    <2>1. PICK id \in Ids : id = call[t].id
      BY <1>3, <1>5 DEF Ends
    <2>2. PICK identity \in Identity : identity.state = "active" /\ Writes(t, id, identity)
      BY <1>5, <2>1 DEF Ends
    <2>3. Audits(t, id)
      BY <1>5, <2>1 DEF Ends
    <2>4. QED
      BY <2>2, <2>3, WriteListed
  <1>6. ASSUME Adopts(t) PROVE NoOrphanEvents'
    <2>1. PICK id \in Ids : id = call[t].id
      BY <1>3, <1>6 DEF Adopts
    <2>2. PICK identity : Writes(t, id, identity) /\ identity.state = "active"
      BY <1>3, <1>6, <2>1 DEF Adopts, CallInv, Sound, Writing
    <2>3. Audits(t, id)
      BY <1>6, <2>1 DEF Adopts
    <2>4. QED
      BY <2>2, <2>3, WriteListed
  <1>7. ASSUME Purges(t) PROVE NoOrphanEvents'
    <2>1. PICK id \in Ids : id = call[t].id
      BY <1>3, <1>7 DEF Purges
    <2>2. /\ Writes(t, id, NoIdentity)
          /\ \A e \in mem'[i].events : e \in mem[i].events /\ e.id # id
      BY <1>7, <2>1 DEF Purges
    <2>3. /\ i \in Instances /\ mem[i].identities \in [Ids -> Identity]
          /\ mem[i].events \subseteq Event
      BY CallType DEF Memory
    <2>4. ASSUME NEW e \in mem'[i].events
          PROVE  mem'[i].identities[e.id].state # "absent"
      <3>1. e \in mem[i].events /\ e.id # id /\ e.id \in Ids
        BY <2>2, <2>3 DEF Event
      <3>2. QED
        BY <2>2, <2>3, <3>1 DEF Writes, NoOrphanEvents
    <2>5. ASSUME NEW j \in Instances \ {i} PROVE mem'[j] = mem[j]
      BY <2>2 DEF Writes
    <2>6. QED
      BY <2>4, <2>5 DEF NoOrphanEvents
  <1>8. ASSUME Rejects(t) \/ Moves(t) \/ \E id \in Ids : Creates(t, id) \/ RetireFail(t, id)
        PROVE  NoOrphanEvents'
    BY <1>0, <1>8 DEF Rejects, Moves, Creates, RetireFail
  <1>9. QED
    BY <1>2, <1>4, <1>5, <1>6, <1>7, <1>8 DEF Step

(* An audit trail about governed identities only.                          *)
Listed(m) == \A e \in m.events : m.identities[e.id].state # "absent"

LEMMA AdoptedListed == Listed(adopted)
  <1> DEFINE found == DOMAIN Discovered
             key(id) == CHOOSE k \in found : Discovered[k] = id
             f == [id \in Ids |->
                     IF \E k \in found : Discovered[k] = id
                     THEN [NoIdentity EXCEPT !.state = "active", !.key = key(id)]
                     ELSE NoIdentity]
             audit(k, n, kind) == [n |-> n, id |-> Discovered[k], kind |-> kind,
                                   outcome |-> "success", run |-> 0]
  <1>1. /\ adopted.identities = f
        /\ adopted.events = {audit(k, 2 * k - 1, "discovered") : k \in found}
                            \cup {audit(k, 2 * k, "registered") : k \in found}
    BY DEF adopted, EmptyMemory
  <1>2. ASSUME NEW e \in adopted.events PROVE \E k \in found : Discovered[k] = e.id
    <2>1. PICK k \in found : \/ e = audit(k, 2 * k - 1, "discovered")
                             \/ e = audit(k, 2 * k, "registered")
      <3> HIDE DEF audit, found, f, key
      <3> QED
        BY <1>1
    <2>2. e.id = Discovered[k]
      BY <2>1
    <2>3. QED
      BY <2>2
  <1>3. ASSUME NEW id \in Ids, \E k \in found : Discovered[k] = id
        PROVE  f[id].state = "active"
    BY <1>3 DEF NoIdentity
  <1>4. Discovered \in Seq(Ids)
    BY StoreAssumption
  <1>5. ASSUME NEW e \in adopted.events PROVE e.id \in Ids /\ f[e.id].state = "active"
    <2>1. PICK k \in found : Discovered[k] = e.id
      BY <1>2
    <2>2. e.id \in Ids
      BY <1>4, <2>1
    <2>3. QED
      BY <1>3, <2>1, <2>2
  <1> HIDE DEF f
  <1>6. \A e \in adopted.events : adopted.identities[e.id].state # "absent"
    BY <1>1, <1>5
  <1>7. QED
    BY <1>6 DEF Listed

(* The audit trail of the in-memory store names governed identities only:  *)
(* Delete drops the events with the record, and no call in progress adds   *)
(* one later for a record it still holds a copy of (addEvent, Delete).     *)
THEOREM EventsAreOwned == ASSUME InMemory PROVE Spec => []NoOrphanEvents
  <1>1. Init => NoOrphanEvents
    BY AdoptedListed DEF Init, NoOrphanEvents, Listed
  <1>2. TypeInv /\ CallInv /\ LifeInv /\ NoOrphanEvents /\ [Next]_vars => NoOrphanEvents'
    BY ListedStep
  <1>3. QED
    BY <1>1, <1>2, LifeInvariant, PTL DEF Spec

-----------------------------------------------------------------------------
(* From the end of its critical section until it returns, a successful     *)
(* Rotate finds its run in memory, or the whole record was purged          *)
(* (finishRun, deliverToVault, persistLocked).                             *)
InDelivery == {"consume", "deliver", "mirror", "record", "persist"}

Delivering(c) == c.op = "rotate" /\ c.pc \in InDelivery

OnRecord(m, id, n) ==
    \/ m.identities[id].state = "absent"
    \/ \E r \in m.runs : r.n = n /\ r.id = id /\ r.status = "succeeded"

RotationRecorded ==
    \A t \in Threads :
        Delivering(call[t]) => OnRecord(mem[Host[t]], call[t].id, call[t].run)

(* Strengthened: the identity of a rotation that is being delivered is not *)
(* the one of a provision in progress, which would bring a purged record   *)
(* back without its runs.                                                  *)
Recorded(u) ==
    Delivering(call[u]) =>
      /\ issued[call[u].id] # {}
      /\ \A v \in Threads : call[v].pc = "adopt" => call[v].id # call[u].id
      /\ OnRecord(mem[Host[u]], call[u].id, call[u].run)

AllRecorded == \A u \in Threads : Recorded(u)

(* A step that leaves identity id governed keeps its succeeded runs.       *)
Keeps(m, n, id) ==
    \/ n.identities[id].state = "absent"
    \/ /\ m.identities[id].state # "absent"
       /\ \A r \in m.runs : r.id = id /\ r.status = "succeeded" => r \in n.runs

LEMMA KeepsRecord ==
    ASSUME NEW t \in Threads, NEW u \in Threads \ {t}, Recorded(u), Others(t),
           TypeInv, \A x \in Ids : issued[x] \subseteq issued'[x],
           call'[t].pc = "adopt" => call'[t].id \in Ids /\ issued[call'[t].id] = {},
           Keeps(mem[Host[u]], mem'[Host[u]], call[u].id)
    PROVE  Recorded(u)'
  <1>1. call'[u] = call[u] /\ \A v \in Threads \ {t} : call'[v] = call[v]
    BY DEF Others
  <1>2. SUFFICES ASSUME Delivering(call[u])
                 PROVE  /\ issued'[call[u].id] # {}
                        /\ \A v \in Threads : call'[v].pc = "adopt" => call'[v].id # call[u].id
                        /\ OnRecord(mem'[Host[u]], call[u].id, call[u].run)
    BY <1>1 DEF Recorded
  <1>3. /\ issued[call[u].id] # {} /\ call[u].id \in Ids
        /\ \A v \in Threads : call[v].pc = "adopt" => call[v].id # call[u].id
        /\ OnRecord(mem[Host[u]], call[u].id, call[u].run)
    BY <1>2, CallType DEF Recorded, Delivering, InDelivery
  <1>4. issued'[call[u].id] # {}
    BY <1>3
  <1>5. ASSUME NEW v \in Threads, call'[v].pc = "adopt" PROVE call'[v].id # call[u].id
    BY <1>1, <1>3, <1>5
  <1>6. OnRecord(mem'[Host[u]], call[u].id, call[u].run)
    BY <1>3 DEF OnRecord, Keeps
  <1>7. QED
    BY <1>4, <1>5, <1>6

LEMMA RecordedStep ==
    ASSUME InMemory, TypeInv, CallInv, MemInv, LifeInv, AllRecorded, Next
    PROVE  AllRecorded'
  <1>1. PICK t \in Threads : Step(t)
    BY Steps
  <1> DEFINE i == Host[t]
  <1>2. /\ i \in Instances /\ mem[i].identities \in [Ids -> Identity]
        /\ call[t].pc # "idle" => call[t].id \in Ids
        /\ Plain(call[t]) /\ Renewed(t) /\ Doomed(t) /\ Unborn(t) /\ Known
    BY CallType DEF LifeInv, Memory
  <1>3. ASSUME Others(t), Recorded(t)', \A x \in Ids : issued[x] \subseteq issued'[x],
               call'[t].pc = "adopt" => call'[t].id \in Ids /\ issued[call'[t].id] = {},
               \A u \in Threads \ {t} :
                 Delivering(call[u]) => Keeps(mem[Host[u]], mem'[Host[u]], call[u].id)
        PROVE  AllRecorded'
    <2>1. ASSUME NEW u \in Threads \ {t} PROVE Recorded(u)'
      <3>1. CASE Delivering(call[u])
        BY <1>3, <3>1, KeepsRecord DEF AllRecorded
      <3>2. CASE ~ Delivering(call[u])
        BY <1>3, <3>2 DEF Recorded, Others
      <3>3. QED
        BY <3>1, <3>2
    <2>2. QED
      BY <1>3, <2>1 DEF AllRecorded
  <1>4. ASSUME UNCHANGED mem, NEW u \in Threads
        PROVE  Keeps(mem[Host[u]], mem'[Host[u]], call[u].id)
    BY <1>4 DEF Keeps
  <1>5. ASSUME NEW u \in Threads \ {t}, Delivering(call[u]),
               NEW id \in Ids, NEW identity, Writes(t, id, identity),
               \/ id # call[u].id
               \/ identity.state = "absent"
               \/ mem[i].identities[id].state # "absent",
               \A r \in mem[i].runs :
                 \/ r.status = "running"
                 \/ r.id = id /\ identity.state = "absent"
                 \/ r \in mem'[i].runs
        PROVE  Keeps(mem[Host[u]], mem'[Host[u]], call[u].id)
    <2>1. /\ mem'[i].identities = [mem[i].identities EXCEPT ![id] = identity]
          /\ \A j \in Instances \ {i} : mem'[j] = mem[j]
          /\ Host[u] \in Instances /\ call[u].id \in Ids
      BY <1>5, CallType DEF Writes, Delivering, InDelivery
    <2>2. CASE Host[u] # i
      BY <2>1, <2>2 DEF Keeps
    <2>3. CASE Host[u] = i
      BY <1>2, <1>5, <2>1, <2>3 DEF Keeps
    <2>4. QED
      BY <2>2, <2>3
  <1>6. ASSUME NEW id \in Ids, Begins(t, id) PROVE AllRecorded'
    <2>1. PICK identity \in Identity : Writes(t, id, identity)
      BY <1>6 DEF Begins
    <2>2. /\ mem[i].identities[id].state = "active" /\ mem[i].runs \subseteq mem'[i].runs
          /\ call'[t].pc = "rotating" /\ UNCHANGED issued /\ Others(t)
      BY <1>6, <2>1 DEF Begins, Writes
    <2>3. Recorded(t)'
      BY <2>2 DEF Recorded, Delivering, InDelivery
    <2>4. QED
      BY <1>3, <1>5, <2>1, <2>2, <2>3
  <1>7. ASSUME NEW id \in Ids, Retires(t, id) PROVE AllRecorded'
    <2>1. PICK identity \in Identity : Writes(t, id, identity)
      BY <1>7 DEF Retires
    <2>2. /\ mem[i].identities[id].state # "absent" /\ mem[i].runs = mem'[i].runs
          /\ call'[t].pc \in {"idle", "revoke"} /\ UNCHANGED issued /\ Others(t)
      BY <1>7, <2>1 DEF Retires, Writes
    <2>3. Recorded(t)'
      BY <2>2 DEF Recorded, Delivering, InDelivery
    <2>4. QED
      BY <1>3, <1>5, <2>1, <2>2, <2>3
  <1>8. ASSUME Ends(t) PROVE AllRecorded'
    <2>1. PICK id \in Ids, n \in Nat : id = call[t].id /\ n = call[t].run
      BY <1>2, <1>8, CallType DEF Ends
    <2>2. PICK identity \in Identity :
            Writes(t, id, identity) /\ (Fails(t, identity) \/ Succeeds(t, identity))
      BY <1>8, <2>1 DEF Ends
    <2>3. /\ mem[i].identities[id].state = "renewing" /\ call[t].pc = "rotating"
          /\ \A x \in Ids : issued[x] \subseteq issued'[x]
          /\ \A r \in mem[i].runs : r.n # n => r \in mem'[i].runs
          /\ call'[t].pc \in {"idle", "consume"} /\ Others(t)
      BY <1>2, <1>8, <2>1, <2>2 DEF Ends, Renewed, Fails, Succeeds, Writes
    <2>4. ASSUME NEW r \in mem[i].runs, r.n = n PROVE r.status = "running"
      <3>1. Open(mem[i], id, n) /\ Numbered(mem[i])
        BY <1>2, <2>1, <2>3 DEF CallInv, MemInv, Alone
      <3>2. QED
        BY <2>4, <3>1 DEF Open, Numbered
    <2>5. ASSUME NEW u \in Threads \ {t}, Delivering(call[u])
          PROVE  Keeps(mem[Host[u]], mem'[Host[u]], call[u].id)
      <3>1. \A r \in mem[i].runs : r.status = "running" \/ r \in mem'[i].runs
        BY <2>3, <2>4
      <3>2. QED
        BY <1>5, <2>2, <2>3, <2>5, <3>1
    <2>6. Recorded(t)'
      <3>1. SUFFICES ASSUME call'[t].pc = "consume"
                     PROVE  /\ issued'[call'[t].id] # {}
                            /\ \A v \in Threads :
                                 call'[v].pc = "adopt" => call'[v].id # call'[t].id
                            /\ OnRecord(mem'[i], call'[t].id, call'[t].run)
        BY <2>3 DEF Recorded, Delivering, InDelivery
      <3>2. Succeeds(t, identity)
        BY <2>2, <3>1 DEF Fails
      <3>3. call'[t].id = id /\ call'[t].run = n
        BY <2>1, <3>2 DEF Succeeds
      <3>4. OnRecord(mem'[i], id, n)
        BY <2>1, <3>2 DEF Succeeds, OnRecord
      <3>5. issued[id] # {} /\ issued[id] \subseteq issued'[id]
        BY <1>2, <2>3 DEF Known, Governed
      <3>6. ASSUME NEW v \in Threads, call'[v].pc = "adopt" PROVE call'[v].id # id
        <4>1. v # t /\ call'[v] = call[v]
          BY <2>3, <3>6 DEF Others
        <4>2. ~ Governed(i, call[v].id)
          BY <1>2, <3>6, <4>1 DEF LifeInv, Unborn
        <4>3. QED
          BY <2>3, <4>1, <4>2 DEF Governed
      <3>7. issued'[id] # {}
        BY <3>5
      <3>8. QED
        BY <3>3, <3>4, <3>6, <3>7
    <2>7. QED
      BY <1>3, <2>3, <2>5, <2>6
  <1>9. ASSUME Adopts(t) PROVE AllRecorded'
    <2>1. PICK id \in Ids : id = call[t].id
      BY <1>2, <1>9 DEF Adopts
    <2>2. PICK identity : Writes(t, id, identity)
      BY <1>9, <2>1 DEF Adopts
    <2>3. /\ mem[i].runs = mem'[i].runs /\ UNCHANGED issued /\ Others(t)
          /\ call'[t].pc = "deliver" /\ call'[t].op = "provision" /\ call[t].pc = "adopt"
      BY <1>2, <1>9, <2>2 DEF Adopts, Writes, Plain
    <2>4. Recorded(t)'
      BY <2>3 DEF Recorded, Delivering
    <2>5. ASSUME NEW u \in Threads, Delivering(call[u]) PROVE id # call[u].id
      BY <2>1, <2>3, <2>5 DEF AllRecorded, Recorded
    <2>6. QED
      BY <1>3, <1>5, <2>2, <2>3, <2>4, <2>5
  <1>10. ASSUME Purges(t) PROVE AllRecorded'
    <2>1. PICK id \in Ids : id = call[t].id
      BY <1>2, <1>10 DEF Purges
    <2>2. /\ Writes(t, id, NoIdentity) /\ NoIdentity.state = "absent"
          /\ UNCHANGED issued /\ Others(t) /\ call'[t].pc = "idle"
          /\ \A r \in mem[i].runs : r.id # id => r \in mem'[i].runs
      BY <1>10, <2>1 DEF Purges, Writes, NoIdentity
    <2>3. Recorded(t)'
      BY <2>2 DEF Recorded, Delivering, InDelivery
    <2>4. QED
      BY <1>3, <1>5, <2>2, <2>3
  <1>11. ASSUME NEW id \in Ids, Creates(t, id) PROVE AllRecorded'
    <2>1. /\ UNCHANGED mem /\ Others(t) /\ issued[id] = {}
          /\ call'[t].pc = "adopt" /\ call'[t].id = id
          /\ \A x \in Ids : issued[x] \subseteq issued'[x]
      BY <1>11 DEF Creates
    <2>2. Recorded(t)'
      BY <2>1 DEF Recorded, Delivering, InDelivery
    <2>3. QED
      BY <1>3, <1>4, <2>1, <2>2
  <1>12. ASSUME Rejects(t) PROVE AllRecorded'
    <2>1. UNCHANGED <<mem, issued>> /\ Others(t) /\ call'[t].pc = "idle"
      BY <1>12 DEF Rejects
    <2>2. Recorded(t)'
      BY <2>1 DEF Recorded, Delivering, InDelivery
    <2>3. QED
      BY <1>3, <1>4, <2>1, <2>2
  <1>13. ASSUME Moves(t) PROVE AllRecorded'
    <2>1. /\ UNCHANGED <<mem, issued>> /\ Others(t) /\ Follows(t, call[t], call'[t])
      BY <1>13 DEF Moves
    <2>2. call'[t].pc # "adopt"
      BY <2>1 DEF Follows
    <2>3. ASSUME Delivering(call'[t])
          PROVE  Delivering(call[t]) /\ call'[t].id = call[t].id /\ call'[t].run = call[t].run
      BY <2>1, <2>3 DEF Follows, Delivering, InDelivery
    <2>4. \A v \in Threads : call'[v].pc = "adopt" => call'[v] = call[v]
      BY <2>1, <2>2 DEF Others
    <2>5. Recorded(t)'
      BY <2>1, <2>3, <2>4 DEF AllRecorded, Recorded
    <2>6. QED
      BY <1>3, <1>4, <2>1, <2>2, <2>5
  <1>14. ASSUME NEW id \in Ids, RetireFail(t, id) PROVE AllRecorded'
    BY <1>14 DEF RetireFail, AllRecorded, Recorded
  <1>15. QED
    BY <1>1, <1>6, <1>7, <1>8, <1>9, <1>10, <1>11, <1>12, <1>13, <1>14 DEF Step

(* A rotation the caller will be told of is on record while its secret is  *)
(* delivered, for any number of concurrent callers of the in-memory store: *)
(* no later rotation, failed or not, and no provision takes its run away   *)
(* (Rotate, finishRun, Delete).                                            *)
THEOREM SuccessIsRecorded == ASSUME InMemory PROVE Spec => []RotationRecorded
  <1>1. Init => AllRecorded
    BY NoCallType DEF Init, AllRecorded, Recorded, Delivering, InDelivery
  <1>2. AllRecorded /\ UNCHANGED vars => AllRecorded'
    BY DEF vars, AllRecorded, Recorded
  <1>3. TypeInv /\ CallInv /\ MemInv /\ LifeInv /\ AllRecorded /\ [Next]_vars => AllRecorded'
    BY <1>2, RecordedStep
  <1>4. AllRecorded => RotationRecorded
    BY DEF AllRecorded, Recorded, RotationRecorded, Delivering, OnRecord
  <1>5. QED
    BY <1>1, <1>3, <1>4, LifeInvariant, PTL DEF Spec

-----------------------------------------------------------------------------
(* Keys of one process: a second one would rotate a key away from under    *)
(* the record of the first.  The key in the hands of a provision works.    *)
OneStore == \A i, j \in Instances : i = j

Handed(u) == call[u].pc = "adopt" => call[u].view.key \in live[call[u].id]

KeysHanded == \A u \in Threads : Handed(u)

(* A step after which no more keys are dead on record, and one after which *)
(* the dead ones are explained.                                            *)
NoneDies ==
    \A i \in Instances, id \in Ids : ShownDead(i, id)' => ShownDead(i, id)

DeathExplained ==
    \A i \in Instances : \A id \in Ids :
        ShownDead(i, id)' => \/ ShownDead(i, id)
                            \/ \E t \in Threads : RetireFail(t, id) \/ Register(t, id)

Works(id, identity) ==
    identity.state = "active" /\ identity.health = "healthy" /\ identity.key # 0
      => identity.key \in live[id]

(* A write that records a working key, or none, changes nobody else's.     *)
LEMMA WriteLive ==
    ASSUME OneStore, TypeInv, NEW t \in Threads, NEW id \in Ids,
           NEW identity, Writes(t, id, identity), Works(id, identity)',
           \A x \in Ids \ {id} : live'[x] = live[x]
    PROVE  NoneDies
  <1>1. /\ Host[t] \in Instances /\ mem[Host[t]].identities \in [Ids -> Identity]
        /\ mem'[Host[t]].identities = [mem[Host[t]].identities EXCEPT ![id] = identity]
        /\ \A i \in Instances : i = Host[t]
    BY CallType DEF Writes, Memory, OneStore
  <1>2. ASSUME NEW i \in Instances, NEW x \in Ids
        PROVE  ShownDead(i, x)' => ShownDead(i, x)
    <2>1. CASE x = id
      BY <1>1, <2>1 DEF Works, ShownDead
    <2>2. CASE x # id
      BY <1>1, <2>2 DEF ShownDead
    <2>3. QED
      BY <2>1, <2>2
  <1>3. QED
    BY <1>2 DEF NoneDies

LEMMA KeysLiveStep ==
    ASSUME InMemory, OneStore, TypeInv, CallInv, LifeInv, KeysHanded, Next
    PROVE  DeathExplained /\ KeysHanded'
  <1>1. PICK t \in Threads : Step(t)
    BY Steps
  <1> DEFINE i == Host[t]
  <1>2. /\ i \in Instances /\ mem[i].identities \in [Ids -> Identity]
        /\ call[t].pc # "idle" => call[t].id \in Ids
        /\ Renewed(t) /\ Unborn(t) /\ Handed(t)
    BY CallType DEF LifeInv, Memory, KeysHanded
  <1>3. ASSUME NEW id \in Ids, Others(t), \A x \in Ids \ {id} : live'[x] = live[x],
               \/ live'[id] = live[id]
               \/ \A u \in Threads \ {t} : call[u].pc = "adopt" => call[u].id # id
        PROVE  \A u \in Threads \ {t} : Handed(u)'
    <2>1. ASSUME NEW u \in Threads \ {t}, call[u].pc = "adopt"
          PROVE  call[u].view.key \in live'[call[u].id]
      <3>1. call[u].view.key \in live[call[u].id] /\ call[u].id \in Ids
        BY <2>1, CallType DEF KeysHanded, Handed
      <3>2. live'[call[u].id] = live[call[u].id]
        BY <1>3, <2>1, <3>1
      <3>3. QED
        BY <3>1, <3>2
    <2>2. QED
      BY <1>3, <2>1 DEF Handed, Others
  <1>4. ASSUME NEW id \in Ids, mem[i].identities[id].state # "absent"
        PROVE  \A u \in Threads : call[u].pc = "adopt" => call[u].id # id
    BY <1>2, <1>4 DEF LifeInv, Unborn, Governed
  <1> DEFINE Good == DeathExplained /\ KeysHanded'
  <1>5. ASSUME Handed(t)', NoneDies, \A u \in Threads \ {t} : Handed(u)'
        PROVE  Good
    BY <1>5 DEF KeysHanded, NoneDies, DeathExplained
  <1>6. ASSUME NEW id \in Ids, Begins(t, id) \/ Retires(t, id) PROVE Good
    <2>1. PICK identity \in Identity :
            identity.state \in {"renewing", "retired"} /\ Writes(t, id, identity)
      BY <1>6 DEF Begins, Retires
    <2>2. /\ \A x \in Ids \ {id} : live'[x] = live[x]
          /\ mem[i].identities[id].state # "absent" /\ call'[t].pc # "adopt" /\ Others(t)
      BY <1>6, <2>1 DEF Begins, Retires, Writes
    <2>3. Works(id, identity)' /\ Handed(t)'
      BY <2>1, <2>2 DEF Works, Handed
    <2>4. \A u \in Threads \ {t} : Handed(u)'
      BY <1>3, <1>4, <2>2
    <2>5. QED
      BY <1>2, <1>5, <2>1, <2>2, <2>3, <2>4, WriteLive
  <1>7. ASSUME Ends(t) PROVE Good
    <2>1. PICK id \in Ids : id = call[t].id
      BY <1>2, <1>7 DEF Ends
    <2>2. PICK identity \in Identity :
            Writes(t, id, identity) /\ (Fails(t, identity) \/ Succeeds(t, identity))
      BY <1>7, <2>1 DEF Ends
    <2>3. /\ \A x \in Ids \ {id} : live'[x] = live[x]
          /\ mem[i].identities[id].state # "absent" /\ Others(t)
      BY <1>2, <1>7, <2>1, <2>2 DEF Ends, Renewed, Writes
    <2>4. Works(id, identity)' /\ Handed(t)'
      BY <2>1, <2>2 DEF Works, Handed, Fails, Succeeds
    <2>5. \A u \in Threads \ {t} : Handed(u)'
      BY <1>3, <1>4, <2>3
    <2>6. QED
      BY <1>2, <1>5, <2>2, <2>3, <2>4, <2>5, WriteLive
  <1>8. ASSUME Adopts(t) PROVE Good
    <2>1. PICK id \in Ids, identity \in Identity :
            id = call[t].id /\ identity = call[t].view
      BY <1>2, <1>8, CallType DEF Adopts
    <2>2. /\ Writes(t, id, identity) /\ UNCHANGED live /\ call'[t].pc = "deliver"
          /\ call[t].pc = "adopt" /\ Others(t)
      BY <1>8, <2>1 DEF Adopts, Writes
    <2>3. Works(id, identity)' /\ Handed(t)'
      BY <1>2, <2>1, <2>2 DEF Works, Handed
    <2>4. \A u \in Threads \ {t} : Handed(u)'
      BY <1>3, <2>2
    <2>5. QED
      BY <1>2, <1>5, <2>2, <2>3, <2>4, WriteLive
  <1>9. ASSUME Purges(t) PROVE Good
    <2>1. PICK id \in Ids : id = call[t].id
      BY <1>2, <1>9 DEF Purges
    <2>2. /\ Writes(t, id, NoIdentity) /\ UNCHANGED live /\ call'[t].pc = "idle"
          /\ Others(t) /\ NoIdentity.state = "absent"
      BY <1>9, <2>1 DEF Purges, Writes, NoIdentity
    <2>3. Works(id, NoIdentity)' /\ Handed(t)'
      BY <2>2 DEF Works, Handed
    <2>4. \A u \in Threads \ {t} : Handed(u)'
      BY <1>3, <2>2
    <2>5. QED
      BY <1>2, <1>5, <2>2, <2>3, <2>4, WriteLive
  <1>10. ASSUME NEW id \in Ids, UNCHANGED mem, \A x \in Ids \ {id} : live'[x] = live[x],
                mem[i].identities[id].state = "absent"
         PROVE  NoneDies
    <2>1. ASSUME NEW j \in Instances, NEW x \in Ids
          PROVE  ShownDead(j, x)' => ShownDead(j, x)
      <3>1. CASE x = id
        BY <1>2, <1>10, <3>1 DEF ShownDead, OneStore
      <3>2. CASE x # id
        BY <1>2, <1>10, <3>2 DEF ShownDead
      <3>3. QED
        BY <3>1, <3>2
    <2>2. QED
      BY <2>1 DEF NoneDies
  <1>11. ASSUME NEW id \in Ids, Creates(t, id) PROVE Good
    <2>1. /\ UNCHANGED mem /\ Others(t) /\ mem[i].identities[id].state = "absent"
          /\ \A x \in Ids \ {id} : live'[x] = live[x]
          /\ call'[t].id = id /\ call'[t].view.key \in live'[id] /\ issued[id] = {}
      BY <1>2, <1>11 DEF Creates, Governed
    <2>2. \A u \in Threads \ {t} : call[u].pc = "adopt" => call[u].id # id
      BY <2>1 DEF LifeInv, Unborn
    <2>3. \A u \in Threads \ {t} : Handed(u)'
      BY <1>3, <2>1, <2>2
    <2>4. Handed(t)'
      BY <2>1 DEF Handed
    <2>5. QED
      BY <1>5, <1>10, <2>1, <2>3, <2>4
  <1>12. ASSUME Rejects(t) PROVE Good
    <2>1. PICK id \in Ids : id = call[t].id
      BY <1>2, <1>12 DEF Rejects
    <2>2. /\ UNCHANGED mem /\ Others(t) /\ mem[i].identities[id].state = "absent"
          /\ \A x \in Ids \ {id} : live'[x] = live[x]
          /\ call'[t].pc = "idle"
          /\ \A u \in Threads \ {t} : call[u].pc = "adopt" => call[u].id # id
      BY <1>2, <1>12, <2>1 DEF Rejects, Unborn, Governed
    <2>3. \A u \in Threads \ {t} : Handed(u)'
      BY <1>3, <2>2
    <2>4. Handed(t)'
      BY <2>2 DEF Handed
    <2>5. QED
      BY <1>5, <1>10, <2>2, <2>3, <2>4
  <1>13. ASSUME Moves(t) PROVE Good
    <2>1. UNCHANGED <<mem, live>> /\ Others(t) /\ call'[t].pc # "adopt"
      BY <1>13 DEF Moves, Follows
    <2>2. NoneDies /\ Handed(t)'
      BY <1>2, <2>1 DEF NoneDies, ShownDead, Handed
    <2>3. \A u \in Threads \ {t} : Handed(u)'
      BY <2>1 DEF KeysHanded, Handed, Others
    <2>4. QED
      BY <1>5, <2>2, <2>3
  <1>14. ASSUME NEW id \in Ids, RetireFail(t, id) PROVE Good
    <2>1. /\ UNCHANGED <<mem, call>> /\ \A x \in Ids \ {id} : live'[x] = live[x]
          /\ mem[i].identities[id].state # "absent"
      BY <1>14 DEF RetireFail, CanTransition, AllowedTransitions, States, TypeInv, TypeOK
    <2>2. KeysHanded'
      BY <1>3, <1>4, <2>1, <1>2 DEF KeysHanded, Handed, Others
    <2>3. ASSUME NEW j \in Instances, NEW x \in Ids, x # id
          PROVE  ShownDead(j, x)' => ShownDead(j, x)
      BY <2>1, <2>3 DEF ShownDead
    <2>4. QED
      BY <1>14, <2>2, <2>3 DEF DeathExplained
  <1>15. QED
    BY <1>1, <1>6, <1>7, <1>8, <1>9, <1>11, <1>12, <1>13, <1>14 DEF Step

(* In one process, whatever its callers do concurrently, no healthy record *)
(* gets a dead key but by a retirement that the provider broke off: a      *)
(* rotation records the key the provider returned or leaves the record     *)
(* flagged, a provision records the key it created (Rotate, Provision,     *)
(* Retire).                                                                *)
THEOREM HealthyKeysWork == ASSUME InMemory, OneStore PROVE Spec => KeysDieByRetirement
  <1>1. Init => KeysHanded
    BY NoCallType DEF Init, KeysHanded, Handed
  <1>2. KeysHanded /\ UNCHANGED vars => KeysHanded'
    BY DEF vars, KeysHanded, Handed
  <1>3. TypeInv /\ CallInv /\ LifeInv /\ KeysHanded /\ [Next]_vars
          => KeysHanded' /\ [DeathExplained]_vars
    BY <1>2, KeysLiveStep
  <1>4. QED
    BY <1>1, <1>3, LifeInvariant, PTL DEF Spec, KeysDieByRetirement, DeathExplained

-----------------------------------------------------------------------------
(* VaultHoldsItsKey, strengthened: what a call has in its hands, and what  *)
(* its adapter buffers for it, is the secret of the key it will file it    *)
(* under.  One call at a time per process: the buffer of an adapter keeps  *)
(* one secret only, and another call's would be taken for this one's.      *)
(* Vaults, repository, reload and restart are all there.                   *)
Holding == {"consume", "adopt", "deliver", "mirror"}

InHand(t) ==
    LET c == call[t]
    IN  /\ c.pc \in Holding => c.view.key \in issued[c.id] /\ c.view.key # 0
        /\ c.pc = "consume" => slot[Host[t]][ProviderOf[c.id]] = c.view.key
        /\ c.pc \in Holding \ {"consume"} => c.secret = c.view.key

Proper(w, e) == /\ e.secret \in issued[e.id]
                /\ w = "native" /\ PerKeySecrets => e.secret = e.name

VaultsProper == \A w \in {"native", "common"} : \A e \in vault[w] : Proper(w, e)

VaultInv == VaultsProper /\ \A t \in Threads : InHand(t)

(* The provider never forgets a key it issued.                             *)
Issues == \A id \in Ids : issued[id] \subseteq issued'[id]

LEMMA InHandKeeps ==
    ASSUME OneCaller, TypeInv, NEW t \in Threads, NEW u \in Threads \ {t}, InHand(u),
           call'[u] = call[u], Issues, \A i \in Instances \ {Host[t]} : slot'[i] = slot[i]
    PROVE  InHand(u)'
  <1>1. Host[u] # Host[t] /\ Host[u] \in Instances
    BY CallType DEF OneCaller
  <1>2. call[u].pc \in Holding => call[u].id \in Ids
    BY CallType DEF Holding
  <1>3. slot'[Host[u]] = slot[Host[u]]
    BY <1>1
  <1>4. call[u].pc \in Holding => call[u].view.key \in issued'[call[u].id]
    BY <1>2 DEF InHand, Issues
  <1>5. QED
    BY <1>3, <1>4 DEF InHand

LEMMA VaultsKeep ==
    ASSUME TypeInv, VaultsProper, Issues,
           \A w \in {"native", "common"} :
             \A e \in vault'[w] : e \in vault[w] \/ (e.id \in Ids /\ Proper(w, e))
    PROVE  VaultsProper'
  <1>1. ASSUME NEW w \in {"native", "common"}, NEW e \in vault'[w] PROVE Proper(w, e)'
    <2>1. CASE e \in vault[w]
      <3>1. e.id \in Ids /\ Proper(w, e)
        BY <2>1 DEF TypeInv, TypeOK, Entry, VaultsProper
      <3>2. QED
        BY <3>1 DEF Proper, Issues
    <2>2. CASE e \notin vault[w]
      BY <1>1, <2>2 DEF Proper, Issues
    <2>3. QED
      BY <1>1, <2>1, <2>2
  <1>2. QED
    BY <1>1 DEF VaultsProper

(* A step of thread t: nobody else's call, nobody else's buffers.          *)
Private(t) == Others(t) /\ \A i \in Instances \ {Host[t]} : slot'[i] = slot[i]

LEMMA VaultInvKeeps ==
    ASSUME OneCaller, TypeInv, VaultInv, NEW t \in Threads, Private(t), Issues,
           InHand(t)', VaultsProper'
    PROVE  VaultInv'
  BY InHandKeeps DEF VaultInv, Private, Others

LEMMA EmptyHanded ==
    ASSUME NEW t \in Threads, call'[t].pc \notin Holding PROVE InHand(t)'
  BY DEF InHand, Holding

(* A delivery: the secret in hand is filed under its own key.              *)
LEMMA DeliverProper ==
    ASSUME OneCaller, TypeInv, VaultInv, NEW t \in Threads, NEW w \in {"native", "common"},
           UNCHANGED <<issued, slot>>, Deliver(t, w), call[t].pc \in {"deliver", "mirror"}
    PROVE  VaultInv'
  <1> DEFINE c == call[t]
             place(refs) == afterDelivery(w, c.op, refs)
             d == [c EXCEPT !.view.refs = @ \cup {w}, !.pc = place(c.view.refs \cup {w})]
  <1>1. /\ c \in Call /\ c.id \in Ids /\ c.view \in Identity
        /\ c.view.refs \in SUBSET {"native", "common"}
    BY CallType DEF Identity
  <1>2. /\ c.view.key \in issued[c.id] /\ c.view.key # 0 /\ c.secret = c.view.key
        /\ VaultsProper /\ Issues
    BY DEF VaultInv, InHand, Holding, Issues
  <1>3. \/ Goto(t, place(c.view.refs)) /\ UNCHANGED vault
        \/ StoreSecret(w, c.id, c.view.key, c.secret) /\ Proceed(t, d)
    BY Zenon DEF Deliver
  <1>4. \A refs : place(refs) \in Places /\ place(refs) \notin {"consume", "adopt"}
    BY DEF afterDelivery, persistPlace, Places
  <1> HIDE DEF place
  <1>5. /\ Others(t) /\ call'[t].id = c.id /\ call'[t].view.key = c.view.key
        /\ call'[t].secret = c.secret /\ call'[t].pc \notin {"consume", "adopt"}
    <2>1. CASE Goto(t, place(c.view.refs))
      <3>1. /\ call'[t] = [c EXCEPT !.pc = place(c.view.refs)] /\ Others(t)
        BY <1>4, <2>1, GotoType DEF Others
      <3>2. QED
        BY <1>1, <1>4, <3>1 DEF Call
    <2>2. CASE Proceed(t, d)
      <3>1. /\ d \in Call /\ d.id = c.id /\ d.view.key = c.view.key
            /\ d.secret = c.secret /\ d.pc \notin {"consume", "adopt"}
        BY <1>1, <1>4 DEF Call, Identity
      <3> HIDE DEF d
      <3>2. call'[t] = d /\ Others(t)
        BY <1>1, <2>2, <3>1, ProceedType DEF Others
      <3>3. QED
        BY <3>1, <3>2
    <2>3. QED
      BY <1>3, <2>1, <2>2
  <1>6. InHand(t)'
    BY <1>2, <1>5 DEF InHand, Holding
  <1>7. VaultsProper'
    <2>1. CASE UNCHANGED vault
      BY <1>2, <2>1, VaultsKeep
    <2>2. CASE StoreSecret(w, c.id, c.view.key, c.secret)
      <3> DEFINE n == [id |-> c.id, name |-> secretName(w, c.view.key), secret |-> c.secret]
      <3>1. n.id \in Ids /\ Proper(w, n)
        BY <1>1, <1>2 DEF Proper, secretName
      <3>2. /\ vault'[w] = (vault[w] \ Filed(w, c.id, c.view.key)) \cup {n}
            /\ \A x \in {"native", "common"} \ {w} : vault'[x] = vault[x]
        BY <2>2 DEF StoreSecret, TypeInv, TypeOK
      <3> HIDE DEF n
      <3>3. ASSUME NEW x \in {"native", "common"}, NEW e \in vault'[x]
            PROVE  e \in vault[x] \/ (e.id \in Ids /\ Proper(x, e))
        BY <3>1, <3>2
      <3>4. QED
        BY <1>2, <3>3, VaultsKeep
    <2>3. QED
      BY <1>3, <2>1, <2>2
  <1>8. Private(t)
    BY <1>5 DEF Private
  <1>9. QED
    BY <1>2, <1>6, <1>7, <1>8, VaultInvKeeps

(* A step that leaves a call with nothing in hand and files nothing.       *)
LEMMA LetsGo ==
    ASSUME OneCaller, TypeInv, VaultInv, NEW t \in Threads, Private(t), Issues,
           call'[t].pc \notin Holding,
           \A w \in {"native", "common"} : vault'[w] \subseteq vault[w]
    PROVE  VaultInv'
  <1>1. VaultsProper'
    BY VaultsKeep DEF VaultInv
  <1>2. QED
    BY <1>1, EmptyHanded, VaultInvKeeps

LEMMA CreateProper ==
    ASSUME OneCaller, TypeInv, VaultInv, NEW t \in Threads, NEW id \in Ids,
           ProvisionCreate(t, id)
    PROVE  VaultInv'
  <1> DEFINE key == nextKey + 1
             identity == [NoIdentity EXCEPT !.state = "active", !.key = key]
             c == [NoCall EXCEPT !.pc = "adopt", !.op = "provision", !.id = id,
                                 !.view = identity, !.secret = key]
  <1>1. /\ issued' = [issued EXCEPT ![id] = {key}] /\ issued[id] = {}
        /\ call' = [call EXCEPT ![t] = c] /\ UNCHANGED vault
        /\ remember(t, id, key) \/ UNCHANGED slot
    BY Zenon DEF ProvisionCreate, Proceed
  <1>2. key \in Nat /\ key # 0
    BY DEF TypeInv, TypeOK
  <1>3. c.pc = "adopt" /\ c.id = id /\ c.view.key = key /\ c.secret = key
    BY DEF NoCall, NoIdentity
  <1> HIDE DEF key, c
  <1>4. call'[t] = c /\ Others(t)
    BY <1>1 DEF Others, TypeInv, TypeOK
  <1>5. Issues /\ issued'[id] = {key}
    BY <1>1 DEF Issues, TypeInv, TypeOK
  <1>6. Private(t)
    BY <1>1, <1>4, StoreAssumption DEF Private, remember, TypeInv, TypeOK
  <1>7. InHand(t)'
    BY <1>2, <1>3, <1>4, <1>5 DEF InHand, Holding
  <1>8. VaultsProper'
    BY <1>1, <1>5, VaultsKeep DEF VaultInv
  <1>9. QED
    BY <1>5, <1>6, <1>7, <1>8, VaultInvKeeps

LEMMA SucceedProper ==
    ASSUME OneCaller, TypeInv, VaultInv, NEW t \in Threads, RotateSucceed(t)
    PROVE  VaultInv'
  <1> DEFINE c == call[t]
             key == nextKey + 1
             identity == [NoIdentity EXCEPT !.state = "active", !.key = key]
             d == [c EXCEPT !.pc = "consume", !.view = identity]
  <1>1. /\ c.pc = "rotating" /\ Proceed(t, d) /\ UNCHANGED vault
        /\ issued' = [issued EXCEPT ![c.id] = @ \cup {key}] /\ remember(t, c.id, key)
    BY Zenon DEF RotateSucceed
  <1>2. c.id \in Ids /\ c \in Call /\ key \in Nat /\ key # 0
    BY <1>1, CallType DEF TypeInv, TypeOK
  <1> HIDE DEF key
  <1>3. identity.key = key
    BY DEF NoIdentity
  <1> HIDE DEF identity
  <1>4. d.pc = "consume" /\ d.view = identity /\ d.id = c.id
    BY <1>2 DEF Call
  <1> HIDE DEF d
  <1>5. call'[t] = d /\ Others(t)
    BY <1>1 DEF Proceed, Others, TypeInv, TypeOK
  <1>6. Issues /\ key \in issued'[c.id]
    BY <1>1, <1>2 DEF Issues, TypeInv, TypeOK
  <1>7. /\ \A i \in Instances \ {Host[t]} : slot'[i] = slot[i]
        /\ slot'[Host[t]][ProviderOf[c.id]] = key
    BY <1>1, <1>2, StoreAssumption DEF remember, TypeInv, TypeOK
  <1>8. InHand(t)'
    BY <1>2, <1>3, <1>4, <1>5, <1>6, <1>7 DEF InHand, Holding
  <1>9. VaultsProper'
    BY <1>1, <1>6, VaultsKeep DEF VaultInv
  <1>10. QED
    BY <1>5, <1>6, <1>7, <1>8, <1>9, VaultInvKeeps DEF Private

LEMMA ConsumeProper ==
    ASSUME OneCaller, TypeInv, VaultInv, NEW t \in Threads, RotateConsume(t)
    PROVE  VaultInv'
  <1> DEFINE c == call[t]
             secret == slot[Host[t]][ProviderOf[c.id]]
             d == [c EXCEPT !.secret = secret,
                            !.pc = IF secret = 0 THEN "persist" ELSE "deliver"]
  <1>1. /\ c.pc = "consume" /\ call' = [call EXCEPT ![t] = d]
        /\ UNCHANGED <<issued, vault>>
        /\ slot' = [slot EXCEPT ![Host[t]][ProviderOf[c.id]] = 0]
    BY Zenon DEF RotateConsume, Proceed, provider
  <1>2. c.id \in Ids /\ c \in Call
    BY <1>1, CallType
  <1>3. c.view.key \in issued[c.id] /\ c.view.key # 0 /\ secret = c.view.key
    BY <1>1 DEF VaultInv, InHand, Holding
  <1>4. /\ d.pc = "deliver" /\ d.id = c.id /\ d.view = c.view /\ d.secret = c.view.key
    BY <1>2, <1>3 DEF Call
  <1> HIDE DEF d, secret
  <1>5. call'[t] = d /\ Others(t)
    BY <1>1 DEF Others, TypeInv, TypeOK
  <1>6. Issues /\ Private(t)
    BY <1>1, <1>5 DEF Issues, Private, TypeInv, TypeOK
  <1>7. InHand(t)'
    BY <1>1, <1>3, <1>4, <1>5 DEF InHand, Holding
  <1>8. VaultsProper'
    BY <1>1, <1>6, VaultsKeep DEF VaultInv
  <1>9. QED
    BY <1>6, <1>7, <1>8, VaultInvKeeps

LEMMA AdoptProper ==
    ASSUME OneCaller, TypeInv, VaultInv, NEW t \in Threads, ProvisionAdopt(t)
    PROVE  VaultInv'
  <1> DEFINE c == call[t]
  <1>1. c.pc = "adopt" /\ Goto(t, "deliver") /\ UNCHANGED <<issued, slot, vault>>
    BY DEF ProvisionAdopt, provider
  <1>2. c \in Call /\ "deliver" \in Places
    BY CallType DEF Places
  <1>3. call'[t] = [c EXCEPT !.pc = "deliver"] /\ Others(t)
    BY <1>1, <1>2, GotoType DEF Others
  <1>4. /\ call'[t].pc = "deliver" /\ call'[t].id = c.id /\ call'[t].view = c.view
        /\ call'[t].secret = c.secret
    BY <1>2, <1>3 DEF Call
  <1>5. InHand(t)'
    BY <1>1, <1>4 DEF VaultInv, InHand, Holding
  <1>6. Issues /\ Private(t)
    BY <1>1, <1>3 DEF Issues, Private
  <1>7. VaultsProper'
    BY <1>1, <1>6, VaultsKeep DEF VaultInv
  <1>8. QED
    BY <1>5, <1>6, <1>7, VaultInvKeeps

LEMMA VaultStep ==
    ASSUME OneCaller, TypeInv, VaultInv, [Next]_vars
    PROVE  VaultInv'
  <1> USE DEF provider, repository
  <1>1. CASE UNCHANGED <<call, issued, slot, vault>>
    BY <1>1 DEF VaultInv, VaultsProper, Proper, InHand
  <1>2. ASSUME NEW t \in Threads, UNCHANGED slot, Issues,
               \A w \in {"native", "common"} : vault'[w] \subseteq vault[w],
               Others(t), call'[t].pc \notin Holding
        PROVE  VaultInv'
    BY <1>2, LetsGo DEF Private
  <1>3. ASSUME NEW t \in Threads, UNCHANGED slot, Issues,
               \A w \in {"native", "common"} : vault'[w] \subseteq vault[w],
               \/ Return(t)
               \/ call[t].pc # "idle" /\ \E place \in Places \ Holding : Goto(t, place)
        PROVE  VaultInv'
    <2>1. CASE Return(t)
      <3>1. Others(t) /\ call'[t].pc = "idle"
        BY <2>1, ReturnType, NoCallType DEF Others
      <3>2. QED
        BY <1>2, <1>3, <3>1 DEF Holding
    <2>2. CASE call[t].pc # "idle" /\ \E place \in Places \ Holding : Goto(t, place)
      <3>1. PICK place \in Places \ Holding : Goto(t, place)
        BY <2>2
      <3>2. Others(t) /\ call'[t].pc = place
        BY <2>2, <3>1, GotoType DEF Others
      <3>3. QED
        BY <1>2, <1>3, <3>2
    <2>3. QED
      BY <1>3, <2>1, <2>2
  <1>4. ASSUME NEW t \in Threads, Begin(t) PROVE VaultInv'
    <2>1. PICK id \in Ids : \/ Register(t, id) \/ RotateBegin(t, id)
                            \/ ProvisionCreate(t, id) \/ Retire(t, id)
                            \/ RetireFail(t, id) \/ DeleteBegin(t, id)
                            \/ UseBegin(t, id)
      BY <1>4 DEF Begin
    <2> DEFINE view == mem[Host[t]].identities[id]
               gone == [view EXCEPT !.state = "retired", !.key = 0, !.health = "attention"]
    <2>2. view \in Identity
      BY CallType DEF Memory
    <2>3. gone \in Identity
      BY <2>2 DEF Identity, States
    <2>4. CASE Register(t, id) \/ RetireFail(t, id)
      BY <1>1, <2>4 DEF Register, RetireFail
    <2>5. CASE RotateBegin(t, id)
      <3> DEFINE c == [NoCall EXCEPT !.pc = "rotating", !.op = "rotate", !.id = id,
                         !.view = [view EXCEPT !.state = "renewing"],
                         !.run = mem[Host[t]].nextRun + 1]
      <3>1. call' = [call EXCEPT ![t] = c] /\ UNCHANGED <<slot, issued, vault>>
        BY <2>5, Zenon DEF RotateBegin, Proceed
      <3>2. c.pc = "rotating"
        BY DEF NoCall
      <3> HIDE DEF c
      <3>3. call'[t] = c /\ Others(t)
        BY <3>1 DEF Others, TypeInv, TypeOK
      <3>4. QED
        BY <1>2, <3>1, <3>2, <3>3 DEF Holding, Issues
    <2>6. CASE Retire(t, id) \/ DeleteBegin(t, id) \/ UseBegin(t, id)
      <3> HIDE DEF view, gone
      <3>1. /\ UNCHANGED <<slot, issued, vault>>
            /\ \/ UNCHANGED call \/ Enter(t, "retire", id, "revoke", gone)
               \/ Enter(t, "delete", id, "revoke", view) \/ Enter(t, "use", id, "read", view)
        BY <2>6 DEF Retire, DeleteBegin, UseBegin, view, gone
      <3>2. /\ {"retire", "delete", "use"} \subseteq Operations
            /\ {"revoke", "read"} \subseteq Places
        BY DEF Operations, Places
      <3>3. UNCHANGED call \/ (Others(t) /\ call'[t].pc \in {"revoke", "read"})
        BY <2>2, <2>3, <3>1, <3>2, EnterType DEF Others
      <3>4. QED
        BY <1>1, <1>2, <3>1, <3>3 DEF Holding, Issues
    <2>7. QED
      BY <2>1, <2>4, <2>5, <2>6, CreateProper
  <1>5. ASSUME NEW t \in Threads, Continue(t) PROVE VaultInv'
    <2>1. ASSUME RotateFail(t) PROVE VaultInv'
      <3>1. Issues
        BY <2>1 DEF RotateFail, Issues, TypeInv, TypeOK
      <3>2. Return(t) /\ UNCHANGED <<slot, vault>>
        BY <2>1 DEF RotateFail
      <3>3. QED
        BY <1>3, <3>1, <3>2
    <2>2. ASSUME RotatePersist(t) \/ ProvisionReject(t) \/ ProvisionSave(t)
                 \/ DeletePurge(t) \/ UseAudit(t)
          PROVE  VaultInv'
      <3>1. Return(t) /\ UNCHANGED <<slot, vault, issued>>
        BY <2>2 DEF RotatePersist, ProvisionReject, ProvisionSave, DeletePurge, UseAudit
      <3>2. QED
        BY <1>3, <3>1 DEF Issues
    <2>3. ASSUME DeliverToVault(t) \/ MirrorToCommonVault(t) PROVE VaultInv'
      BY <2>3, DeliverProper DEF DeliverToVault, MirrorToCommonVault
    <2>4. ASSUME RecordReferences(t) PROVE VaultInv'
      <3>1. /\ Goto(t, persistPlace(call[t].op)) /\ UNCHANGED <<slot, vault, issued>>
            /\ call[t].pc = "record"
        BY <2>4 DEF RecordReferences
      <3>2. persistPlace(call[t].op) \in Places \ Holding
        BY DEF persistPlace, Places, Holding
      <3>3. QED
        BY <1>3, <3>1, <3>2 DEF Issues
    <2>5. ASSUME ProvisionSnapshot(t) PROVE VaultInv'
      <3> DEFINE c == call[t]
                 m == mem[Host[t]]
                 c1 == [c EXCEPT !.snap.identities = m.identities, !.pc = "copyEvents"]
                 c2 == [c EXCEPT !.snap.events = m.events, !.pc = "copyRuns"]
                 c3 == [c EXCEPT !.snap.runs = m.runs, !.snap.nextEvent = m.nextEvent,
                                 !.snap.nextRun = m.nextRun, !.pc = "save"]
      <3>1. /\ UNCHANGED <<slot, issued, vault>>
            /\ \/ call' = [call EXCEPT ![t] = c1] \/ call' = [call EXCEPT ![t] = c2]
               \/ call' = [call EXCEPT ![t] = c3]
        BY <2>5, Zenon DEF ProvisionSnapshot, CopyPart, Proceed
      <3>2. c1.pc = "copyEvents" /\ c2.pc = "copyRuns" /\ c3.pc = "save"
        BY CallType DEF Call
      <3> HIDE DEF c1, c2, c3
      <3>3. call'[t] \in {c1, c2, c3} /\ Others(t)
        BY <3>1 DEF Others, TypeInv, TypeOK
      <3>4. QED
        BY <1>2, <3>1, <3>2, <3>3 DEF Holding, Issues
    <2>6. ASSUME NEW w \in {"native", "common"}, Revoke(t, w), NEW x \in {"native", "common"}
          PROVE  vault'[x] \subseteq vault[x]
      <3>1. UNCHANGED vault \/ RevokeSecret(w, call[t].id, call[t].view.key)
        BY <2>6, Zenon DEF Revoke
      <3>2. QED
        BY <3>1 DEF RevokeSecret, TypeInv, TypeOK
    <2>7. ASSUME RevokeFromVault(t) \/ RevokeFromCommonVault(t) PROVE VaultInv'
      <3>1. /\ UNCHANGED <<slot, issued>> /\ call[t].pc # "idle"
            /\ Revoke(t, "native") \/ Revoke(t, "common")
            /\ Goto(t, "revokeCommon") \/ Goto(t, "purge") \/ Return(t)
        BY <2>7 DEF RevokeFromVault, RevokeFromCommonVault
      <3>2. {"revokeCommon", "purge"} \subseteq Places \ Holding
        BY DEF Places, Holding
      <3>3. \A w \in {"native", "common"} : vault'[w] \subseteq vault[w]
        BY <2>6, <3>1
      <3>4. QED
        BY <1>3, <3>1, <3>2, <3>3 DEF Issues
    <2>8. ASSUME UseRead(t) PROVE VaultInv'
      <3>1. UNCHANGED <<slot, issued, vault>> /\ call[t].pc = "read"
        BY <2>8 DEF UseRead
      <3>2. \/ Return(t)
            \/ \E secret : Proceed(t, [call[t] EXCEPT !.secret = secret, !.pc = "audit"])
        BY <2>8, Zenon DEF UseRead, ReadSecret
      <3>3. ASSUME NEW secret,
                   Proceed(t, [call[t] EXCEPT !.secret = secret, !.pc = "audit"])
            PROVE  Others(t) /\ call'[t].pc = "audit"
        <4> DEFINE d == [call[t] EXCEPT !.secret = secret, !.pc = "audit"]
        <4>1. d.pc = "audit"
          BY CallType DEF Call
        <4>2. call' = [call EXCEPT ![t] = d]
          BY <3>3 DEF Proceed
        <4> HIDE DEF d
        <4>3. QED
          BY <4>1, <4>2 DEF Others, TypeInv, TypeOK
      <3>4. QED
        BY <1>2, <1>3, <3>1, <3>2, <3>3 DEF Holding, Issues
    <2>9. QED
      BY <1>5, <2>1, <2>2, <2>3, <2>4, <2>5, <2>7, <2>8, SucceedProper, ConsumeProper,
         AdoptProper
      DEF Continue
  <1>6. ASSUME NEW i \in Instances, Restart(i) PROVE VaultInv'
    <2>1. /\ \A t \in Threads : call'[t] = IF Host[t] = i THEN NoCall ELSE call[t]
          /\ UNCHANGED <<issued, vault>>
          /\ \A j \in Instances \ {i} : slot'[j] = slot[j]
      BY <1>6 DEF Restart, TypeInv, TypeOK
    <2>2. ASSUME NEW t \in Threads PROVE InHand(t)'
      <3>1. CASE Host[t] = i
        BY <2>1, <3>1, NoCallType, EmptyHanded DEF Holding
      <3>2. CASE Host[t] # i
        BY <2>1, <3>2, CallType DEF VaultInv, InHand
      <3>3. QED
        BY <3>1, <3>2
    <2>3. VaultsProper'
      BY <2>1 DEF VaultInv, VaultsProper, Proper
    <2>4. QED
      BY <2>2, <2>3 DEF VaultInv
  <1>7. ASSUME NEW i \in Instances, WatchLoad(i) \/ WatchRestore(i) \/ LoseNotice(i)
        PROVE  VaultInv'
    BY <1>1, <1>7 DEF WatchLoad, WatchRestore, LoseNotice
  <1>8. QED
    BY <1>1, <1>4, <1>5, <1>6, <1>7 DEF Next, Environment, vars

(* A process that serves one call at a time files every secret under the   *)
(* identity and the key it was issued for, whatever the vaults and the     *)
(* repository answer, and across reloads, restarts and other processes     *)
(* (deliverToVault after ConsumeOneTimeSecret).                            *)
THEOREM VaultsHoldTheirKeys == ASSUME OneCaller PROVE Spec => []VaultHoldsItsKey
  <1>1. Init => VaultInv
    <2>1. Init => VaultsProper
      BY DEF Init, VaultsProper
    <2>2. Init => \A t \in Threads : InHand(t)
      BY NoCallType DEF Init, InHand, Holding
    <2>3. QED
      BY <2>1, <2>2 DEF VaultInv
  <1>2. TypeInv /\ VaultInv /\ [Next]_vars => VaultInv'
    BY VaultStep
  <1>3. VaultInv => VaultHoldsItsKey
    BY DEF VaultInv, VaultsProper, Proper, VaultHoldsItsKey
  <1>4. QED
    BY <1>1, <1>2, <1>3, Initially, TypeStep, PTL DEF Spec
-----------------------------------------------------------------------------
(* A process that serves one call at a time, with all operations, vaults,  *)
(* a repository and restarts.  The memories and the snapshot list governed *)
(* identities only; a call that will audit something for its identity      *)
(* finds it governed; a successful rotation finds its run.                 *)
Auditing == {"rotating", "consume", "deliver", "mirror", "record", "revoke",
             "revokeCommon", "read", "audit"}

Done(m, c) == \E r \in m.runs : r.n = c.run /\ r.id = c.id /\ r.status = "succeeded"

Owned(t) ==
    LET c == call[t]
        m == mem[Host[t]]
    IN  /\ c.pc \in Auditing => m.identities[c.id].state # "absent"
        /\ Delivering(c) => Done(m, c)
        /\ c.pc = "adopt" => c.op = "provision"

AuditInv ==
    /\ Listed(snapshot)
    /\ \A i \in Instances : Listed(mem[i])
    /\ \A t \in Threads : Owned(t)

(* From memory m to n, identity id is written or audited, and is governed  *)
(* in the end.                                                             *)
Touches(m, n, id) ==
    /\ n.identities[id].state # "absent"
    /\ \A x \in Ids \ {id} : n.identities[x] = m.identities[x]
    /\ \A e \in n.events : e \in m.events \/ e.id = id

LEMMA TouchedListed ==
    ASSUME NEW m \in Memory, NEW n, NEW id \in Ids, Listed(m), Touches(m, n, id)
    PROVE  Listed(n)
  <1> SUFFICES ASSUME NEW e \in n.events PROVE n.identities[e.id].state # "absent"
    BY DEF Listed
  <1>1. CASE e.id = id
    BY <1>1 DEF Touches
  <1>2. CASE e.id # id
    BY <1>2 DEF Touches, Listed, Memory, Event
  <1>3. QED
    BY <1>1, <1>2

LEMMA TouchesTrans ==
    ASSUME NEW a, NEW b, NEW c, NEW id, Touches(a, b, id), Touches(b, c, id)
    PROVE  Touches(a, c, id)
  BY DEF Touches

LEMMA EventTouches ==
    ASSUME NEW m \in Memory, NEW id \in Ids, NEW kind \in EventKinds,
           NEW outcome \in Outcomes, m.identities[id].state # "absent"
    PROVE  LET a == addEvent(m, id, kind, outcome, 0)
           IN  a \in Memory /\ a.runs = m.runs /\ Touches(m, a, id)
  BY EventKeeps DEF Touches

LEMMA WriteTouches ==
    ASSUME NEW m \in Memory, NEW id \in Ids, NEW identity \in Identity,
           identity.state # "absent"
    PROVE  LET a == setIdentity(m, id, identity)
           IN  /\ a \in Memory /\ a.runs = m.runs /\ Touches(m, a, id)
               /\ a.identities[id] = identity
  <1> DEFINE a == setIdentity(m, id, identity)
  <1>1. m.identities \in [Ids -> Identity]
    BY DEF Memory
  <1>2. /\ a \in Memory /\ a.runs = m.runs /\ a.events = m.events
        /\ a.identities = [m.identities EXCEPT ![id] = identity]
    BY SetIdentityFields
  <1> HIDE DEF a
  <1>3. QED
    BY <1>1, <1>2 DEF Touches, a

LEMMA FinishTouches ==
    ASSUME NEW m \in Memory, NEW id \in Ids, NEW n \in Nat, NEW key \in Nat,
           NEW identity \in Identity, NEW status \in {"succeeded", "failed"},
           identity.state # "absent"
    PROVE  LET f == finishRun(setIdentity(m, id, identity), id, n, status, key)
           IN  /\ Touches(m, f, id)
               /\ \E r \in f.runs : r.n = n /\ r.id = id /\ r.status = status
  <1> DEFINE f == finishRun(setIdentity(m, id, identity), id, n, status, key)
  <1>1. m.identities \in [Ids -> Identity]
    BY DEF Memory
  <1>2. /\ f.identities = [m.identities EXCEPT ![id] = identity]
        /\ \A e \in f.events : e \in m.events \/ e.id = id
        /\ \E r \in f.runs : r.n = n /\ r.id = id /\ r.status = status
    BY FinishKeeps
  <1> HIDE DEF f
  <1>3. QED
    BY <1>1, <1>2 DEF Touches, f

(* A call that opens keeps the trail: what Register, Rotate and Retire     *)
(* write is governed, and what Delete and Use find is.                     *)
LEMMA OpensOwned ==
    ASSUME TypeInv, NEW t \in Threads, Begin(t), Listed(mem[Host[t]])
    PROVE  Listed(mem'[Host[t]]) /\ Owned(t)'
  <1> DEFINE m == mem[Host[t]]
             c == call[t]
  <1>1. PICK id \in Ids : \/ Register(t, id) \/ RotateBegin(t, id)
                          \/ ProvisionCreate(t, id) \/ Retire(t, id)
                          \/ RetireFail(t, id) \/ DeleteBegin(t, id)
                          \/ UseBegin(t, id)
    BY DEF Begin
  <1>2. /\ m \in Memory /\ m.identities[id] \in Identity /\ c.pc = "idle"
        /\ "success" \in Outcomes
    BY <1>1, CallType
    DEF Memory, Outcomes, Register, RotateBegin, ProvisionCreate, Retire, RetireFail,
        DeleteBegin, UseBegin, Start
  <1>3. ASSUME NEW n, SetMem(t, n) PROVE mem'[Host[t]] = n
    BY <1>3, CallType DEF SetMem, TypeInv, TypeOK
  <1>4. ASSUME NEW d, call' = [call EXCEPT ![t] = d] PROVE call'[t] = d
    BY <1>4 DEF TypeInv, TypeOK
  <1>5. ASSUME call'[t].pc \in {"idle", "adopt"}, call'[t].pc = "adopt" => call'[t].op = "provision"
        PROVE  Owned(t)'
    BY <1>5 DEF Owned, Auditing, Delivering, InDelivery
  <1>6. ASSUME NEW op \in Operations \ {"rotate"}, NEW place \in Auditing \cap Places,
               NEW view \in Identity, Enter(t, op, id, place, view),
               mem'[Host[t]].identities[id].state # "absent"
        PROVE  Owned(t)'
    <2> DEFINE d == [NoCall EXCEPT !.pc = place, !.op = op, !.id = id, !.view = view]
    <2>1. d.pc = place /\ d.op = op /\ d.id = id
      BY NoCallType DEF Call
    <2>2. call' = [call EXCEPT ![t] = d]
      BY <1>6 DEF Enter, Proceed
    <2> HIDE DEF d
    <2>3. call'[t] = d
      BY <1>4, <2>2
    <2>4. QED
      BY <1>6, <2>1, <2>3 DEF Owned, Auditing, Delivering
  <1>7. CASE Register(t, id)
    <2>0. PICK key \in issued[id] \cup {0} :
            persistLocked(t, addEvent(setIdentity(m, id, [NoIdentity EXCEPT !.state = "active",
                                                                            !.key = key]),
                                      id, "registered", "success", 0))
      BY <1>7, Zenon DEF Register
    <2>a. key \in Nat
      BY DEF TypeInv, TypeOK
    <2> DEFINE identity == [NoIdentity EXCEPT !.state = "active", !.key = key]
               s == setIdentity(m, id, identity)
               a == addEvent(s, id, "registered", "success", 0)
    <2>1. identity \in Identity /\ identity.state = "active" /\ "registered" \in EventKinds
      BY <2>a DEF NoIdentity, Identity, States, EventKinds
    <2> HIDE DEF identity
    <2>2. s \in Memory /\ s.identities[id].state # "absent" /\ Touches(m, s, id)
      BY <1>2, <2>1, WriteTouches
    <2> HIDE DEF s
    <2>3. Touches(m, a, id)
      BY <1>2, <2>1, <2>2, EventTouches, TouchesTrans
    <2> HIDE DEF a
    <2>4. SetMem(t, a) /\ UNCHANGED call
      BY <1>7, <2>0, Zenon DEF Register, persistLocked, a, s, identity
    <2>5. QED
      BY <1>2, <1>3, <1>5, <2>3, <2>4, TouchedListed
  <1>8. CASE RotateBegin(t, id)
    <2> DEFINE d == [NoCall EXCEPT !.pc = "rotating", !.op = "rotate", !.id = id,
                       !.view = [m.identities[id] EXCEPT !.state = "renewing"],
                       !.run = m.nextRun + 1]
               s == startRun(m, id)
    <2>1. SetMem(t, s) /\ call' = [call EXCEPT ![t] = d]
      BY <1>8, Zenon DEF RotateBegin, Proceed
    <2>2. d.pc = "rotating" /\ d.id = id
      BY DEF NoCall
    <2>3. Touches(m, s, id)
      <3>1. /\ s.identities = [m.identities EXCEPT ![id] = [@ EXCEPT !.state = "renewing"]]
            /\ m.identities \in [Ids -> Identity]
        BY <1>2, StartRunFields DEF Memory
      <3>2. s.events = m.events \cup
                 {[n |-> m.nextEvent + 1, id |-> id, kind |-> "requested",
                   outcome |-> "in_progress", run |-> m.nextRun + 1],
                  [n |-> m.nextEvent + 2, id |-> id, kind |-> "started",
                   outcome |-> "in_progress", run |-> m.nextRun + 1]}
        BY <1>2, StartRunFields
      <3> HIDE DEF s
      <3>3. s.identities[id].state = "renewing"
        BY <1>2, <3>1 DEF Identity
      <3>4. \A e \in s.events : e \in m.events \/ e.id = id
        BY <3>2
      <3>5. QED
        BY <3>1, <3>3, <3>4 DEF Touches
    <2> HIDE DEF d, s
    <2>4. mem'[Host[t]] = s /\ call'[t] = d
      BY <1>3, <1>4, <2>1
    <2>5. Owned(t)'
      BY <2>2, <2>3, <2>4 DEF Owned, Touches, Delivering, InDelivery
    <2>6. QED
      BY <1>2, <2>3, <2>4, <2>5, TouchedListed
  <1>9. CASE ProvisionCreate(t, id)
    <2> DEFINE d == [NoCall EXCEPT !.pc = "adopt", !.op = "provision", !.id = id,
                       !.view = [NoIdentity EXCEPT !.state = "active", !.key = nextKey + 1],
                       !.secret = nextKey + 1]
    <2>1. UNCHANGED mem /\ call' = [call EXCEPT ![t] = d]
      BY <1>9, Zenon DEF ProvisionCreate, Proceed
    <2>2. d.pc = "adopt" /\ d.op = "provision"
      BY DEF NoCall
    <2> HIDE DEF d
    <2>3. QED
      BY <1>4, <1>5, <2>1, <2>2
  <1>10. CASE Retire(t, id)
    <2> DEFINE identity == [m.identities[id] EXCEPT !.state = "retired", !.key = 0,
                                                    !.health = "attention"]
               s == setIdentity(m, id, identity)
               a == addEvent(s, id, "retired", "success", 0)
    <2>1. identity \in Identity /\ identity.state = "retired" /\ "retired" \in EventKinds
      BY <1>2 DEF Identity, States, EventKinds
    <2> HIDE DEF identity
    <2>2. s \in Memory /\ s.identities[id].state # "absent" /\ Touches(m, s, id)
      BY <1>2, <2>1, WriteTouches
    <2> HIDE DEF s
    <2>3. Touches(m, a, id)
      BY <1>2, <2>1, <2>2, EventTouches, TouchesTrans
    <2> HIDE DEF a
    <2>4. /\ SetMem(t, a)
          /\ UNCHANGED call \/ Enter(t, "retire", id, "revoke", identity)
      BY <1>10, Zenon DEF Retire, a, s, identity
    <2>5. mem'[Host[t]] = a /\ "retire" \in Operations /\ "revoke" \in Auditing \cap Places
      BY <1>3, <2>4 DEF Operations, Auditing, Places
    <2>6. Owned(t)'
      BY <1>2, <1>5, <1>6, <2>1, <2>3, <2>4, <2>5 DEF Touches
    <2>7. QED
      BY <1>2, <2>3, <2>5, <2>6, TouchedListed
  <1>11. CASE RetireFail(t, id)
    BY <1>2, <1>5, <1>11 DEF RetireFail
  <1>12. CASE DeleteBegin(t, id) \/ UseBegin(t, id)
    <2>1. /\ {"delete", "use"} \subseteq Operations
          /\ {"revoke", "read"} \subseteq Auditing \cap Places
      BY DEF Operations, Auditing, Places
    <2>2. /\ UNCHANGED mem /\ m.identities[id].state # "absent"
          /\ \/ Enter(t, "delete", id, "revoke", m.identities[id])
             \/ Enter(t, "use", id, "read", m.identities[id])
      BY <1>12 DEF DeleteBegin, UseBegin
    <2>3. QED
      BY <1>2, <1>6, <2>1, <2>2
  <1>13. QED
    BY <1>1, <1>7, <1>8, <1>9, <1>10, <1>11, <1>12
(* A call that goes on keeps the trail.                                    *)
LEMMA ContinuesOwned ==
    ASSUME TypeInv, CallInv, NEW t \in Threads, Continue(t), Listed(mem[Host[t]]), Owned(t)
    PROVE  Listed(mem'[Host[t]]) /\ Owned(t)'
  <1> DEFINE m == mem[Host[t]]
             c == call[t]
             Good == Listed(mem'[Host[t]]) /\ Owned(t)'
  <1> USE DEF provider, repository
  <1>1. /\ m \in Memory /\ c \in Call /\ c.view \in Identity /\ c.run \in Nat
        /\ c.pc # "idle" => c.id \in Ids
        /\ {"success", "attention"} \subseteq Outcomes
    BY CallType DEF Outcomes
  <1>2. ASSUME NEW n, SetMem(t, n) PROVE mem'[Host[t]] = n
    BY <1>2, CallType DEF SetMem, TypeInv, TypeOK
  <1>3. ASSUME NEW d, call' = [call EXCEPT ![t] = d] PROVE call'[t] = d
    BY <1>3 DEF TypeInv, TypeOK
  <1>4. ASSUME Return(t), Listed(mem'[Host[t]]) PROVE Good
    BY <1>4, ReturnType, NoCallType DEF Owned, Auditing, Delivering, InDelivery
  (* The call moves on, and at most audits something for its identity.     *)
  <1>5. ASSUME c.pc \in Auditing,
               \/ UNCHANGED mem
               \/ \E n \in Memory : SetMem(t, n) /\ n.runs = m.runs /\ Touches(m, n, c.id)
        PROVE  /\ Listed(mem'[Host[t]])
               /\ mem'[Host[t]].identities[c.id].state # "absent"
               /\ mem'[Host[t]].runs = m.runs
    <2>1. CASE UNCHANGED mem
      BY <1>5, <2>1 DEF Owned
    <2>2. CASE \E n \in Memory : SetMem(t, n) /\ n.runs = m.runs /\ Touches(m, n, c.id)
      <3>1. PICK n \in Memory : SetMem(t, n) /\ n.runs = m.runs /\ Touches(m, n, c.id)
        BY <2>2
      <3>2. mem'[Host[t]] = n /\ c.id \in Ids
        BY <1>1, <1>2, <1>5, <3>1 DEF Auditing
      <3>3. QED
        BY <1>1, <3>1, <3>2, TouchedListed DEF Touches
    <2>3. QED
      BY <1>5, <2>1, <2>2
  <1>6. ASSUME c.pc \in Auditing, NEW d,
               \/ UNCHANGED mem
               \/ \E n \in Memory : SetMem(t, n) /\ n.runs = m.runs /\ Touches(m, n, c.id),
               call' = [call EXCEPT ![t] = d], d.op = c.op, d.id = c.id, d.run = c.run,
               d.pc # "adopt",
               d.pc \in InDelivery => c.pc \in InDelivery
        PROVE  Good
    <2>1. call'[t] = d
      BY <1>3, <1>6
    <2>2. /\ Listed(mem'[Host[t]])
          /\ mem'[Host[t]].identities[d.id].state # "absent"
          /\ mem'[Host[t]].runs = m.runs
      BY <1>5, <1>6
    <2>3. Delivering(d) => Done(mem'[Host[t]], d)
      BY <1>6, <2>2 DEF Owned, Delivering, Done
    <2>4. QED
      BY <1>6, <2>1, <2>2, <2>3 DEF Owned
  <1>7. ASSUME NEW kind \in EventKinds, c.pc \in Auditing,
               \/ UNCHANGED mem
               \/ SetMem(t, addEvent(m, c.id, kind, "attention", 0))
               \/ SetMem(t, addEvent(m, c.id, kind, "success", 0))
        PROVE  \/ UNCHANGED mem
               \/ \E n \in Memory : SetMem(t, n) /\ n.runs = m.runs /\ Touches(m, n, c.id)
    <2>1. m.identities[c.id].state # "absent" /\ c.id \in Ids
      BY <1>1, <1>7 DEF Owned, Auditing
    <2>2. QED
      BY <1>1, <1>7, <2>1, EventTouches
  <1>8. CASE RotateFail(t)
    <2> DEFINE f == finishRun(setIdentity(m, c.id, returned(c.view)), c.id, c.run,
                              "failed", 0)
    <2>1. SetMem(t, f) /\ Return(t) /\ c.pc = "rotating"
      BY <1>8, Zenon DEF RotateFail, persistLocked
    <2>2. returned(c.view) \in Identity /\ returned(c.view).state = "active"
      BY <1>1 DEF Identity, States, returned
    <2>3. Touches(m, f, c.id)
      BY <1>1, <2>1, <2>2, FinishTouches
    <2> HIDE DEF f
    <2>4. QED
      BY <1>1, <1>2, <1>4, <2>1, <2>3, TouchedListed
  <1>9. CASE RotateSucceed(t)
    <2> DEFINE identity == [NoIdentity EXCEPT !.state = "active", !.key = nextKey + 1]
               f == finishRun(setIdentity(m, c.id, identity), c.id, c.run,
                              "succeeded", nextKey + 1)
               d == [c EXCEPT !.pc = "consume", !.view = identity]
    <2>1. SetMem(t, f) /\ call' = [call EXCEPT ![t] = d] /\ c.pc = "rotating"
      BY <1>9, Zenon DEF RotateSucceed, Proceed
    <2>2. nextKey + 1 \in Nat
      BY DEF TypeInv, TypeOK
    <2>3. identity \in Identity /\ identity.state = "active"
      BY <2>2 DEF NoIdentity, Identity, States
    <2> HIDE DEF identity
    <2>4. /\ Touches(m, f, c.id)
          /\ \E r \in f.runs : r.n = c.run /\ r.id = c.id /\ r.status = "succeeded"
      BY <1>1, <2>1, <2>2, <2>3, FinishTouches
    <2>5. d.pc = "consume" /\ d.id = c.id /\ d.run = c.run
      BY <1>1 DEF Call
    <2> HIDE DEF f, d
    <2>6. mem'[Host[t]] = f /\ call'[t] = d
      BY <1>2, <1>3, <2>1
    <2>7. Owned(t)'
      BY <2>4, <2>5, <2>6 DEF Owned, Touches, Done
    <2>8. QED
      BY <1>1, <2>1, <2>4, <2>6, <2>7, TouchedListed
  <1>10. CASE RotateConsume(t)
    <2> DEFINE place(secret) == IF secret = 0 THEN "persist" ELSE "deliver"
               d(secret) == [c EXCEPT !.secret = secret, !.pc = place(secret)]
    <2>1. PICK secret : UNCHANGED mem /\ call' = [call EXCEPT ![t] = d(secret)]
                        /\ c.pc = "consume"
      BY <1>10, Zenon DEF RotateConsume, Proceed
    <2>2. /\ d(secret).op = c.op /\ d(secret).id = c.id /\ d(secret).run = c.run
          /\ d(secret).pc \in {"persist", "deliver"}
      BY <1>1 DEF Call
    <2> HIDE DEF d
    <2>3. QED
      BY <1>6, <2>1, <2>2 DEF Auditing, InDelivery
  <1>11. CASE RotatePersist(t)
    BY <1>2, <1>4, <1>11 DEF RotatePersist, persistLocked
  <1>12. CASE DeliverToVault(t) \/ MirrorToCommonVault(t)
    <2> DEFINE kind(w) == IF w = "native" THEN "delivered" ELSE "mirrored"
               place(w, refs) == afterDelivery(w, c.op, refs)
               d1(w) == [c EXCEPT !.pc = place(w, c.view.refs)]
               d2(w) == [c EXCEPT !.view.refs = @ \cup {w},
                                  !.pc = place(w, c.view.refs \cup {w})]
    <2>1. PICK w \in {"native", "common"} :
            /\ \/ UNCHANGED mem
               \/ SetMem(t, addEvent(m, c.id, kind(w), "attention", 0))
               \/ SetMem(t, addEvent(m, c.id, kind(w), "success", 0))
            /\ call' = [call EXCEPT ![t] = d1(w)] \/ call' = [call EXCEPT ![t] = d2(w)]
      BY <1>12, Zenon DEF DeliverToVault, MirrorToCommonVault, Deliver, Goto, Proceed
    <2>2. c.pc \in {"deliver", "mirror"} /\ kind(w) \in EventKinds
      BY <1>12 DEF DeliverToVault, MirrorToCommonVault, EventKinds
    <2>3. \A refs : place(w, refs) # "adopt"
      BY DEF afterDelivery, persistPlace
    <2> HIDE DEF place, kind
    <2>4. /\ d1(w).op = c.op /\ d1(w).id = c.id /\ d1(w).run = c.run
          /\ d1(w).pc = place(w, c.view.refs)
          /\ d2(w).op = c.op /\ d2(w).id = c.id /\ d2(w).run = c.run
          /\ d2(w).pc = place(w, c.view.refs \cup {w})
      BY <1>1 DEF Call
    <2> HIDE DEF d1, d2
    <2>5. c.pc \in Auditing /\ c.pc \in InDelivery
      BY <2>2 DEF Auditing, InDelivery
    <2>6. \/ UNCHANGED mem
          \/ \E n \in Memory : SetMem(t, n) /\ n.runs = m.runs /\ Touches(m, n, c.id)
      BY <1>7, <2>1, <2>2, <2>5
    <2>7. QED
      BY <1>6, <2>1, <2>3, <2>4, <2>5, <2>6
  <1>13. CASE RecordReferences(t)
    <2> DEFINE s == setIdentity(m, c.id, c.view)
               d == [c EXCEPT !.pc = persistPlace(c.op)]
    <2>1. SetMem(t, s) /\ call' = [call EXCEPT ![t] = d] /\ c.pc = "record"
      BY <1>13, Zenon DEF RecordReferences, Goto, Proceed
    <2>2. c.view.state = "active" /\ c.id \in Ids
      BY <1>1, <2>1 DEF CallInv, Sound, Writing
    <2>3. s \in Memory /\ s.runs = m.runs /\ Touches(m, s, c.id)
      BY <1>1, <2>2, WriteTouches
    <2>4. /\ d.op = c.op /\ d.id = c.id /\ d.run = c.run /\ d.pc # "adopt"
          /\ c.pc \in Auditing /\ c.pc \in InDelivery
      BY <1>1, <2>1 DEF Call, persistPlace, Auditing, InDelivery
    <2> HIDE DEF s, d
    <2>5. QED
      BY <1>6, <2>1, <2>3, <2>4
  <1>14. CASE ProvisionReject(t) \/ ProvisionSave(t)
    BY <1>4, <1>14 DEF ProvisionReject, ProvisionSave
  <1>15. CASE ProvisionAdopt(t)
    <2> DEFINE s == setIdentity(m, c.id, c.view)
               a == addEvent(s, c.id, "discovered", "success", 0)
               b == addEvent(a, c.id, "registered", "success", 0)
               d == [c EXCEPT !.pc = "deliver"]
    <2>1. SetMem(t, b) /\ call' = [call EXCEPT ![t] = d] /\ c.pc = "adopt"
      BY <1>15, Zenon DEF ProvisionAdopt, Goto, Proceed
    <2>2. /\ c.view.state = "active" /\ c.id \in Ids /\ c.op = "provision"
          /\ {"discovered", "registered"} \subseteq EventKinds
      BY <1>1, <2>1 DEF CallInv, Sound, Writing, EventKinds, Owned
    <2>3. s \in Memory /\ Touches(m, s, c.id)
      BY <1>1, <2>2, WriteTouches
    <2> HIDE DEF s
    <2>4. a \in Memory /\ Touches(s, a, c.id)
      BY <1>1, <2>2, <2>3, EventTouches DEF Touches
    <2> HIDE DEF a
    <2>5. Touches(a, b, c.id)
      BY <1>1, <2>2, <2>4, EventTouches DEF Touches
    <2> HIDE DEF b
    <2>6. Touches(m, b, c.id)
      BY <2>3, <2>4, <2>5, TouchesTrans
    <2>7. d.op = c.op /\ d.id = c.id /\ d.pc = "deliver"
      BY <1>1 DEF Call
    <2> HIDE DEF d
    <2>8. mem'[Host[t]] = b /\ call'[t] = d
      BY <1>2, <1>3, <2>1
    <2>9. Owned(t)'
      BY <2>2, <2>6, <2>7, <2>8 DEF Owned, Touches, Delivering
    <2>10. QED
      BY <1>1, <2>2, <2>6, <2>8, <2>9, TouchedListed
  <1>16. CASE ProvisionSnapshot(t)
    <2> DEFINE c1 == [c EXCEPT !.snap.identities = m.identities, !.pc = "copyEvents"]
               c2 == [c EXCEPT !.snap.events = m.events, !.pc = "copyRuns"]
               c3 == [c EXCEPT !.snap.runs = m.runs, !.snap.nextEvent = m.nextEvent,
                               !.snap.nextRun = m.nextRun, !.pc = "save"]
    <2>1. /\ UNCHANGED mem
          /\ \/ call' = [call EXCEPT ![t] = c1] \/ call' = [call EXCEPT ![t] = c2]
             \/ call' = [call EXCEPT ![t] = c3]
      BY <1>16, Zenon DEF ProvisionSnapshot, CopyPart, Proceed
    <2>2. c1.pc = "copyEvents" /\ c2.pc = "copyRuns" /\ c3.pc = "save"
      BY <1>1 DEF Call
    <2> HIDE DEF c1, c2, c3
    <2>3. call'[t].pc \in {"copyEvents", "copyRuns", "save"}
      BY <1>3, <2>1, <2>2
    <2>4. QED
      BY <2>1, <2>3 DEF Owned, Auditing, Delivering, InDelivery
  <1>17. CASE RevokeFromVault(t) \/ RevokeFromCommonVault(t)
    <2> DEFINE kind(w) == IF w = "native" THEN "revoked" ELSE "unmirrored"
               d(place) == [c EXCEPT !.pc = place]
    <2>1. PICK w \in {"native", "common"} :
            \/ UNCHANGED mem
            \/ SetMem(t, addEvent(m, c.id, kind(w), "attention", 0))
            \/ SetMem(t, addEvent(m, c.id, kind(w), "success", 0))
      BY <1>17, Zenon DEF RevokeFromVault, RevokeFromCommonVault, Revoke
    <2>2. /\ c.pc \in Auditing /\ kind(w) \in EventKinds
          /\ Goto(t, "revokeCommon") \/ Goto(t, "purge") \/ Return(t)
      BY <1>17 DEF RevokeFromVault, RevokeFromCommonVault, Auditing, EventKinds
    <2>3. \A place : Goto(t, place) => call' = [call EXCEPT ![t] = d(place)]
      BY DEF Goto, Proceed
    <2> HIDE DEF kind
    <2>4. \/ UNCHANGED mem
          \/ \E n \in Memory : SetMem(t, n) /\ n.runs = m.runs /\ Touches(m, n, c.id)
      BY <1>7, <2>1, <2>2
    <2>5. \A place \in {"revokeCommon", "purge"} :
            /\ d(place).op = c.op /\ d(place).id = c.id /\ d(place).run = c.run
            /\ d(place).pc = place
      BY <1>1 DEF Call
    <2> HIDE DEF d
    <2>6. CASE Return(t)
      BY <1>4, <1>5, <2>2, <2>4, <2>6
    <2>7. ASSUME NEW place \in {"revokeCommon", "purge"}, call' = [call EXCEPT ![t] = d(place)]
          PROVE  Good
      <3>1. place # "adopt" /\ place \notin InDelivery
        BY DEF InDelivery
      <3>2. QED
        BY <1>6, <2>2, <2>4, <2>5, <2>7, <3>1
    <2>8. QED
      BY <2>3, <2>2, <2>6, <2>7
  <1>18. CASE DeletePurge(t)
    <2> DEFINE p == purge(m, c.id)
    <2>1. Return(t) /\ c.pc = "purge" /\ (UNCHANGED mem \/ SetMem(t, p))
      BY <1>18, Zenon DEF DeletePurge, persistLocked
    <2>2. /\ p.identities = [m.identities EXCEPT ![c.id] = NoIdentity]
          /\ p.events = {e \in m.events : e.id # c.id}
          /\ m.identities \in [Ids -> Identity] /\ m.events \subseteq Event
      BY <1>1, <2>1, PurgeFields DEF Memory
    <2> HIDE DEF p
    <2>3. Listed(p)
      BY <2>2 DEF Listed, Event
    <2>4. QED
      BY <1>2, <1>4, <2>1, <2>3
  <1>19. CASE UseRead(t)
    <2> DEFINE d(s) == [c EXCEPT !.secret = s, !.pc = "audit"]
    <2>1. /\ UNCHANGED mem /\ c.pc = "read"
          /\ Return(t) \/ \E s : call' = [call EXCEPT ![t] = d(s)]
      BY <1>19, Zenon DEF UseRead, ReadSecret, Proceed
    <2>2. \A s : d(s).op = c.op /\ d(s).id = c.id /\ d(s).run = c.run /\ d(s).pc = "audit"
      BY <1>1 DEF Call
    <2> HIDE DEF d
    <2>3. QED
      BY <1>4, <1>6, <2>1, <2>2 DEF Auditing, InDelivery
  <1>20. CASE UseAudit(t)
    <2>1. /\ SetMem(t, addEvent(m, c.id, "used", "success", 0)) /\ Return(t)
          /\ c.pc \in Auditing /\ "used" \in EventKinds
      BY <1>20 DEF UseAudit, persistLocked, Auditing, EventKinds
    <2>2. QED
      BY <1>4, <1>5, <1>7, <2>1
  <1>21. QED
    BY <1>8, <1>9, <1>10, <1>11, <1>12, <1>13, <1>14, <1>15, <1>16, <1>17, <1>18, <1>19,
       <1>20 DEF Continue
(* A call moves alone, writes one memory, and saves what it has there or   *)
(* what it copied.                                                         *)
LEMMA OneMemory ==
    ASSUME TypeInv, CallInv, NEW t \in Threads, Begin(t) \/ Continue(t)
    PROVE  /\ Others(t)
           /\ \A i \in Instances \ {Host[t]} : mem'[i] = mem[i]
           /\ \/ snapshot' \in {snapshot, mem'[Host[t]]}
              \/ call[t].pc = "save" /\ snapshot' = call[t].snap
  <1>1. CASE Quiet(t)
    BY <1>1 DEF Quiet, Critical, Persisted, Others
  <1>2. CASE Rotating(t)
    <2>1. /\ \E m : SetMem(t, m)
          /\ \E c : call' = [call EXCEPT ![t] = c]
      BY <1>2, Zenon DEF Rotating, RotateBegin, RotateFail, RotateSucceed, persistLocked,
                         Proceed, Return
    <2>2. \/ UNCHANGED snapshot
          \/ \E m : SetMem(t, m) /\ \E result \in PersistResults : Save(m, result)
      BY <1>2, Zenon DEF Rotating, RotateBegin, RotateFail, RotateSucceed, persistLocked,
                         repository
    <2>3. \A m : SetMem(t, m) => mem'[Host[t]] = m
      BY CallType DEF SetMem, TypeInv, TypeOK
    <2>4. \A m, result : Save(m, result) => snapshot' \in {m, snapshot}
      BY DEF Save, repository
    <2>5. snapshot' \in {snapshot, mem'[Host[t]]}
      BY <2>2, <2>3, <2>4
    <2>6. QED
      BY <2>1, <2>5 DEF Others, SetMem, TypeInv, TypeOK
  <1>3. QED
    BY <1>1, <1>2, CallEffects

LEMMA AuditStep ==
    ASSUME Sequential, TypeInv, CallInv, CopyInv, AuditInv, [Next]_vars
    PROVE  AuditInv'
  <1>1. CASE UNCHANGED vars
    BY <1>1 DEF vars, AuditInv, Owned, Done
  <1>2. ASSUME NEW t \in Threads, Begin(t) \/ Continue(t) PROVE AuditInv'
    <2>1. /\ Host[t] \in Instances
          /\ Listed(mem[Host[t]]) /\ Owned(t)
      BY CallType DEF AuditInv
    <2>2. Listed(mem'[Host[t]]) /\ Owned(t)'
      BY <1>2, <2>1, OpensOwned, ContinuesOwned
    <2>3. /\ Others(t)
          /\ \A i \in Instances \ {Host[t]} : mem'[i] = mem[i]
          /\ \/ snapshot' \in {snapshot, mem'[Host[t]]}
             \/ call[t].pc = "save" /\ snapshot' = call[t].snap
      BY <1>2, OneMemory
    <2>4. call[t].pc = "save" => Listed(call[t].snap)
      BY <2>1 DEF CopyInv, Copied, Copies, Listed
    <2>5. Listed(snapshot')
      BY <2>2, <2>3, <2>4 DEF AuditInv
    <2>6. ASSUME NEW u \in Threads \ {t} PROVE Owned(u)'
      <3>1. Host[u] # Host[t] /\ Host[u] \in Instances
        BY CallType DEF Sequential, OneCaller
      <3>2. call'[u] = call[u] /\ mem'[Host[u]] = mem[Host[u]]
        BY <2>3, <3>1 DEF Others
      <3>3. QED
        BY <3>2 DEF AuditInv, Owned, Done
    <2>7. \A i \in Instances : Listed(mem'[i])
      BY <2>2, <2>3 DEF AuditInv
    <2>8. QED
      BY <2>2, <2>5, <2>6, <2>7 DEF AuditInv
  <1>3. ASSUME NEW i \in Instances, Environment(i) PROVE AuditInv'
    <2>1. Restart(i)
      BY <1>3 DEF Environment, WatchLoad, WatchRestore, LoseNotice, CopyInv, Still
    <2> DEFINE a == restoreLocked(EmptyMemory, snapshot)
    <2>2. a.identities = snapshot.identities /\ a.events = snapshot.events
      BY EmptyMemoryType, RestoreFields DEF TypeInv, TypeOK
    <2>3. Listed(a)
      BY <2>2 DEF AuditInv, Listed
    <2> HIDE DEF a
    <2>4. /\ UNCHANGED snapshot
          /\ mem'[i] = a /\ \A j \in Instances \ {i} : mem'[j] = mem[j]
          /\ \A t \in Threads : call'[t] = IF Host[t] = i THEN NoCall ELSE call[t]
      BY <2>1 DEF Restart, TypeInv, TypeOK, a
    <2>5. ASSUME NEW t \in Threads PROVE Owned(t)'
      <3>1. CASE Host[t] = i
        BY <2>4, <3>1, NoCallType DEF Owned, Auditing, Delivering, InDelivery
      <3>2. CASE Host[t] # i
        <4>1. call'[t] = call[t] /\ mem'[Host[t]] = mem[Host[t]]
          BY <2>4, <3>2, CallType
        <4>2. QED
          BY <4>1 DEF AuditInv, Owned, Done
      <3>3. QED
        BY <3>1, <3>2
    <2>6. QED
      BY <2>3, <2>4, <2>5 DEF AuditInv
  <1>4. QED
    BY <1>1, <1>2, <1>3 DEF Next

LEMMA AuditInvariant == ASSUME Sequential PROVE Spec => []AuditInv
  <1>1. Init => AuditInv
    <2>1. Init => \A t \in Threads : Owned(t)
      BY NoCallType DEF Init, Owned, Auditing, Delivering, InDelivery
    <2>2. QED
      BY <2>1, AdoptedListed DEF Init, AuditInv
  <1>2. TypeInv /\ CallInv /\ CopyInv /\ AuditInv /\ [Next]_vars => AuditInv'
    BY AuditStep
  <1>3. QED
    BY <1>1, <1>2, SequentialInvariant, PTL DEF Spec

(* The same promise for a process that serves one call at a time,          *)
(* now with vaults, a repository that fails, restarts from the snapshot    *)
(* and every operation: no audit event outlives its record (addEvent,      *)
(* Delete, restoreLocked).                                                  *)
THEOREM EventsAreOwnedInTurn == ASSUME Sequential PROVE Spec => []NoOrphanEvents
  <1>1. AuditInv => NoOrphanEvents
    BY DEF AuditInv, Listed, NoOrphanEvents
  <1>2. QED
    BY <1>1, AuditInvariant, PTL

-----------------------------------------------------------------------------
(* SavedHistoryStays.  From memory m to n every run and event is kept.     *)
Grows(m, n) == n \in Memory /\ m.events \subseteq n.events /\ m.runs \subseteq n.runs

(* What a step of call t keeps of its memory: everything, or all but what  *)
(* it purges, or all but the run it finishes.                              *)
Remembers(t) ==
    LET m == mem[Host[t]]
        n == mem'[Host[t]]
        c == call[t]
    IN  /\ \A e \in m.events : \/ e \in n.events
                               \/ DeletePurge(t) /\ e.id = c.id
        /\ \A r \in m.runs : \/ r \in n.runs
                             \/ DeletePurge(t) /\ r.id = c.id
                             \/ c.pc = "rotating" /\ r.n = c.run

LEMMA EventGrows ==
    ASSUME NEW m \in Memory, NEW id \in Ids, NEW kind \in EventKinds,
           NEW outcome \in Outcomes, NEW run \in Nat
    PROVE  Grows(m, addEvent(m, id, kind, outcome, run))
  BY AddEventFields DEF Grows

LEMMA SetGrows ==
    ASSUME NEW m \in Memory, NEW id \in Ids, NEW identity \in Identity
    PROVE  Grows(m, setIdentity(m, id, identity))
  BY SetIdentityFields DEF Grows

LEMMA GrowsTrans ==
    ASSUME NEW a, NEW b, NEW c, Grows(a, b), Grows(b, c) PROVE Grows(a, c)
  BY DEF Grows

LEMMA GrownRemembers ==
    ASSUME TypeInv, NEW t \in Threads,
           \/ UNCHANGED mem
           \/ \E n : SetMem(t, n) /\ Grows(mem[Host[t]], n)
    PROVE  Remembers(t)
  <1>1. CASE UNCHANGED mem
    BY <1>1 DEF Remembers
  <1>2. ASSUME NEW n, SetMem(t, n), Grows(mem[Host[t]], n) PROVE Remembers(t)
    <2>1. mem'[Host[t]] = n
      BY <1>2, CallType DEF SetMem, TypeInv, TypeOK
    <2>2. QED
      BY <1>2, <2>1 DEF Remembers, Grows
  <1>3. QED
    BY <1>1, <1>2

LEMMA BeginRemembers ==
    ASSUME TypeInv, NEW t \in Threads, Begin(t) PROVE Remembers(t)
  <1> DEFINE m == mem[Host[t]]
  <1>1. PICK id \in Ids : \/ Register(t, id) \/ RotateBegin(t, id)
                          \/ ProvisionCreate(t, id) \/ Retire(t, id)
                          \/ RetireFail(t, id) \/ DeleteBegin(t, id)
                          \/ UseBegin(t, id)
    BY DEF Begin
  <1>2. /\ m \in Memory /\ m.identities[id] \in Identity
        /\ "success" \in Outcomes /\ {"registered", "retired"} \subseteq EventKinds
    BY CallType DEF Memory, Outcomes, EventKinds
  <1>3. ASSUME NEW identity \in Identity, NEW kind \in {"registered", "retired"},
               SetMem(t, addEvent(setIdentity(m, id, identity), id, kind, "success", 0))
        PROVE  Remembers(t)
    <2> DEFINE s == setIdentity(m, id, identity)
               a == addEvent(s, id, kind, "success", 0)
    <2>1. s \in Memory /\ Grows(m, s)
      BY <1>2, SetGrows DEF Grows
    <2> HIDE DEF s
    <2>2. Grows(m, a)
      BY <1>2, <2>1, EventGrows, GrowsTrans
    <2>3. SetMem(t, a)
      BY <1>3 DEF s
    <2> HIDE DEF a
    <2>4. QED
      BY <2>2, <2>3, GrownRemembers
  <1>4. CASE Register(t, id)
    <2>1. PICK key \in issued[id] \cup {0} :
            persistLocked(t, addEvent(setIdentity(m, id, [NoIdentity EXCEPT !.state = "active",
                                                                            !.key = key]),
                                      id, "registered", "success", 0))
      BY <1>4, Zenon DEF Register
    <2>2. key \in Nat
      BY DEF TypeInv, TypeOK
    <2>3. [NoIdentity EXCEPT !.state = "active", !.key = key] \in Identity
      BY <2>2 DEF NoIdentity, Identity, States
    <2>4. QED
      BY <1>3, <2>1, <2>3 DEF persistLocked
  <1>5. CASE RotateBegin(t, id)
    <2>1. SetMem(t, startRun(m, id))
      BY <1>5, Zenon DEF RotateBegin
    <2>2. Grows(m, startRun(m, id))
      BY <1>2, StartRunFields DEF Grows
    <2>3. QED
      BY <2>1, <2>2, GrownRemembers
  <1>6. CASE Retire(t, id)
    <2> DEFINE identity == [m.identities[id] EXCEPT !.state = "retired", !.key = 0,
                                                    !.health = "attention"]
    <2>1. SetMem(t, addEvent(setIdentity(m, id, identity), id, "retired", "success", 0))
      BY <1>6, Zenon DEF Retire
    <2>2. identity \in Identity
      BY <1>2 DEF Identity, States
    <2>3. QED
      BY <1>3, <2>1, <2>2
  <1>7. CASE \/ ProvisionCreate(t, id) \/ RetireFail(t, id) \/ DeleteBegin(t, id)
             \/ UseBegin(t, id)
    BY <1>7, GrownRemembers DEF ProvisionCreate, RetireFail, DeleteBegin, UseBegin
  <1>8. QED
    BY <1>1, <1>4, <1>5, <1>6, <1>7

LEMMA ContinueRemembers ==
    ASSUME TypeInv, CallInv, NEW t \in Threads, Continue(t) PROVE Remembers(t)
  <1> DEFINE m == mem[Host[t]]
             c == call[t]
  <1>1. /\ m \in Memory /\ c \in Call /\ c.view \in Identity /\ c.run \in Nat
        /\ c.pc # "idle" => c.id \in Ids
        /\ {"success", "attention"} \subseteq Outcomes
    BY CallType DEF Outcomes
  <1>2. ASSUME NEW kind \in EventKinds, NEW outcome \in Outcomes, c.pc # "idle",
               SetMem(t, addEvent(m, c.id, kind, outcome, 0))
        PROVE  Remembers(t)
    BY <1>1, <1>2, EventGrows, GrownRemembers
  <1>3. ASSUME NEW identity \in Identity, c.pc = "rotating", NEW key \in Nat,
               NEW status \in {"succeeded", "failed"},
               SetMem(t, finishRun(setIdentity(m, c.id, identity), c.id, c.run, status, key))
        PROVE  Remembers(t)
    <2> DEFINE s == setIdentity(m, c.id, identity)
               f == finishRun(s, c.id, c.run, status, key)
    <2>1. s \in Memory /\ s.events = m.events /\ s.runs = m.runs
      BY <1>1, <1>3, SetIdentityFields
    <2>2. SetMem(t, f)
      BY <1>3
    <2> HIDE DEF s
    <2>3. s.events \subseteq f.events /\ \A r \in s.runs : r.n # c.run => r \in f.runs
      BY <1>1, <1>3, <2>1, FinishRunFields
    <2> HIDE DEF f
    <2>4. mem'[Host[t]] = f
      BY <2>2, CallType DEF SetMem, TypeInv, TypeOK
    <2>5. QED
      BY <1>3, <2>1, <2>3, <2>4 DEF Remembers
  <1>4. CASE RotateFail(t)
    <2>1. /\ c.pc = "rotating"
          /\ SetMem(t, finishRun(setIdentity(m, c.id, returned(c.view)), c.id, c.run, "failed", 0))
      BY <1>4, Zenon DEF RotateFail, persistLocked
    <2>2. returned(c.view) \in Identity
      BY <1>1 DEF returned, Identity, States
    <2>3. QED
      BY <1>3, <2>1, <2>2
  <1>5. CASE RotateSucceed(t)
    <2> DEFINE identity == [NoIdentity EXCEPT !.state = "active", !.key = nextKey + 1]
    <2>1. /\ c.pc = "rotating"
          /\ SetMem(t, finishRun(setIdentity(m, c.id, identity), c.id, c.run, "succeeded",
                                 nextKey + 1))
      BY <1>5, Zenon DEF RotateSucceed
    <2>2. nextKey + 1 \in Nat
      BY DEF TypeInv, TypeOK
    <2>3. identity \in Identity
      BY <2>2 DEF NoIdentity, Identity, States
    <2>4. QED
      BY <1>3, <2>1, <2>2, <2>3
  <1>6. CASE \/ RotateConsume(t) \/ ProvisionReject(t) \/ ProvisionSnapshot(t)
             \/ ProvisionSave(t) \/ UseRead(t)
    BY <1>6, GrownRemembers
    DEF RotateConsume, ProvisionReject, ProvisionSnapshot, ProvisionSave, UseRead
  <1>7. CASE RotatePersist(t)
    <2>1. SetMem(t, m) /\ Grows(m, m)
      BY <1>1, <1>7 DEF RotatePersist, persistLocked, Grows
    <2>2. QED
      BY <2>1, GrownRemembers
  <1>8. ASSUME NEW w \in {"native", "common"}, c.pc # "idle", Deliver(t, w) \/ Revoke(t, w)
        PROVE  Remembers(t)
    <2> DEFINE delivery   == IF w = "native" THEN "delivered" ELSE "mirrored"
               revocation == IF w = "native" THEN "revoked" ELSE "unmirrored"
    <2>1. delivery \in EventKinds /\ revocation \in EventKinds
      BY DEF EventKinds
    <2>2. ASSUME NEW kind \in EventKinds
          PROVE  /\ SetMem(t, addEvent(m, c.id, kind, "attention", 0)) => Remembers(t)
                 /\ SetMem(t, addEvent(m, c.id, kind, "success", 0)) => Remembers(t)
      BY <1>1, <1>2, <1>8
    <2>3. UNCHANGED mem => Remembers(t)
      BY GrownRemembers
    <2>4. CASE Deliver(t, w)
      <3>1. \/ UNCHANGED mem
            \/ SetMem(t, addEvent(m, c.id, delivery, "attention", 0))
            \/ SetMem(t, addEvent(m, c.id, delivery, "success", 0))
        BY <2>4, Zenon DEF Deliver
      <3> HIDE DEF delivery
      <3>2. QED
        BY <2>1, <2>2, <2>3, <3>1
    <2>5. CASE Revoke(t, w)
      <3>1. \/ UNCHANGED mem
            \/ SetMem(t, addEvent(m, c.id, revocation, "attention", 0))
            \/ SetMem(t, addEvent(m, c.id, revocation, "success", 0))
        BY <2>5, Zenon DEF Revoke
      <3> HIDE DEF revocation
      <3>2. QED
        BY <2>1, <2>2, <2>3, <3>1
    <2>6. QED
      BY <1>8, <2>4, <2>5
  <1>9. CASE \/ DeliverToVault(t) \/ MirrorToCommonVault(t)
             \/ RevokeFromVault(t) \/ RevokeFromCommonVault(t)
    BY <1>8, <1>9 DEF DeliverToVault, MirrorToCommonVault, RevokeFromVault,
                      RevokeFromCommonVault
  <1>10. CASE RecordReferences(t)
    <2>1. SetMem(t, setIdentity(m, c.id, c.view)) /\ c.pc # "idle"
      BY <1>10 DEF RecordReferences
    <2>2. QED
      BY <1>1, <2>1, SetGrows, GrownRemembers
  <1>11. CASE ProvisionAdopt(t)
    <2> DEFINE s == setIdentity(m, c.id, c.view)
               a == addEvent(s, c.id, "discovered", "success", 0)
               b == addEvent(a, c.id, "registered", "success", 0)
    <2>1. SetMem(t, b) /\ c.id \in Ids /\ {"discovered", "registered"} \subseteq EventKinds
      BY <1>1, <1>11, Zenon DEF ProvisionAdopt, EventKinds
    <2>2. s \in Memory /\ Grows(m, s)
      BY <1>1, <2>1, SetGrows DEF Grows
    <2> HIDE DEF s
    <2>3. a \in Memory /\ Grows(s, a)
      BY <1>1, <2>1, <2>2, EventGrows DEF Grows
    <2> HIDE DEF a
    <2>4. Grows(a, b)
      BY <1>1, <2>1, <2>3, EventGrows
    <2> HIDE DEF b
    <2>5. QED
      BY <2>1, <2>2, <2>3, <2>4, GrowsTrans, GrownRemembers
  <1>12. CASE DeletePurge(t)
    <2> DEFINE p == purge(m, c.id)
    <2>1. c.pc = "purge" /\ (UNCHANGED mem \/ SetMem(t, p))
      BY <1>12, Zenon DEF DeletePurge, persistLocked
    <2>2. p.events = {e \in m.events : e.id # c.id} /\ p.runs = {r \in m.runs : r.id # c.id}
      BY <1>1, <2>1, PurgeFields
    <2> HIDE DEF p
    <2>3. CASE SetMem(t, p)
      <3>1. mem'[Host[t]] = p
        BY <2>3, CallType DEF SetMem, TypeInv, TypeOK
      <3>2. QED
        BY <1>12, <2>2, <3>1 DEF Remembers
    <2>4. QED
      BY <2>1, <2>3, GrownRemembers
  <1>13. CASE UseAudit(t)
    <2>1. /\ SetMem(t, addEvent(m, c.id, "used", "success", 0))
          /\ c.pc # "idle" /\ "used" \in EventKinds
      BY <1>13 DEF UseAudit, persistLocked, EventKinds
    <2>2. QED
      BY <1>1, <1>2, <2>1
  <1>14. QED
    BY <1>4, <1>5, <1>6, <1>7, <1>9, <1>10, <1>11, <1>12, <1>13 DEF Continue

(* What is saved as well is kept.                                          *)
Survives ==
    \A i \in Instances : \A id \in Ids :
        \/ /\ SavedRuns(i, id) \subseteq SavedRuns(i, id)'
           /\ SavedEvents(i, id) \subseteq SavedEvents(i, id)'
        \/ \E t \in Threads : call[t].id = id /\ DeletePurge(t)

(* The run that a rotation finishes is running, and no such run is saved.  *)
LEMMA UnsavedRun ==
    ASSUME TypeInv, CallInv, MemInv, NEW t \in Threads, call[t].pc = "rotating",
           NEW r \in mem[Host[t]].runs, r.n = call[t].run
    PROVE  r \notin snapshot.runs
  <1>1. Host[t] \in Instances /\ t \in lock[Host[t]]
    BY CallType DEF CallInv
  <1>2. PICK q \in mem[Host[t]].runs : q.n = call[t].run /\ q.status = "running"
    BY <1>1 DEF MemInv, Alone, Open
  <1>3. r.status = "running"
    BY <1>1, <1>2 DEF MemInv, Numbered
  <1>4. r.id \in Ids
    BY CallType DEF Memory, Run
  <1>5. QED
    BY <1>3, <1>4 DEF MemInv, AllSettled, Settled

LEMMA SurvivesStep ==
    ASSUME Sequential, OneStore, TypeInv, CallInv, MemInv, CopyInv, Next
    PROVE  Survives
  <1>1. ASSUME NEW t \in Threads, Begin(t) \/ Continue(t), NEW i \in Instances, NEW id \in Ids,
               ~ \E u \in Threads : call[u].id = id /\ DeletePurge(u)
        PROVE  /\ SavedRuns(i, id) \subseteq SavedRuns(i, id)'
               /\ SavedEvents(i, id) \subseteq SavedEvents(i, id)'
    <2>1. Remembers(t) /\ i = Host[t]
      BY <1>1, BeginRemembers, ContinueRemembers, CallType DEF OneStore
    <2>2. \/ snapshot' \in {snapshot, mem'[i]}
          \/ snapshot'.runs = mem[i].runs /\ snapshot'.events = mem[i].events
      BY <1>1, <2>1, OneMemory DEF CopyInv, Copied, Copies
    <2>3. ASSUME NEW e \in SavedEvents(i, id) PROVE e \in SavedEvents(i, id)'
      <3>1. e \in mem[i].events /\ e \in snapshot.events /\ e.id = id
        BY <2>3 DEF SavedEvents
      <3>2. e \in mem'[i].events
        BY <1>1, <2>1, <3>1 DEF Remembers
      <3>3. QED
        BY <2>2, <3>1, <3>2 DEF SavedEvents
    <2>4. ASSUME NEW r \in SavedRuns(i, id) PROVE r \in SavedRuns(i, id)'
      <3>1. r \in mem[i].runs /\ r \in snapshot.runs /\ r.id = id
        BY <2>4 DEF SavedRuns
      <3>2. ~ (call[t].pc = "rotating" /\ r.n = call[t].run)
        BY <2>1, <3>1, UnsavedRun
      <3>3. r \in mem'[i].runs
        BY <1>1, <2>1, <3>1, <3>2 DEF Remembers
      <3>4. QED
        BY <2>2, <3>1, <3>3 DEF SavedRuns
    <2>5. QED
      BY <2>3, <2>4
  <1>2. ASSUME NEW i \in Instances, Environment(i) PROVE Survives
    <2>1. Restart(i)
      BY <1>2 DEF Environment, WatchLoad, WatchRestore, LoseNotice, CopyInv, Still
    <2> DEFINE a == restoreLocked(EmptyMemory, snapshot)
    <2>2. a.events = snapshot.events /\ a.runs = snapshot.runs
      BY EmptyMemoryType, RestoreFields DEF TypeInv, TypeOK
    <2> HIDE DEF a
    <2>3. UNCHANGED snapshot /\ \A j \in Instances : mem'[j] = a
      BY <2>1 DEF Restart, TypeInv, TypeOK, OneStore, a
    <2>4. QED
      BY <2>2, <2>3 DEF Survives, SavedRuns, SavedEvents
  <1>3. QED
    BY <1>1, <1>2 DEF Next, Survives

(* In one process that serves one call at a time, and reloads nothing but  *)
(* at its start, the history that is saved survives: no lost write, crash, *)
(* restart or reused run id drops or overwrites a run or an event that the *)
(* memory and the snapshot hold, before Delete purges its identity (Rotate,*)
(* finishRun, persistLocked, restoreLocked).                               *)
THEOREM SavedHistorySurvives ==
    ASSUME Sequential, OneStore PROVE Spec => SavedHistoryStays
  <1>1. TypeInv /\ CallInv /\ MemInv /\ CopyInv /\ [Next]_vars => [Survives]_vars
    BY SurvivesStep
  <1>2. QED
    BY <1>1, SequentialInvariant, PTL DEF Spec, SavedHistoryStays, Survives

-----------------------------------------------------------------------------
(* The lifecycle and the keys for a process that serves one call at a      *)
(* time, now with vaults.  A call knows the state of its record: nobody    *)
(* else changes it.  What a call may write back is the key it was handed.  *)
Turning(t) ==
    LET c == call[t]
        state == mem[Host[t]].identities[c.id].state
    IN  /\ c.pc = "rotating" => state = "renewing"
        /\ c.pc \in {"consume", "deliver", "mirror", "record"} => state = "active"
        /\ c.pc = "adopt" => state = "absent"
        /\ c.pc = "purge" => c.op = "delete"
        /\ Deleting(c) => state = "retired"

Handing(t) == call[t].pc \in Writing => call[t].view.key \in live[call[t].id]

Lawful(from, to) ==
    \/ from = to
    \/ to \in States /\ CanTransition(from, to)
    \/ from = "absent" /\ to = "active"
    \/ from = "retired" /\ to = "absent"

(* Every write of the repository lands, and nobody provisions: a           *)
(* provider's new identity is governed before it is persisted.             *)
Durable == PersistResults \subseteq {"ok", "unpublished"} /\ "provision" \notin Ops

(* The memory of t and the snapshot differ at most in the record that t    *)
(* rotates.                                                                *)
Deferred(t, id, from, to) ==
    \/ from = to /\ call[t].pc # "rotating"
    \/ /\ from = "active" /\ to = "renewing"
       /\ call[t].pc # "rotating" /\ call'[t].pc = "rotating" /\ call'[t].id = id
    \/ from = "renewing" /\ to = "active" /\ call[t].pc = "rotating" /\ call[t].id = id

Healthy(identity) == identity.state = "active" /\ identity.health = "healthy"

(* In one step t writes one record, moves it along the lifecycle, leaves   *)
(* it with a key that works if it is healthy, and persists it or will.     *)
Turn(t, id, identity) ==
    LET m == mem[Host[t]]
        n == mem'[Host[t]]
        from == m.identities[id].state
    IN  /\ n.identities = [m.identities EXCEPT ![id] = identity]
        /\ Lawful(from, identity.state)
        /\ Durable => \/ snapshot'.identities = n.identities
                      \/ UNCHANGED snapshot /\ Deferred(t, id, from, identity.state)
        /\ Handing(t) =>
             /\ \A x \in Ids \ {id} : live'[x] = live[x]
             /\ \/ RetireFail(t, id) \/ Register(t, id)
                \/ Healthy(identity) /\ identity.key # 0 => identity.key \in live'[id]
                \/ identity = m.identities[id] /\ live'[id] = live[id]

Turns(t) == \E id \in Ids, identity \in Identity : Turn(t, id, identity)

TakesTurn(t) == Turns(t) /\ Turning(t)' /\ (Handing(t) => Handing(t)')

(* A step that changes no record.                                          *)
LEMMA LeavesRecords ==
    ASSUME TypeInv, NEW t \in Threads, NEW id \in Ids,
           mem'[Host[t]].identities = mem[Host[t]].identities,
           \/ UNCHANGED snapshot
           \/ snapshot'.identities = mem[Host[t]].identities
           \/ ~ Durable,
           call[t].pc # "rotating", UNCHANGED live
    PROVE  Turns(t)
  <1> DEFINE m == mem[Host[t]]
             identity == m.identities[id]
  <1>1. m.identities \in [Ids -> Identity]
    BY CallType DEF Memory
  <1>2. identity \in Identity /\ mem'[Host[t]].identities = [m.identities EXCEPT ![id] = identity]
    BY <1>1
  <1>3. Turn(t, id, identity)
    BY <1>2 DEF Turn, Lawful, Deferred
  <1>4. QED
    BY <1>2, <1>3 DEF Turns

(* What is persisted is in the snapshot when writes land.                  *)
LEMMA DurableSave ==
    ASSUME NEW m, \E result \in PersistResults : Save(m, result)
    PROVE  (Durable => snapshot' = m) /\ (snapshot' = m \/ UNCHANGED snapshot)
  BY DEF Durable, Save, repository

(* A step that writes the record id, with the mutex held or taken.         *)
LEMMA WritesRecord ==
    ASSUME TypeInv, NEW t \in Threads, NEW id \in Ids, NEW identity \in Identity,
           NEW n \in Memory, SetMem(t, n),
           n.identities = [mem[Host[t]].identities EXCEPT ![id] = identity],
           Lawful(mem[Host[t]].identities[id].state, identity.state),
           Durable => \/ snapshot' = n
                      \/ /\ UNCHANGED snapshot
                         /\ Deferred(t, id, mem[Host[t]].identities[id].state, identity.state),
           Handing(t) => \/ Register(t, id)
                         \/ ~ Healthy(identity) \/ identity.key = 0
                         \/ identity.key \in live'[id],
           \A x \in Ids \ {id} : live'[x] = live[x]
    PROVE  /\ Turns(t) /\ mem'[Host[t]] = n
           /\ mem'[Host[t]].identities[id] = identity
  <1>1. mem'[Host[t]] = n /\ mem[Host[t]].identities \in [Ids -> Identity]
    BY CallType, SetMemType DEF TypeInv, Memory
  <1>2. Turn(t, id, identity)
    BY <1>1 DEF Turn
  <1>3. QED
    BY <1>1, <1>2 DEF Turns

(* A call that ends knows nothing.                                         *)
LEMMA ReturnTurns ==
    ASSUME TypeInv, NEW t \in Threads, Return(t)
    PROVE  Turning(t)' /\ Handing(t)'
  BY ReturnType, NoCallType DEF Turning, Handing, Deleting, Writing

(* A call that begins takes its turn.                                      *)
LEMMA OpensTurn ==
    ASSUME TypeInv, NEW t \in Threads, Begin(t)
    PROVE  TakesTurn(t)
  <1> DEFINE m == mem[Host[t]]
             c == call[t]
  <1> USE DEF provider, repository
  <1>1. PICK id \in Ids : \/ Register(t, id) \/ RotateBegin(t, id)
                          \/ ProvisionCreate(t, id) \/ Retire(t, id)
                          \/ RetireFail(t, id) \/ DeleteBegin(t, id)
                          \/ UseBegin(t, id)
    BY DEF Begin
  <1>2. /\ m \in Memory /\ m.identities \in [Ids -> Identity] /\ c.pc = "idle"
        /\ m.identities[id] \in Identity /\ "success" \in Outcomes
    BY <1>1, CallType
    DEF Memory, Outcomes, Register, RotateBegin, ProvisionCreate, Retire, RetireFail,
        DeleteBegin, UseBegin, Start
  <1>3. ASSUME NEW d, call' = [call EXCEPT ![t] = d] PROVE call'[t] = d
    BY <1>3 DEF TypeInv, TypeOK
  <1>4. ASSUME UNCHANGED call PROVE Turning(t)' /\ Handing(t)'
    BY <1>2, <1>4 DEF Turning, Handing, Deleting, Writing
  <1>5. ASSUME NEW op \in Operations \ {"rotate"}, NEW place \in {"revoke", "read"},
               NEW view \in Identity, Enter(t, op, id, place, view),
               op = "delete" => mem'[Host[t]].identities[id].state = "retired"
        PROVE  Turning(t)' /\ Handing(t)'
    <2> DEFINE d == [NoCall EXCEPT !.pc = place, !.op = op, !.id = id, !.view = view]
    <2>1. d.pc = place /\ d.op = op /\ d.id = id
      BY NoCallType DEF Call
    <2>2. call' = [call EXCEPT ![t] = d]
      BY <1>5 DEF Enter, Proceed
    <2> HIDE DEF d
    <2>3. call'[t] = d
      BY <1>3, <2>2
    <2>4. QED
      BY <1>5, <2>1, <2>3 DEF Turning, Handing, Deleting, Writing
  <1>6. CASE Register(t, id)
    <2>0. PICK key \in issued[id] \cup {0} :
            persistLocked(t, addEvent(setIdentity(m, id, [NoIdentity EXCEPT !.state = "active",
                                                                            !.key = key]),
                                      id, "registered", "success", 0))
      BY <1>6, Zenon DEF Register
    <2>a. key \in Nat
      BY DEF TypeInv, TypeOK
    <2> DEFINE identity == [NoIdentity EXCEPT !.state = "active", !.key = key]
               s == setIdentity(m, id, identity)
               a == addEvent(s, id, "registered", "success", 0)
    <2>1. /\ identity \in Identity /\ identity.state = "active"
          /\ "registered" \in EventKinds
      BY <2>a DEF NoIdentity, Identity, States, EventKinds
    <2> HIDE DEF identity
    <2>2. s \in Memory /\ s.identities = [m.identities EXCEPT ![id] = identity]
      BY <1>2, <2>1, SetIdentityFields
    <2> HIDE DEF s
    <2>3. a \in Memory /\ a.identities = s.identities
      BY <1>2, <2>1, <2>2, EventKeeps
    <2> HIDE DEF a
    <2>4. /\ SetMem(t, a) /\ UNCHANGED <<call, live>>
          /\ \E result \in PersistResults : Save(a, result)
          /\ m.identities[id].state = "absent"
      BY <1>6, <2>0, Zenon DEF Register, persistLocked, a, s, identity
    <2>5. Lawful(m.identities[id].state, identity.state)
      BY <2>1, <2>4 DEF Lawful
    <2>6. Turns(t)
      BY <1>6, <2>1, <2>2, <2>3, <2>4, <2>5, DurableSave, WritesRecord
    <2>7. QED
      BY <1>4, <2>4, <2>6 DEF TakesTurn
  <1>7. CASE RotateBegin(t, id)
    <2> DEFINE identity == [m.identities[id] EXCEPT !.state = "renewing"]
               d == [NoCall EXCEPT !.pc = "rotating", !.op = "rotate", !.id = id,
                       !.view = [m.identities[id] EXCEPT !.state = "renewing"],
                       !.run = m.nextRun + 1]
               s == startRun(m, id)
    <2>1. /\ SetMem(t, s) /\ call' = [call EXCEPT ![t] = d] /\ UNCHANGED <<snapshot, live>>
          /\ m.identities[id].state = "active"
      BY <1>7 DEF RotateBegin, Proceed, CanTransition, AllowedTransitions
    <2>2. d.pc = "rotating" /\ d.id = id /\ d.op = "rotate"
      BY DEF NoCall
    <2>3. identity \in Identity /\ identity.state = "renewing"
      BY <1>2 DEF Identity, States
    <2>4. s \in Memory /\ s.identities = [m.identities EXCEPT ![id] = identity]
      BY <1>2, StartRunFields
    <2> HIDE DEF d, s, identity
    <2>5. call'[t] = d
      BY <1>3, <2>1
    <2>6. /\ Lawful(m.identities[id].state, identity.state)
          /\ Deferred(t, id, m.identities[id].state, identity.state)
          /\ ~ Healthy(identity)
      BY <1>2, <2>1, <2>2, <2>3, <2>5
      DEF Lawful, Deferred, Healthy, CanTransition, AllowedTransitions, States
    <2>7. Turns(t) /\ mem'[Host[t]].identities[id] = identity
      BY <2>1, <2>3, <2>4, <2>6, WritesRecord
    <2>8. Turning(t)' /\ Handing(t)'
      BY <2>2, <2>3, <2>5, <2>7 DEF Turning, Handing, Deleting, Writing
    <2>9. QED
      BY <2>7, <2>8 DEF TakesTurn
  <1>8. CASE ProvisionCreate(t, id)
    <2> DEFINE key == nextKey + 1
               d == [NoCall EXCEPT !.pc = "adopt", !.op = "provision", !.id = id,
                       !.view = [NoIdentity EXCEPT !.state = "active", !.key = key],
                       !.secret = key]
               identity == m.identities[id]
    <2>1. /\ UNCHANGED mem /\ call' = [call EXCEPT ![t] = d]
          /\ live' = [live EXCEPT ![id] = {key}] /\ "provision" \in Ops
          /\ \A i \in Instances : mem[i].identities[id].state = "absent"
      BY <1>8, Zenon DEF ProvisionCreate, Proceed, Start
    <2>2. d.pc = "adopt" /\ d.op = "provision" /\ d.id = id /\ d.view.key = key
      BY DEF NoCall, NoIdentity
    <2> HIDE DEF d
    <2>3. call'[t] = d /\ live'[id] = {key} /\ \A x \in Ids \ {id} : live'[x] = live[x]
      BY <1>3, <2>1 DEF TypeInv, TypeOK
    <2>4. identity.state = "absent" /\ ~ Durable
      BY <2>1, CallType DEF Durable
    <2>5. m.identities = [m.identities EXCEPT ![id] = identity]
      BY <1>2
    <2>6. Turn(t, id, identity)
      BY <2>1, <2>3, <2>4, <2>5 DEF Turn, Lawful, Healthy
    <2>7. Turning(t)' /\ Handing(t)'
      BY <2>1, <2>2, <2>3, <2>4 DEF Turning, Handing, Deleting
    <2>8. QED
      BY <1>2, <2>6, <2>7 DEF TakesTurn, Turns
  <1>9. CASE Retire(t, id)
    <2> DEFINE identity == [m.identities[id] EXCEPT !.state = "retired", !.key = 0,
                                                    !.health = "attention"]
               s == setIdentity(m, id, identity)
               a == addEvent(s, id, "retired", "success", 0)
    <2>1. identity \in Identity /\ identity.state = "retired" /\ "retired" \in EventKinds
      BY <1>2 DEF Identity, States, EventKinds
    <2> HIDE DEF identity
    <2>2. s \in Memory /\ s.identities = [m.identities EXCEPT ![id] = identity]
      BY <1>2, <2>1, SetIdentityFields
    <2> HIDE DEF s
    <2>3. a \in Memory /\ a.identities = s.identities
      BY <1>2, <2>1, <2>2, EventKeeps
    <2> HIDE DEF a
    <2>4. /\ SetMem(t, a) /\ live' = [live EXCEPT ![id] = {}]
          /\ UNCHANGED call \/ Enter(t, "retire", id, "revoke", identity)
          /\ \E result \in PersistResults : Save(a, result)
          /\ CanTransition(m.identities[id].state, "retired")
      BY <1>9, Zenon DEF Retire, a, s, identity
    <2>5. /\ Lawful(m.identities[id].state, identity.state)
          /\ ~ Healthy(identity) /\ \A x \in Ids \ {id} : live'[x] = live[x]
      BY <2>1, <2>4 DEF Lawful, Healthy, States, TypeInv, TypeOK
    <2>6. Turns(t)
      BY <2>1, <2>2, <2>3, <2>4, <2>5, DurableSave, WritesRecord
    <2>7. Turning(t)' /\ Handing(t)'
      BY <1>4, <1>5, <2>1, <2>4 DEF Operations
    <2>8. QED
      BY <2>6, <2>7 DEF TakesTurn
  <1>10. CASE RetireFail(t, id)
    <2>1. /\ UNCHANGED <<mem, call, snapshot>>
          /\ \A x \in Ids \ {id} : live'[x] = live[x]
      BY <1>10 DEF RetireFail, TypeInv, TypeOK
    <2>2. m.identities = [m.identities EXCEPT ![id] = m.identities[id]]
      BY <1>2
    <2>3. Turn(t, id, m.identities[id])
      BY <1>2, <1>10, <2>1, <2>2 DEF Turn, Lawful, Deferred
    <2>4. QED
      BY <1>2, <1>4, <2>1, <2>3 DEF TakesTurn, Turns
  <1>11. CASE DeleteBegin(t, id) \/ UseBegin(t, id)
    <2>1. /\ UNCHANGED <<mem, snapshot, live>>
          /\ \/ /\ Enter(t, "delete", id, "revoke", m.identities[id])
                /\ m.identities[id].state = "retired"
             \/ Enter(t, "use", id, "read", m.identities[id])
      BY <1>11 DEF DeleteBegin, UseBegin
    <2>2. {"delete", "use"} \subseteq Operations
      BY DEF Operations
    <2>3. QED
      BY <1>2, <1>5, <2>1, <2>2, LeavesRecords DEF TakesTurn
  <1>12. QED
    BY <1>1, <1>6, <1>7, <1>8, <1>9, <1>10, <1>11

(* Settling a run writes no record but the one that was set.               *)
LEMMA FinishedRecord ==
    ASSUME TypeInv, NEW t \in Threads, call[t].pc = "rotating", NEW identity \in Identity,
           NEW status \in {"succeeded", "failed"}, NEW key \in Nat
    PROVE  LET f == finishRun(setIdentity(mem[Host[t]], call[t].id, identity),
                              call[t].id, call[t].run, status, key)
           IN  /\ f \in Memory
               /\ f.identities = [mem[Host[t]].identities EXCEPT ![call[t].id] = identity]
  <1>1. PICK m \in Memory, id \in Ids, n \in Nat :
          m = mem[Host[t]] /\ id = call[t].id /\ n = call[t].run
    BY CallType
  <1> DEFINE f == finishRun(setIdentity(m, id, identity), id, n, status, key)
  <1>2. f \in Memory /\ f.identities = [m.identities EXCEPT ![id] = identity]
    BY FinishKeeps
  <1> HIDE DEF f
  <1>3. QED
    BY <1>1, <1>2 DEF f

(* A call that goes on takes its turn.                                     *)
LEMMA ContinuesTurn ==
    ASSUME TypeInv, CallInv, NEW t \in Threads, Continue(t), Turning(t)
    PROVE  TakesTurn(t)
  <1> DEFINE m == mem[Host[t]]
             c == call[t]
             n == mem'[Host[t]]
             state == m.identities[c.id].state
  <1> USE DEF provider, repository
  <1>1. /\ m \in Memory /\ m.identities \in [Ids -> Identity]
        /\ c \in Call /\ c.view \in Identity /\ c.run \in Nat
        /\ c.pc # "idle" => c.id \in Ids
        /\ {"success", "attention"} \subseteq Outcomes
    BY CallType DEF Outcomes, Memory
  <1>2. c.pc # "idle"
    BY DEF Continue, RotateFail, RotateSucceed, RotateConsume, RotatePersist, DeliverToVault,
       MirrorToCommonVault, RecordReferences, ProvisionReject, ProvisionAdopt,
       ProvisionSnapshot, CopyPart, ProvisionSave, RevokeFromVault, RevokeFromCommonVault,
       DeletePurge, UseRead, UseAudit
  <1>3. c.id \in Ids /\ m.identities[c.id] \in Identity
    BY <1>1, <1>2
  <1>4. ASSUME NEW a, SetMem(t, a) PROVE n = a
    BY <1>4, CallType DEF SetMem, TypeInv, TypeOK
  <1>5. ASSUME NEW d, call' = [call EXCEPT ![t] = d] PROVE call'[t] = d
    BY <1>5 DEF TypeInv, TypeOK
  (* The steps that at most audit something.                               *)
  <1>6. ASSUME NEW kind \in EventKinds,
               \/ UNCHANGED mem
               \/ SetMem(t, addEvent(m, c.id, kind, "attention", 0))
               \/ SetMem(t, addEvent(m, c.id, kind, "success", 0))
        PROVE  n.identities = m.identities
    <2>1. ASSUME NEW outcome \in Outcomes
          PROVE  addEvent(m, c.id, kind, outcome, 0).identities = m.identities
      BY <1>1, <1>3, EventKeeps
    <2>2. QED
      BY <1>1, <1>4, <1>6, <2>1
  (* A call that moves on and keeps what it knows.                         *)
  <1>7. ASSUME NEW d, call' = [call EXCEPT ![t] = d], d.id = c.id, d.op = c.op,
               d.view.key = c.view.key, n.identities = m.identities, UNCHANGED live,
               \/ c.pc \in Writing /\ d.pc \in {"consume", "deliver", "mirror", "record"}
                  /\ state = "active"
               \/ d.pc \in Places \ ({"rotating", "revoke", "revokeCommon", "purge"} \cup Writing)
               \/ d.pc \in {"revokeCommon", "purge"} /\ c.pc \in {"revoke", "revokeCommon"}
                  /\ (d.pc = "purge" => c.op = "delete")
        PROVE  Turning(t)' /\ (Handing(t) => Handing(t)')
    <2>1. call'[t] = d
      BY <1>5, <1>7
    <2>2. c.pc \in Writing => c.op # "delete"
      BY DEF CallInv, Sound
    <2>3. CASE c.pc \in Writing /\ d.pc \in {"consume", "deliver", "mirror", "record"}
               /\ state = "active"
      BY <1>7, <2>1, <2>2, <2>3 DEF Turning, Handing, Deleting, Writing
    <2>4. CASE d.pc \in Places \ ({"rotating", "revoke", "revokeCommon", "purge"} \cup Writing)
      BY <1>7, <2>1, <2>4 DEF Turning, Handing, Deleting, Writing
    <2>5. CASE /\ d.pc \in {"revokeCommon", "purge"} /\ c.pc \in {"revoke", "revokeCommon"}
               /\ d.pc = "purge" => c.op = "delete"
      BY <1>7, <2>1, <2>5 DEF Turning, Handing, Deleting, Writing
    <2>6. QED
      BY <1>7, <2>3, <2>4, <2>5
  <1>8. CASE RotateFail(t)
    <2> DEFINE identity == returned(c.view)
               f == finishRun(setIdentity(m, c.id, identity), c.id, c.run, "failed", 0)
    <2>1. /\ SetMem(t, f) /\ Return(t) /\ c.pc = "rotating"
          /\ \E result \in PersistResults : Save(f, result)
          /\ UNCHANGED live \/ \E keys : live' = [live EXCEPT ![c.id] = keys]
      BY <1>8, Zenon DEF RotateFail, persistLocked
    <2>2. identity \in Identity /\ identity.state = "active" /\ ~ Healthy(identity)
      BY <1>1 DEF Identity, States, returned, Healthy
    <2> HIDE DEF identity
    <2>3. f \in Memory /\ f.identities = [m.identities EXCEPT ![c.id] = identity]
      BY <2>1, <2>2, FinishedRecord
    <2> HIDE DEF f
    <2>4. state = "renewing" /\ \A x \in Ids \ {c.id} : live'[x] = live[x]
      BY <2>1 DEF Turning, TypeInv, TypeOK
    <2>5. Lawful(state, identity.state)
      BY <2>2, <2>4 DEF Lawful, States, CanTransition, AllowedTransitions
    <2>6. Turns(t)
      BY <1>3, <2>1, <2>2, <2>3, <2>4, <2>5, DurableSave, WritesRecord
    <2>7. QED
      BY <2>1, <2>6, ReturnTurns DEF TakesTurn
  <1>9. CASE RotateSucceed(t)
    <2> DEFINE key == nextKey + 1
               identity == [NoIdentity EXCEPT !.state = "active", !.key = key]
               f == finishRun(setIdentity(m, c.id, identity), c.id, c.run, "succeeded", key)
               d == [c EXCEPT !.pc = "consume", !.view = identity]
    <2>1. /\ SetMem(t, f) /\ call' = [call EXCEPT ![t] = d] /\ c.pc = "rotating"
          /\ UNCHANGED snapshot
          /\ live' = [live EXCEPT ![c.id] = (@ \ {c.view.key}) \cup {key}]
      BY <1>9, Zenon DEF RotateSucceed, Proceed
    <2>2. key \in Nat
      BY DEF TypeInv, TypeOK
    <2>3. identity \in Identity /\ identity.state = "active" /\ identity.key = key
      BY <2>2 DEF NoIdentity, Identity, States
    <2>4. d.pc = "consume" /\ d.id = c.id /\ d.view = identity /\ d.op = c.op
      BY <1>1 DEF Call
    <2> HIDE DEF identity, d
    <2>5. f \in Memory /\ f.identities = [m.identities EXCEPT ![c.id] = identity]
      BY <2>1, <2>2, <2>3, FinishedRecord
    <2> HIDE DEF f
    <2>6. call'[t] = d
      BY <1>5, <2>1
    <2>7. state = "renewing" /\ \A x \in Ids \ {c.id} : live'[x] = live[x]
      BY <2>1 DEF Turning, TypeInv, TypeOK
    <2>8. key \in live'[c.id]
      BY <1>3, <2>1 DEF TypeInv, TypeOK
    <2>9. Lawful(state, identity.state) /\ Deferred(t, c.id, state, identity.state)
      BY <2>1, <2>3, <2>7 DEF Lawful, States, CanTransition, AllowedTransitions, Deferred
    <2>10. Turns(t) /\ n.identities[c.id] = identity
      BY <1>3, <2>1, <2>3, <2>5, <2>7, <2>8, <2>9, WritesRecord
    <2>11. c.op # "delete"
      BY <2>1 DEF CallInv, Sound
    <2>12. Turning(t)' /\ Handing(t)'
      BY <2>3, <2>4, <2>6, <2>8, <2>10, <2>11 DEF Turning, Handing, Deleting
    <2>13. QED
      BY <2>10, <2>12 DEF TakesTurn
  <1>10. CASE RotateConsume(t)
    <2> DEFINE place(secret) == IF secret = 0 THEN "persist" ELSE "deliver"
               d(secret) == [c EXCEPT !.secret = secret, !.pc = place(secret)]
    <2>1. PICK secret : /\ UNCHANGED <<mem, snapshot, live>>
                        /\ call' = [call EXCEPT ![t] = d(secret)] /\ c.pc = "consume"
      BY <1>10, Zenon DEF RotateConsume, Proceed
    <2>2. /\ d(secret).op = c.op /\ d(secret).id = c.id /\ d(secret).view = c.view
          /\ d(secret).pc \in {"persist", "deliver"}
      BY <1>1 DEF Call
    <2> HIDE DEF d
    <2>3. state = "active" /\ c.pc \in Writing /\ "persist" \in Places \ Writing
      BY <2>1 DEF Turning, Writing, Places
    <2>4. Turning(t)' /\ (Handing(t) => Handing(t)')
      BY <1>7, <2>1, <2>2, <2>3
    <2>5. QED
      BY <1>3, <2>1, <2>4, LeavesRecords DEF TakesTurn
  <1>11. CASE RotatePersist(t) \/ UseAudit(t)
    <2> DEFINE a == addEvent(m, c.id, "used", "success", 0)
    <2>1. /\ Return(t) /\ UNCHANGED live /\ c.pc # "rotating"
          /\ \/ SetMem(t, m) /\ \E result \in PersistResults : Save(m, result)
             \/ SetMem(t, a) /\ \E result \in PersistResults : Save(a, result)
      BY <1>11 DEF RotatePersist, UseAudit, persistLocked
    <2>2. a.identities = m.identities
      <3>1. "used" \in EventKinds
        BY DEF EventKinds
      <3>2. QED
        BY <1>1, <1>3, <3>1, EventKeeps
    <2> HIDE DEF a
    <2>3. /\ n.identities = m.identities
          /\ UNCHANGED snapshot \/ snapshot'.identities = m.identities
      BY <1>4, <2>1, <2>2, DurableSave
    <2>4. QED
      BY <1>3, <2>1, <2>3, LeavesRecords, ReturnTurns DEF TakesTurn
  <1>12. CASE DeliverToVault(t) \/ MirrorToCommonVault(t)
    <2> DEFINE kind(w) == IF w = "native" THEN "delivered" ELSE "mirrored"
               place(w, refs) == afterDelivery(w, c.op, refs)
               d1(w) == [c EXCEPT !.pc = place(w, c.view.refs)]
               d2(w) == [c EXCEPT !.view.refs = @ \cup {w},
                                  !.pc = place(w, c.view.refs \cup {w})]
    <2>1. PICK w \in {"native", "common"} :
            /\ \/ UNCHANGED mem
               \/ SetMem(t, addEvent(m, c.id, kind(w), "attention", 0))
               \/ SetMem(t, addEvent(m, c.id, kind(w), "success", 0))
            /\ call' = [call EXCEPT ![t] = d1(w)] \/ call' = [call EXCEPT ![t] = d2(w)]
      BY <1>12, Zenon DEF DeliverToVault, MirrorToCommonVault, Deliver, Goto, Proceed
    <2>2. /\ c.pc \in {"deliver", "mirror"} /\ kind(w) \in EventKinds
          /\ UNCHANGED <<snapshot, live>>
      BY <1>12 DEF DeliverToVault, MirrorToCommonVault, EventKinds
    <2>3. \A refs : place(w, refs) \in {"mirror", "record", "persist", "copyIdentities"}
      BY DEF afterDelivery, persistPlace
    <2> HIDE DEF place, kind
    <2>4. /\ d1(w).op = c.op /\ d1(w).id = c.id /\ d1(w).view.key = c.view.key
          /\ d1(w).pc = place(w, c.view.refs)
          /\ d2(w).op = c.op /\ d2(w).id = c.id /\ d2(w).view.key = c.view.key
          /\ d2(w).pc = place(w, c.view.refs \cup {w})
      BY <1>1 DEF Call, Identity
    <2> HIDE DEF d1, d2
    <2>5. n.identities = m.identities
      BY <1>6, <2>1, <2>2
    <2>6. /\ state = "active" /\ c.pc \in Writing
          /\ {"persist", "copyIdentities"} \subseteq
                Places \ ({"rotating", "revoke", "revokeCommon", "purge"} \cup Writing)
      BY <2>2 DEF Turning, Writing, Places
    <2>7. Turning(t)' /\ (Handing(t) => Handing(t)')
      BY <1>7, <2>1, <2>2, <2>3, <2>4, <2>5, <2>6
    <2>8. QED
      BY <1>3, <2>2, <2>5, <2>7, LeavesRecords DEF TakesTurn
  <1>13. CASE RecordReferences(t)
    <2> DEFINE s == setIdentity(m, c.id, c.view)
               d == [c EXCEPT !.pc = persistPlace(c.op)]
    <2>1. /\ SetMem(t, s) /\ call' = [call EXCEPT ![t] = d] /\ c.pc = "record"
          /\ UNCHANGED <<snapshot, live>>
      BY <1>13, Zenon DEF RecordReferences, Goto, Proceed, provider, repository
    <2>2. c.view.state = "active" /\ state = "active" /\ c.pc \in Writing
      BY <2>1 DEF CallInv, Sound, Writing, Turning
    <2>3. s \in Memory /\ s.identities = [m.identities EXCEPT ![c.id] = c.view]
      BY <1>1, <1>3, SetIdentityFields
    <2> HIDE DEF s
    <2>4. /\ Lawful(state, c.view.state)
          /\ Deferred(t, c.id, state, c.view.state)
      BY <2>1, <2>2 DEF Lawful, Deferred
    <2>5. Handing(t) => c.view.key \in live'[c.id]
      BY <2>1, <2>2 DEF Handing
    <2>6. Turns(t)
      BY <1>1, <1>3, <2>1, <2>3, <2>4, <2>5, WritesRecord
    <2>7. /\ d.op = c.op /\ d.id = c.id /\ d.pc \in {"persist", "copyIdentities"}
      BY <1>1 DEF Call, persistPlace
    <2> HIDE DEF d
    <2>8. Turning(t)' /\ Handing(t)'
      BY <1>5, <2>1, <2>7 DEF Turning, Handing, Deleting, Writing
    <2>9. QED
      BY <2>6, <2>8 DEF TakesTurn
  <1>14. CASE ProvisionReject(t)
    <2> DEFINE identity == m.identities[c.id]
    <2>1. /\ Return(t) /\ UNCHANGED <<mem, snapshot>> /\ c.pc = "adopt"
          /\ live' = [live EXCEPT ![c.id] = {}] \/ UNCHANGED live
      BY <1>14 DEF ProvisionReject
    <2>2. /\ identity.state = "absent" /\ m.identities = [m.identities EXCEPT ![c.id] = identity]
          /\ \A x \in Ids \ {c.id} : live'[x] = live[x]
      BY <1>1, <2>1 DEF Turning, TypeInv, TypeOK
    <2>3. Turn(t, c.id, identity)
      BY <2>1, <2>2 DEF Turn, Lawful, Deferred, Healthy
    <2>4. QED
      BY <1>3, <2>1, <2>3, ReturnTurns DEF TakesTurn, Turns
  <1>15. CASE ProvisionAdopt(t)
    <2> DEFINE s == setIdentity(m, c.id, c.view)
               a == addEvent(s, c.id, "discovered", "success", 0)
               b == addEvent(a, c.id, "registered", "success", 0)
               d == [c EXCEPT !.pc = "deliver"]
    <2>1. /\ SetMem(t, b) /\ call' = [call EXCEPT ![t] = d] /\ c.pc = "adopt"
          /\ UNCHANGED <<snapshot, live>>
      BY <1>15, Zenon DEF ProvisionAdopt, Goto, Proceed, provider, repository
    <2>2. /\ c.view.state = "active" /\ state = "absent" /\ ~ Durable
          /\ {"discovered", "registered"} \subseteq EventKinds
      BY <2>1 DEF CallInv, Sound, Writing, EventKinds, Turning, Durable, Provisioning
    <2>3. s \in Memory /\ s.identities = [m.identities EXCEPT ![c.id] = c.view]
      BY <1>1, <1>3, SetIdentityFields
    <2> HIDE DEF s
    <2>4. a \in Memory /\ a.identities = s.identities
      BY <1>1, <1>3, <2>2, <2>3, EventKeeps
    <2> HIDE DEF a
    <2>5. b \in Memory /\ b.identities = s.identities
      BY <1>1, <1>3, <2>2, <2>4, EventKeeps
    <2> HIDE DEF b
    <2>6. Handing(t) => c.view.key \in live'[c.id]
      BY <2>1 DEF Handing, Writing
    <2>7. Lawful(state, c.view.state)
      BY <2>2 DEF Lawful
    <2>8. Turns(t) /\ n.identities[c.id] = c.view
      BY <1>1, <1>3, <2>1, <2>2, <2>3, <2>5, <2>6, <2>7, WritesRecord
    <2>9. /\ d.op = c.op /\ d.id = c.id /\ d.pc = "deliver" /\ d.view = c.view
          /\ c.op # "delete"
      BY <1>1, <2>1 DEF Call, CallInv, Sound, Writing
    <2> HIDE DEF d
    <2>10. Turning(t)' /\ (Handing(t) => Handing(t)')
      BY <1>5, <2>1, <2>2, <2>6, <2>8, <2>9 DEF Turning, Handing, Deleting
    <2>11. QED
      BY <2>8, <2>10 DEF TakesTurn
  <1>16. CASE ProvisionSnapshot(t)
    <2> DEFINE c1 == [c EXCEPT !.snap.identities = m.identities, !.pc = "copyEvents"]
               c2 == [c EXCEPT !.snap.events = m.events, !.pc = "copyRuns"]
               c3 == [c EXCEPT !.snap.runs = m.runs, !.snap.nextEvent = m.nextEvent,
                               !.snap.nextRun = m.nextRun, !.pc = "save"]
    <2>1. /\ UNCHANGED <<mem, snapshot, live>>
          /\ \/ call' = [call EXCEPT ![t] = c1] \/ call' = [call EXCEPT ![t] = c2]
             \/ call' = [call EXCEPT ![t] = c3]
      BY <1>16, Zenon DEF ProvisionSnapshot, CopyPart, Proceed, provider, repository
    <2>2. c.pc # "rotating"
      BY <1>16 DEF ProvisionSnapshot, CopyPart
    <2>3. /\ c1.pc = "copyEvents" /\ c2.pc = "copyRuns" /\ c3.pc = "save"
      BY <1>1 DEF Call
    <2> HIDE DEF c1, c2, c3
    <2>4. call'[t].pc \in {"copyEvents", "copyRuns", "save"}
      BY <1>5, <2>1, <2>3
    <2>5. Turning(t)' /\ Handing(t)'
      BY <2>4 DEF Turning, Handing, Deleting, Writing
    <2>6. QED
      BY <1>3, <2>1, <2>2, <2>5, LeavesRecords DEF TakesTurn
  <1>17. CASE ProvisionSave(t)
    <2>1. Return(t) /\ UNCHANGED <<mem, live>> /\ c.pc = "save"
      BY <1>17 DEF ProvisionSave
    <2>2. ~ Durable
      BY <2>1 DEF CallInv, Sound, Durable, Provisioning
    <2>3. QED
      BY <1>3, <2>1, <2>2, LeavesRecords, ReturnTurns DEF TakesTurn
  <1>18. CASE RevokeFromVault(t) \/ RevokeFromCommonVault(t)
    <2> DEFINE kind(w) == IF w = "native" THEN "revoked" ELSE "unmirrored"
               d(place) == [c EXCEPT !.pc = place]
    <2>1. PICK w \in {"native", "common"} :
            \/ UNCHANGED mem
            \/ SetMem(t, addEvent(m, c.id, kind(w), "attention", 0))
            \/ SetMem(t, addEvent(m, c.id, kind(w), "success", 0))
      BY <1>18, Zenon DEF RevokeFromVault, RevokeFromCommonVault, Revoke
    <2>2. /\ c.pc \in {"revoke", "revokeCommon"} /\ kind(w) \in EventKinds
          /\ UNCHANGED <<snapshot, live>>
          /\ Goto(t, "revokeCommon") \/ (Goto(t, "purge") /\ c.op = "delete") \/ Return(t)
      BY <1>18 DEF RevokeFromVault, RevokeFromCommonVault, EventKinds
    <2>3. \A place : Goto(t, place) => call' = [call EXCEPT ![t] = d(place)]
      BY DEF Goto, Proceed
    <2> HIDE DEF kind
    <2>4. n.identities = m.identities
      BY <1>6, <2>1, <2>2
    <2>5. \A place \in {"revokeCommon", "purge"} :
            /\ d(place).op = c.op /\ d(place).id = c.id /\ d(place).view = c.view
            /\ d(place).pc = place
      BY <1>1 DEF Call
    <2> HIDE DEF d
    <2>6. Turning(t)' /\ (Handing(t) => Handing(t)')
      <3>1. CASE Return(t)
        BY <3>1, ReturnTurns
      <3>2. ASSUME NEW place \in {"revokeCommon", "purge"}, call' = [call EXCEPT ![t] = d(place)],
                   place = "purge" => c.op = "delete"
            PROVE  Turning(t)' /\ (Handing(t) => Handing(t)')
        BY <1>7, <2>2, <2>4, <2>5, <3>2
      <3>3. QED
        BY <2>2, <2>3, <3>1, <3>2
    <2>7. QED
      BY <1>3, <2>2, <2>4, <2>6, LeavesRecords DEF TakesTurn
  <1>19. CASE DeletePurge(t)
    <2> DEFINE p == purge(m, c.id)
    <2>1. Return(t) /\ c.pc = "purge" /\ UNCHANGED live
      BY <1>19 DEF DeletePurge
    <2>2. state = "retired"
      BY <2>1 DEF Turning, Deleting
    <2>3. SetMem(t, p) /\ \E result \in PersistResults : Save(p, result)
      BY <1>19, <2>2 DEF DeletePurge, persistLocked
    <2>4. p \in Memory /\ p.identities = [m.identities EXCEPT ![c.id] = NoIdentity]
      BY <1>1, <1>3, PurgeFields
    <2> HIDE DEF p
    <2>5. /\ NoIdentity.state = "absent" /\ NoIdentity \in Identity
          /\ ~ Healthy(NoIdentity) /\ Lawful(state, NoIdentity.state)
      BY <2>2, EmptyMemoryType DEF NoIdentity, Healthy, Lawful
    <2>6. Turns(t)
      BY <1>3, <2>1, <2>3, <2>4, <2>5, DurableSave, WritesRecord
    <2>7. QED
      BY <2>1, <2>6, ReturnTurns DEF TakesTurn
  <1>20. CASE UseRead(t)
    <2> DEFINE d(s) == [c EXCEPT !.secret = s, !.pc = "audit"]
    <2>1. /\ UNCHANGED <<mem, snapshot, live>> /\ c.pc = "read"
          /\ Return(t) \/ \E s : call' = [call EXCEPT ![t] = d(s)]
      BY <1>20, Zenon DEF UseRead, ReadSecret, Proceed, provider, repository
    <2>2. \A s : d(s).op = c.op /\ d(s).id = c.id /\ d(s).view = c.view /\ d(s).pc = "audit"
      BY <1>1 DEF Call
    <2> HIDE DEF d
    <2>3. "audit" \in Places \ ({"rotating", "revoke", "revokeCommon", "purge"} \cup Writing)
      BY DEF Places, Writing
    <2>4. Turning(t)' /\ (Handing(t) => Handing(t)')
      BY <1>7, <2>1, <2>2, <2>3, ReturnTurns
    <2>5. QED
      BY <1>3, <2>1, <2>4, LeavesRecords DEF TakesTurn
  <1>21. QED
    BY <1>8, <1>9, <1>10, <1>11, <1>12, <1>13, <1>14, <1>15, <1>16, <1>17, <1>18, <1>19,
       <1>20 DEF Continue

(* When a process that serves one call at a time follows the lifecycle:    *)
(* there is no repository and so nothing to restart from, or there is one  *)
(* process and every write of it lands.                                    *)
Unrestarted == "none" \in PersistResults

Kept == Unrestarted \/ (Durable /\ OneStore)

(* The snapshot is behind by no more than the rotation in progress.        *)
Behind(i) ==
    \A id \in Ids :
      LET state == mem[i].identities[id].state
          saved == snapshot.identities[id].state
      IN  \/ state = saved
          \/ /\ state = "renewing" /\ saved = "active"
             /\ \E t \in Threads : call[t].pc = "rotating" /\ call[t].id = id

TurnInv ==
    /\ \A t \in Threads : Turning(t)
    /\ ~ Unrestarted => \A i \in Instances : Behind(i)

(* The turn of t in the world of its process.                              *)
LEMMA TurnAlone ==
    ASSUME Sequential, TypeInv, CallInv, NEW t \in Threads, Begin(t) \/ Continue(t), Turning(t)
    PROVE  /\ TakesTurn(t)
           /\ Others(t)
           /\ \A i \in Instances \ {Host[t]} : mem'[i] = mem[i]
           /\ \A u \in Threads \ {t} : Host[u] # Host[t]
  BY OpensTurn, ContinuesTurn, OneMemory DEF Sequential, OneCaller

(* The snapshot stays behind by no more than that.                         *)
LEMMA BehindStep ==
    ASSUME Sequential, Durable, OneStore, TypeInv, CallInv, NEW t \in Threads,
           Begin(t) \/ Continue(t), Turning(t), Behind(Host[t]), NoneStuck
    PROVE  Behind(Host[t])'
  <1> DEFINE m == mem[Host[t]]
             n == mem'[Host[t]]
  <1>1. /\ TakesTurn(t) /\ \A u \in Threads : u = t
        /\ m.identities \in [Ids -> Identity]
    BY TurnAlone, CallType DEF OneStore, Memory
  <1>2. PICK id \in Ids, identity \in Identity : Turn(t, id, identity)
    BY <1>1 DEF TakesTurn, Turns
  <1> DEFINE from == m.identities[id].state
             to == identity.state
  <1>3. /\ \A x \in Ids : n.identities[x] = IF x = id THEN identity ELSE m.identities[x]
        /\ \/ snapshot'.identities = n.identities
           \/ UNCHANGED snapshot /\ Deferred(t, id, from, to)
    BY <1>1, <1>2 DEF Turn
  <1>4. CASE snapshot'.identities = n.identities
    BY <1>4 DEF Behind
  <1>5. ASSUME call[t].pc # "rotating", NEW x \in Ids
        PROVE  m.identities[x].state = snapshot.identities[x].state
    BY <1>1, <1>5 DEF Behind
  <1>6. CASE UNCHANGED snapshot /\ from = to /\ call[t].pc # "rotating"
    <2>1. \A x \in Ids : n.identities[x].state = m.identities[x].state
      BY <1>3, <1>6
    <2>2. QED
      BY <1>5, <1>6, <2>1 DEF Behind
  <1>7. CASE /\ UNCHANGED snapshot /\ from = "active" /\ to = "renewing"
             /\ call[t].pc # "rotating" /\ call'[t].pc = "rotating" /\ call'[t].id = id
    BY <1>3, <1>5, <1>7 DEF Behind
  <1>8. CASE /\ UNCHANGED snapshot /\ from = "renewing" /\ to = "active"
             /\ call[t].pc = "rotating" /\ call[t].id = id
    <2>1. \A x \in Ids \ {id} : m.identities[x].state = snapshot.identities[x].state
      BY <1>1, <1>8 DEF Behind
    <2>2. snapshot.identities[id].state = "active"
      BY <1>8 DEF Behind, NoneStuck, Settled
    <2>3. QED
      BY <1>3, <1>8, <2>1, <2>2 DEF Behind
  <1>9. QED
    BY <1>3, <1>4, <1>6, <1>7, <1>8 DEF Deferred

LEMMA TurnStep ==
    ASSUME Sequential, Kept, TypeInv, CallInv, CopyInv, NoneStuck, TurnInv, [Next]_vars
    PROVE  TurnInv'
  <1>1. CASE UNCHANGED vars
    BY <1>1 DEF vars, TurnInv, Turning, Deleting, Behind
  <1>2. ASSUME NEW t \in Threads, Begin(t) \/ Continue(t) PROVE TurnInv'
    <2>1. /\ TakesTurn(t) /\ Others(t)
          /\ \A i \in Instances \ {Host[t]} : mem'[i] = mem[i]
          /\ \A u \in Threads \ {t} : Host[u] # Host[t]
      BY <1>2, TurnAlone DEF TurnInv
    <2>2. ASSUME NEW u \in Threads \ {t} PROVE Turning(u)'
      <3>1. call'[u] = call[u] /\ mem'[Host[u]] = mem[Host[u]]
        BY <2>1, CallType DEF Others
      <3>2. QED
        BY <3>1 DEF TurnInv, Turning, Deleting
    <2>3. ASSUME ~ Unrestarted, NEW i \in Instances PROVE Behind(i)'
      <3>1. Durable /\ OneStore /\ i = Host[t]
        BY <2>3, CallType DEF Kept, OneStore
      <3>2. QED
        BY <1>2, <2>3, <3>1, BehindStep DEF TurnInv
    <2>4. QED
      BY <2>1, <2>2, <2>3 DEF TurnInv, TakesTurn, Unrestarted
  <1>3. ASSUME NEW i \in Instances, Environment(i) PROVE TurnInv'
    <2>1. Restart(i)
      BY <1>3 DEF Environment, WatchLoad, WatchRestore, LoseNotice, CopyInv, Still
    <2>2. restoreLocked(EmptyMemory, snapshot).identities = snapshot.identities
      BY EmptyMemoryType, RestoreFields DEF TypeInv, TypeOK
    <2>3. /\ UNCHANGED snapshot
          /\ mem'[i].identities = snapshot.identities
          /\ \A j \in Instances \ {i} : mem'[j] = mem[j]
          /\ \A t \in Threads : call'[t] = IF Host[t] = i THEN NoCall ELSE call[t]
      BY <2>1, <2>2 DEF Restart, TypeInv, TypeOK
    <2>4. ASSUME NEW t \in Threads PROVE Turning(t)'
      <3>1. CASE Host[t] = i
        BY <2>3, <3>1, NoCallType DEF Turning, Deleting
      <3>2. CASE Host[t] # i
        <4>1. call'[t] = call[t] /\ mem'[Host[t]] = mem[Host[t]]
          BY <2>3, <3>2, CallType
        <4>2. QED
          BY <4>1 DEF TurnInv, Turning, Deleting
      <3>3. QED
        BY <3>1, <3>2
    <2>5. ASSUME ~ Unrestarted, NEW j \in Instances PROVE Behind(j)'
      BY <2>3, <2>5 DEF Kept, OneStore, Behind
    <2>6. QED
      BY <2>4, <2>5 DEF TurnInv, Unrestarted
  <1>4. QED
    BY <1>1, <1>2, <1>3 DEF Next

LEMMA TurnInvariant ==
    ASSUME Sequential, Kept
    PROVE  Spec => [](TypeInv /\ CallInv /\ CopyInv /\ NoneStuck /\ TurnInv)
  <1>1. Init => TurnInv
    BY NoCallType DEF Init, TurnInv, Turning, Deleting, Behind
  <1>2. TypeInv /\ CallInv /\ CopyInv /\ NoneStuck /\ TurnInv /\ [Next]_vars => TurnInv'
    BY TurnStep
  <1>3. Spec => []NoneStuck
    BY NoneEverStuck
  <1>4. QED
    BY <1>1, <1>2, <1>3, SequentialInvariant, PTL DEF Spec

(* A step is a step of the lifecycle or leaves it alone; a restart takes   *)
(* back the rotation that it cut short.                                    *)
LEMMA TurnRefines ==
    ASSUME Sequential, Kept, TypeInv, CallInv, CopyInv, NoneStuck, TurnInv, [Next]_vars
    PROVE  [Lifecycle!Next]_Gov
  <1>1. CASE UNCHANGED vars
    BY <1>1 DEF vars, Gov
  <1>2. ASSUME NEW t \in Threads, Begin(t) \/ Continue(t)
        PROVE  Lifecycle!Next \/ UNCHANGED Gov
    <2>1. /\ TakesTurn(t) /\ Others(t) /\ Host[t] \in Instances
          /\ \A i \in Instances \ {Host[t]} : mem'[i] = mem[i]
          /\ \A u \in Threads \ {t} : Host[u] # Host[t]
      BY <1>2, TurnAlone, CallType DEF TurnInv
    <2>2. PICK id \in Ids, identity \in Identity : Turn(t, id, identity)
      BY <2>1 DEF TakesTurn, Turns
    <2>3. PICK x \in Instances \X Ids, to \in {identity.state} : x = <<Host[t], id>>
      BY <2>1
    <2>4. Writes(t, id, identity)
      BY <2>1, <2>2 DEF Turn, Writes
    <2>5. Gov' = [Gov EXCEPT ![x] = to] /\ Gov[x] = mem[Host[t]].identities[id].state
      BY <2>3, <2>4, GovWrites
    <2>6. Lawful(Gov[x], to)
      BY <2>2, <2>3, <2>5 DEF Turn
    <2>7. CASE Gov[x] = to
      BY <2>5, <2>7 DEF Gov
    <2>8. QED
      BY <2>5, <2>6, <2>7, Abstractly DEF Lawful
  <1>3. ASSUME NEW i \in Instances, Environment(i) PROVE Lifecycle!Next \/ UNCHANGED Gov
    <2>1. Restart(i)
      BY <1>3 DEF Environment, WatchLoad, WatchRestore, LoseNotice, CopyInv, Still
    <2>2. ~ Unrestarted /\ OneStore /\ Behind(i)
      BY <2>1 DEF Restart, Unrestarted, Kept, TurnInv
    <2>3. restoreLocked(EmptyMemory, snapshot).identities = snapshot.identities
      BY EmptyMemoryType, RestoreFields DEF TypeInv, TypeOK
    <2>4. mem'[i].identities = snapshot.identities
      BY <2>1, <2>3 DEF Restart, TypeInv, TypeOK
    <2>5. ASSUME NEW x \in Instances \X Ids
          PROVE  /\ x = <<i, x[2]>> /\ x[2] \in Ids
                 /\ Gov[x] = mem[i].identities[x[2]].state
                 /\ Gov'[x] = snapshot.identities[x[2]].state
      <3>1. x = <<i, x[2]>> /\ x[2] \in Ids
        BY <2>2 DEF OneStore
      <3>2. QED
        BY <2>4, <3>1 DEF Gov
    <2>6. CASE \A x \in Instances \X Ids : Gov'[x] = Gov[x]
      BY <2>6 DEF Gov
    <2>7. CASE \E x \in Instances \X Ids : Gov'[x] # Gov[x]
      <3>1. PICK x \in Instances \X Ids : Gov'[x] # Gov[x]
        BY <2>7
      <3>2. /\ Gov[x] = "renewing" /\ Gov'[x] = "active"
            /\ \E t \in Threads : call[t].pc = "rotating" /\ call[t].id = x[2]
        BY <2>2, <2>5, <3>1 DEF Behind
      <3>3. \A t, u \in Threads : t = u
        BY <2>2, CallType DEF Sequential, OneCaller, OneStore
      <3>4. ASSUME NEW y \in Instances \X Ids, y # x PROVE Gov'[y] = Gov[y]
        <4>1. y[2] # x[2]
          BY <2>5, <3>4
        <4>2. QED
          BY <2>2, <2>5, <3>2, <3>3, <4>1 DEF Behind
      <3>5. Gov' = [Gov EXCEPT ![x] = "active"]
        <4>1. \A y \in Instances \X Ids : Gov'[y] = IF y = x THEN "active" ELSE Gov[y]
          BY <3>2, <3>4
        <4>2. /\ Gov = [y \in Instances \X Ids |-> Gov[y]]
              /\ Gov' = [y \in Instances \X Ids |-> Gov'[y]]
          BY DEF Gov
        <4>3. QED
          BY <4>1, <4>2
      <3>6. "active" \in States /\ CanTransition(Gov[x], "active")
        BY <3>2 DEF States, CanTransition, AllowedTransitions
      <3>7. QED
        BY <3>5, <3>6, Abstractly
    <2>8. QED
      BY <2>6, <2>7
  <1>4. QED
    BY <1>1, <1>2, <1>3 DEF Next

(* With one call at a time the store implements the canonical lifecycle    *)
(* with every operation and answer of a vault, reloads excepted: a         *)
(* delivery writes back the record it knows, a Delete purges the record it *)
(* checked (deliverToVault, Delete, Register).  With a repository this     *)
(* holds across restarts when no write is lost and nobody provisions,      *)
(* since a restart would otherwise take back a retirement or drop a        *)
(* record.                                                                 *)
THEOREM ImplementsLifecycleInTurn == ASSUME Sequential, Kept PROVE Spec => FollowsLifecycle
  <1>1. Init => Lifecycle!Init
    BY AdoptedFields DEF Init, Lifecycle!Init
  <1>2. TypeInv /\ CallInv /\ CopyInv /\ NoneStuck /\ TurnInv /\ [Next]_vars
          => [Lifecycle!Next]_Gov
    BY TurnRefines
  <1>3. QED
    BY <1>1, <1>2, TurnInvariant, PTL DEF Spec, FollowsLifecycle, Lifecycle!Spec, Gov

(* The key a call may write back works.                                    *)
KeysInv == \A t \in Threads : Handing(t)

(* A turn leaves no healthy record with a dead key when the caller's own   *)
(* works, unless it is a retirement broken off or a registration.          *)
LEMMA KeysTurn ==
    ASSUME Sequential, Unrestarted, OneStore, TypeInv, CallInv, CopyInv, TurnInv, KeysInv,
           Next
    PROVE  DeathExplained /\ KeysInv'
  <1>1. ASSUME NEW t \in Threads, Begin(t) \/ Continue(t) PROVE DeathExplained /\ KeysInv'
    <2>1. /\ TakesTurn(t) /\ Handing(t) /\ Host[t] \in Instances
          /\ mem[Host[t]].identities \in [Ids -> Identity]
      BY <1>1, TurnAlone, CallType DEF TurnInv, KeysInv, Memory
    <2>2. /\ \A u \in Threads : u = t
          /\ \A i \in Instances : i = Host[t]
      BY <2>1, CallType DEF Sequential, OneCaller, OneStore
    <2>3. PICK id \in Ids, identity \in Identity : Turn(t, id, identity)
      BY <2>1 DEF TakesTurn, Turns
    <2>4. /\ \A x \in Ids : mem'[Host[t]].identities[x] =
                              IF x = id THEN identity ELSE mem[Host[t]].identities[x]
          /\ \A x \in Ids \ {id} : live'[x] = live[x]
          /\ \/ RetireFail(t, id) \/ Register(t, id)
             \/ Healthy(identity) /\ identity.key # 0 => identity.key \in live'[id]
             \/ identity = mem[Host[t]].identities[id] /\ live'[id] = live[id]
      BY <2>1, <2>3 DEF Turn
    <2>5. ASSUME NEW i \in Instances, NEW x \in Ids, ShownDead(i, x)'
          PROVE  ShownDead(i, x) \/ RetireFail(t, x) \/ Register(t, x)
      <3>1. i = Host[t]
        BY <2>2
      <3>2. CASE x = id
        BY <2>4, <2>5, <3>1, <3>2 DEF ShownDead, Healthy
      <3>3. CASE x # id
        BY <2>4, <2>5, <3>1, <3>3 DEF ShownDead
      <3>4. QED
        BY <3>2, <3>3
    <2>6. DeathExplained
      BY <2>5 DEF DeathExplained
    <2>7. QED
      BY <2>1, <2>2, <2>6 DEF KeysInv, TakesTurn
  <1>2. ASSUME NEW i \in Instances, Environment(i) PROVE FALSE
    BY <1>2 DEF Environment, WatchLoad, WatchRestore, LoseNotice, Restart, CopyInv, Still,
                Unrestarted
  <1>3. QED
    BY <1>1, <1>2 DEF Next

(* With one call at a time and no repository, but with every operation and *)
(* answer of a vault, a healthy record gets a dead key only from a         *)
(* retirement that the provider broke off, or when it is registered with   *)
(* one: a delivery writes back a copy of the record with a key that still  *)
(* works (Rotate, Provision, deliverToVault, Retire, Register).            *)
THEOREM HealthyKeysWorkInTurn ==
    ASSUME Sequential, Unrestarted, OneStore PROVE Spec => KeysDieByRetirement
  <1>1. Init => KeysInv
    BY NoCallType DEF Init, KeysInv, Handing, Writing
  <1>2. KeysInv /\ UNCHANGED vars => KeysInv'
    BY DEF vars, KeysInv, Handing
  <1>3. TypeInv /\ CallInv /\ CopyInv /\ TurnInv /\ KeysInv /\ [Next]_vars
          => KeysInv' /\ [DeathExplained]_vars
    BY <1>2, KeysTurn
  <1>4. Kept
    BY DEF Kept
  <1>5. QED
    BY <1>1, <1>3, <1>4, TurnInvariant, PTL DEF Spec, KeysDieByRetirement, DeathExplained

-----------------------------------------------------------------------------
(* Any configuration.  Retired records come back to life (section 6 of the *)
(* README), but only where a call writes back a whole record it read       *)
(* before.  A rotation does not: while it runs, its record is renewing.    *)
RenewedInv == \A t \in Threads : Renewed(t)

LEMMA RenewedStep ==
    ASSUME TypeInv, CallInv, RenewedInv, [Next]_vars
    PROVE  RenewedInv'
  <1>1. CASE UNCHANGED vars
    BY <1>1 DEF vars, RenewedInv, Renewed
  <1>2. ASSUME Next, NEW t \in Threads, call'[t].pc = "rotating" PROVE Renewed(t)'
    <2>1. CASE call'[t] = call[t]
      <3>1. mem'[Host[t]] = mem[Host[t]]
        BY <1>2, <2>1, UndisturbedStep
      <3>2. QED
        BY <2>1, <3>1 DEF RenewedInv, Renewed
    <2>2. CASE call'[t] # call[t]
      <3>1. ASSUME NEW u \in Threads, Begin(u) \/ Continue(u) PROVE u = t
        BY <2>2, <3>1, OneMemory DEF Others
      <3>2. ASSUME NEW i \in Instances PROVE ~ Environment(i)
        BY <1>2, <2>2, NoCallType
        DEF Environment, WatchLoad, WatchRestore, LoseNotice, Restart
      <3>3. Begin(t) \/ Continue(t)
        BY <1>2, <3>1, <3>2 DEF Next
      <3>4. CASE Begin(t)
        BY <1>2, <3>4, OpensTurn DEF TakesTurn, Turning, Renewed
      <3>5. CASE Quiet(t) \/ RotateFail(t) \/ RotateSucceed(t)
        <4>1. ~ Quiet(t)
          BY <1>2 DEF Quiet
        <4>2. ~ RotateFail(t)
          BY <1>2, ReturnType, NoCallType DEF RotateFail
        <4>3. ~ RotateSucceed(t)
          <5>1. SUFFICES ASSUME RotateSucceed(t) PROVE FALSE
            OBVIOUS
          <5>2. \E view : call' = [call EXCEPT ![t] = [call[t] EXCEPT !.pc = "consume",
                                                                      !.view = view]]
            BY <5>1, Zenon DEF RotateSucceed, Proceed
          <5>3. call'[t].pc = "consume"
            BY <5>2, CallType DEF TypeInv, TypeOK, Call
          <5>4. QED
            BY <1>2, <5>3
        <4>4. QED
          BY <3>5, <4>1, <4>2, <4>3
      <3>6. CASE \E id \in Ids : RotateBegin(t, id)
        BY <3>4, <3>6 DEF Begin
      <3>7. QED
        BY <3>3, <3>5, <3>6, CallEffects DEF Rotating
    <2>3. QED
      BY <2>1, <2>2
  <1>3. QED
    BY <1>1, <1>2 DEF RenewedInv, Renewed

(* The write-back of vault references and the adoption of a new identity.  *)
WritesBack(t) == RecordReferences(t) \/ ProvisionAdopt(t)

(* The other steps of a call keep a retired record retired or purge it.    *)
LEMMA RevivesStep ==
    ASSUME TypeInv, CallInv, NEW t \in Threads, Begin(t) \/ Continue(t), Renewed(t),
           NEW id \in Ids, mem[Host[t]].identities[id].state = "retired",
           mem'[Host[t]].identities[id].state \notin {"retired", "absent"}
    PROVE  call[t].id = id /\ WritesBack(t)
  <1> DEFINE m == mem[Host[t]]
             c == call[t]
             n == mem'[Host[t]]
  <1> USE DEF provider, repository
  <1>1. m \in Memory /\ m.identities \in [Ids -> Identity] /\ c \in Call /\ c.view \in Identity
    BY CallType DEF Memory
  <1>2. ASSUME TakesTurn(t) PROVE FALSE
    <2>1. PICK x \in Ids, identity \in Identity : Turn(t, x, identity)
      BY <1>2 DEF TakesTurn, Turns
    <2>2. /\ n.identities = [m.identities EXCEPT ![x] = identity]
          /\ Lawful(m.identities[x].state, identity.state)
      BY <2>1 DEF Turn
    <2>3. CASE x = id
      BY <1>1, <2>2, <2>3 DEF Lawful, CanTransition, AllowedTransitions
    <2>4. CASE x # id
      BY <1>1, <2>2, <2>4
    <2>5. QED
      BY <2>3, <2>4
  <1>3. ~ Begin(t)
    BY <1>2, OpensTurn
  <1>4. ASSUME NEW a, SetMem(t, a) PROVE n = a
    BY <1>4, CallType DEF SetMem, TypeInv, TypeOK
  <1>5. n.identities # m.identities
    OBVIOUS
  <1>6. ASSUME c.pc # "idle", NEW kind \in EventKinds,
               \/ SetMem(t, addEvent(m, c.id, kind, "attention", 0))
               \/ SetMem(t, addEvent(m, c.id, kind, "success", 0))
        PROVE  FALSE
    <2>1. c.id \in Ids /\ {"success", "attention"} \subseteq Outcomes
      BY <1>6, CallType DEF Outcomes
    <2>2. ASSUME NEW outcome \in Outcomes
          PROVE  addEvent(m, c.id, kind, outcome, 0).identities = m.identities
      BY <1>1, <2>1, EventKeeps
    <2>3. QED
      BY <1>4, <1>5, <1>6, <2>1, <2>2
  <1>7. ~ RotateFail(t) /\ ~ RotateSucceed(t)
    <2>0. RotateFail(t) \/ RotateSucceed(t) => Continue(t) /\ c.pc = "rotating"
      BY DEF Continue, RotateFail, RotateSucceed
    <2>1. SUFFICES ASSUME c.pc = "rotating" PROVE Turning(t)
      BY <1>2, <2>0, ContinuesTurn
    <2>2. c.op # "delete" /\ m.identities[c.id].state = "renewing"
      BY <2>1 DEF CallInv, Sound, Renewed
    <2>3. QED
      BY <2>1, <2>2 DEF Turning, Deleting
  <1>8. ~ RotatePersist(t) /\ ~ RotateConsume(t) /\ ~ ProvisionReject(t)
        /\ ~ ProvisionSnapshot(t) /\ ~ ProvisionSave(t) /\ ~ UseRead(t)
    BY <1>4, <1>5 DEF RotatePersist, persistLocked, RotateConsume, ProvisionReject,
                      ProvisionSnapshot, ProvisionSave, UseRead
  <1>9. ~ UseAudit(t)
    BY <1>6 DEF UseAudit, persistLocked, EventKinds
  <1>10. ~ DeliverToVault(t) /\ ~ MirrorToCommonVault(t)
    <2> DEFINE kind(w) == IF w = "native" THEN "delivered" ELSE "mirrored"
    <2>1. SUFFICES ASSUME DeliverToVault(t) \/ MirrorToCommonVault(t) PROVE FALSE
      OBVIOUS
    <2>2. PICK w \in {"native", "common"} :
            \/ UNCHANGED mem
            \/ SetMem(t, addEvent(m, c.id, kind(w), "attention", 0))
            \/ SetMem(t, addEvent(m, c.id, kind(w), "success", 0))
      BY <2>1, Zenon DEF DeliverToVault, MirrorToCommonVault, Deliver
    <2>3. c.pc # "idle" /\ kind(w) \in EventKinds
      BY <2>1 DEF DeliverToVault, MirrorToCommonVault, EventKinds
    <2> HIDE DEF kind
    <2>4. QED
      BY <1>5, <1>6, <2>2, <2>3
  <1>11. ~ RevokeFromVault(t) /\ ~ RevokeFromCommonVault(t)
    <2> DEFINE kind(w) == IF w = "native" THEN "revoked" ELSE "unmirrored"
    <2>1. SUFFICES ASSUME RevokeFromVault(t) \/ RevokeFromCommonVault(t) PROVE FALSE
      OBVIOUS
    <2>2. PICK w \in {"native", "common"} :
            \/ UNCHANGED mem
            \/ SetMem(t, addEvent(m, c.id, kind(w), "attention", 0))
            \/ SetMem(t, addEvent(m, c.id, kind(w), "success", 0))
      BY <2>1, Zenon DEF RevokeFromVault, RevokeFromCommonVault, Revoke
    <2>3. c.pc # "idle" /\ kind(w) \in EventKinds
      BY <2>1 DEF RevokeFromVault, RevokeFromCommonVault, EventKinds
    <2> HIDE DEF kind
    <2>4. QED
      BY <1>5, <1>6, <2>2, <2>3
  <1>12. ~ DeletePurge(t)
    <2>1. SUFFICES ASSUME DeletePurge(t) PROVE FALSE
      OBVIOUS
    <2>2. c.id \in Ids /\ SetMem(t, purge(m, c.id))
      <3>1. c.id \in Ids
        BY <2>1, CallType DEF DeletePurge
      <3>2. mem' # mem
        BY <1>5
      <3>3. QED
        BY <2>1, <3>1, <3>2 DEF DeletePurge, persistLocked
    <2>3. purge(m, c.id).identities = [m.identities EXCEPT ![c.id] = NoIdentity]
      BY <1>1, <2>2, PurgeFields
    <2>4. n.identities[id] \in {m.identities[id], NoIdentity}
      BY <1>1, <1>4, <2>2, <2>3
    <2>5. QED
      BY <2>4 DEF NoIdentity
  <1>13. WritesBack(t)
    BY <1>3, <1>7, <1>8, <1>9, <1>10, <1>11, <1>12 DEF Continue, WritesBack
  <1>14. c.id \in Ids /\ n.identities = [m.identities EXCEPT ![c.id] = c.view]
    <2> DEFINE s == setIdentity(m, c.id, c.view)
               a == addEvent(s, c.id, "discovered", "success", 0)
               b == addEvent(a, c.id, "registered", "success", 0)
    <2>1. c.id \in Ids
      BY <1>13, CallType DEF WritesBack, RecordReferences, ProvisionAdopt
    <2>2. SetMem(t, s) \/ SetMem(t, b)
      BY <1>13, Zenon DEF WritesBack, RecordReferences, ProvisionAdopt
    <2>3. /\ {"discovered", "registered"} \subseteq EventKinds /\ "success" \in Outcomes
      BY DEF EventKinds, Outcomes
    <2>4. s \in Memory /\ s.identities = [m.identities EXCEPT ![c.id] = c.view]
      BY <1>1, <2>1, SetIdentityFields
    <2> HIDE DEF s
    <2>5. a \in Memory /\ a.identities = s.identities
      BY <2>1, <2>3, <2>4, EventKeeps
    <2> HIDE DEF a
    <2>6. b.identities = s.identities
      BY <2>1, <2>3, <2>5, EventKeeps
    <2> HIDE DEF b
    <2>7. QED
      BY <1>4, <2>1, <2>2, <2>4, <2>6
  <1>15. QED
    BY <1>1, <1>13, <1>14

(* Whatever overlaps or fails, and in every configuration, a retired       *)
(* record is brought back only by a call that writes back its own copy of  *)
(* this record (deliverToVault, Provision), or by replacing the whole      *)
(* memory with a snapshot (restoreLocked).  Rotate, Register, Retire,      *)
(* Delete and Use never do.                                                *)
RevivedByCopies ==
    [][\A i \in Instances, id \in Ids :
         /\ mem[i].identities[id].state = "retired"
         /\ mem'[i].identities[id].state \notin {"retired", "absent"}
         => \/ \E t \in Threads : Host[t] = i /\ call[t].id = id /\ WritesBack(t)
            \/ WatchRestore(i) \/ Restart(i)]_vars

(* No other step of the store brings a retired record back.                *)
THEOREM OnlyCopiesRevive == Spec => RevivedByCopies
  <1> DEFINE Revived(i, id) ==
                 /\ mem[i].identities[id].state = "retired"
                 /\ mem'[i].identities[id].state \notin {"retired", "absent"}
             Explains(i, id) ==
                 \/ \E t \in Threads : Host[t] = i /\ call[t].id = id /\ WritesBack(t)
                 \/ WatchRestore(i) \/ Restart(i)
             RevivedStep == \A i \in Instances, id \in Ids :
                              Revived(i, id) => Explains(i, id)
  <1>1. TypeInv /\ CallInv /\ RenewedInv /\ [Next]_vars => [RevivedStep]_vars
    <2> SUFFICES ASSUME TypeInv, CallInv, RenewedInv, Next, NEW i \in Instances, NEW id \in Ids,
                        Revived(i, id)
                 PROVE  Explains(i, id)
      OBVIOUS
    <2>1. ASSUME NEW t \in Threads, Begin(t) \/ Continue(t) PROVE Explains(i, id)
      <3>1. Host[t] = i
        BY <2>1, OneMemory
      <3>2. call[t].id = id /\ WritesBack(t)
        BY <2>1, <3>1, RevivesStep DEF RenewedInv
      <3>3. QED
        BY <3>1, <3>2
    <2>2. ASSUME NEW j \in Instances, Environment(j) PROVE Explains(i, id)
      <3>1. WatchRestore(j) \/ Restart(j)
        BY <2>2 DEF Environment, WatchLoad, LoseNotice
      <3>2. j = i
        BY <3>1 DEF WatchRestore, Restart, TypeInv, TypeOK
      <3>3. QED
        BY <3>1, <3>2
    <2>3. QED
      BY <2>1, <2>2 DEF Next
  <1>2. Init => RenewedInv
    BY NoCallType DEF Init, RenewedInv, Renewed
  <1>3. TypeInv /\ CallInv /\ RenewedInv /\ [Next]_vars => (TypeInv /\ CallInv /\ RenewedInv)'
    BY TypeStep, CallStep, RenewedStep
  <1>4. QED
    BY <1>1, <1>2, <1>3, Initially, PTL DEF Spec, RevivedByCopies
=============================================================================
