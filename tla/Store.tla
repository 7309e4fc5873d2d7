------------------------------- MODULE Store --------------------------------
(***************************************************************************)
(* The lifecycle Store of the control plane (internal/lifecycle): its      *)
(* in-memory state, the read-write mutex that guards it, the API           *)
(* operations that run concurrently on it (HTTP handlers and the sweeper's *)
(* workers), the provider adapter and the vaults they call, the            *)
(* repository holding the snapshot, and the goroutine that reloads it.     *)
(*                                                                         *)
(* A step of an operation is the code between two points at which another  *)
(* goroutine can interfere: a critical section, or one call made without   *)
(* the mutex.  Data is reduced to what the properties tell apart: an       *)
(* identity keeps its state, health, key id and the vault references of    *)
(* its metadata; the secret of key k is k itself; times, names, summaries  *)
(* and actors are left out.  A dry run and a refused request (not found,   *)
(* already retired, missing confirmation) change nothing and are no steps. *)
(***************************************************************************)
EXTENDS Naturals, Sequences, FiniteSets, Protocol

CONSTANTS
    Ids,             \* identities that can be governed
    Instances,       \* processes of the control plane, each with its own Store
    Threads,         \* concurrent API calls
    Host,            \* Host[t]: the instance that serves thread t
    Providers,       \* provider kinds
    ProviderOf,      \* ProviderOf[id]: the provider binding of id
    Discovered,      \* the identities found at first boot, in discovery order
    Ops,             \* the operations that callers use
    NativeResults,   \* what the provider-native vault answers
    CommonResults,   \* what the cluster vault answers
    PerKeySecrets,   \* the native vault names a secret by key id (AWS)
    FillOnCreate,    \* providers whose Create also fills the one-time slot
    PersistResults,  \* what the repository answers
    NoticeCap,       \* bound: change notifications in flight per instance
    MaxOps           \* bound: operations started

Operations == {"provision", "register", "rotate", "retire", "delete", "use"}
VaultAnswers == {"ok", "unsupported", "error"}

ASSUME StoreAssumption ==
    /\ Host \in [Threads -> Instances]
    /\ ProviderOf \in [Ids -> Providers]
    /\ Discovered \in Seq(Ids)
    /\ \A j, k \in DOMAIN Discovered : Discovered[j] = Discovered[k] => j = k
    /\ Ops \subseteq Operations
    /\ NativeResults \subseteq VaultAnswers
    /\ CommonResults \subseteq VaultAnswers
    /\ PerKeySecrets \in BOOLEAN
    /\ FillOnCreate \subseteq Providers
    /\ PersistResults \subseteq {"none", "ok", "unpublished", "lost"}
    /\ NoticeCap \in Nat
    /\ MaxOps \in Nat

VARIABLES
    mem,        \* mem[i]: the maps and counters of instance i's Store
    lock,       \* lock[i]: the thread holding i's mutex across a provider call
    call,       \* call[t]: where thread t is and its local variables
    snapshot,   \* the snapshot in the repository
    notices,    \* notices[i]: change notifications on their way to i
    watch,      \* watch[i]: the reload goroutine of i, with the loaded snapshot
    live,       \* live[id]: keys of id that the provider accepts
    issued,     \* issued[id]: keys the provider ever issued for id
    nextKey,    \* number of keys issued
    slot,       \* slot[i][p]: the adapter's buffered one-time secret, 0 if none
    vault,      \* vault["native"], vault["common"]: stored secrets
    ops         \* operations started, capped by MaxOps

vars == <<mem, lock, call, snapshot, notices, watch, live, issued, nextKey,
          slot, vault, ops>>
provider == <<live, issued, nextKey>>
repository == <<snapshot, notices>>

-----------------------------------------------------------------------------
(* State of the Store, as the snapshot serialises it.                      *)

Identity == [state : States \cup {"absent"}, health : {"healthy", "attention"},
             key : Nat, refs : SUBSET {"native", "common"}]

NoIdentity == [state |-> "absent", health |-> "healthy", key |-> 0, refs |-> {}]

(* mirrored and unmirrored are credential.delivered and credential.revoked *)
(* with the cluster vault as vault_kind.                                   *)
EventKinds == {"discovered", "registered", "requested", "started", "completed",
               "failed", "delivered", "mirrored", "used", "revoked", "unmirrored",
               "retired"}

Outcomes == {"success", "failure", "in_progress", "attention"}

Event == [n : Nat, id : Ids, kind : EventKinds, outcome : Outcomes, run : Nat]

Run == [n : Nat, id : Ids, status : {"running", "succeeded", "failed"}, key : Nat]

Memory == [identities : [Ids -> Identity], events : SUBSET Event,
           runs : SUBSET Run, nextEvent : Nat, nextRun : Nat]

EmptyMemory == [identities |-> [id \in Ids |-> NoIdentity], events |-> {},
                runs |-> {}, nextEvent |-> 0, nextRun |-> 0]

addEvent(m, id, kind, outcome, run) ==
    [m EXCEPT !.nextEvent = @ + 1,
              !.events = @ \cup {[n |-> m.nextEvent + 1, id |-> id, kind |-> kind,
                                  outcome |-> outcome, run |-> run]}]

setIdentity(m, id, identity) == [m EXCEPT !.identities[id] = identity]

(* Rotate allocates a run, moves the identity to renewing and audits both. *)
startRun(m, id) ==
    LET n == m.nextRun + 1
        started == [m EXCEPT
            !.nextRun = n,
            !.runs = @ \cup {[n |-> n, id |-> id, status |-> "running", key |-> 0]},
            !.identities[id].state = "renewing"]
    IN  addEvent(addEvent(started, id, "requested", "in_progress", n),
                 id, "started", "in_progress", n)

(* Fault: the failed rotation leaves the state alone.                      *)
returnedRenewing(view) == [view EXCEPT !.health = "attention"]

(* Fault: the failed rotation is not flagged.                              *)
returnedHealthy(view) == [view EXCEPT !.state = "active"]

(* The record after a rotation the provider refused: active, for a retry.  *)
returned(view) == [view EXCEPT !.state = "active", !.health = "attention"]

(* The terminal record of run n and its terminal event.                    *)
finishRun(m, id, n, status, key) ==
    LET finished == [m EXCEPT
            !.runs = {r \in @ : r.n # n}
                     \cup {[n |-> n, id |-> id, status |-> status, key |-> key]}]
    IN  IF status = "succeeded" THEN addEvent(finished, id, "completed", "success", n)
                                ELSE addEvent(finished, id, "failed", "failure", n)

(* Faults of Delete: the record is flagged instead of dropped, its runs    *)
(* stay, its events stay.                                                  *)
purgeFlag(m, id) == [m EXCEPT !.identities[id].state = "deleted"]
purgeKeepEvents(m, id) ==
    [m EXCEPT !.identities[id] = NoIdentity,
              !.runs = {r \in @ : r.id # id},
              !.nextEvent = @ + 1]

(* Delete audits the purge, then drops the record, its events and its runs. *)
purge(m, id) ==
    [m EXCEPT !.identities[id] = NoIdentity,
              !.events = {e \in @ : e.id # id},
              !.runs = {r \in @ : r.id # id},
              !.nextEvent = @ + 1]

(* First boot: every discovered identity is adopted, with two events each.  *)
(* Its key is the one key the provider accepts for it then.                *)
adopted ==
    LET found == DOMAIN Discovered
        audit(k, n, kind) == [n |-> n, id |-> Discovered[k], kind |-> kind,
                              outcome |-> "success", run |-> 0]
    IN  [EmptyMemory EXCEPT
          !.identities = [id \in Ids |->
              IF \E k \in found : Discovered[k] = id
              THEN [NoIdentity EXCEPT !.state = "active",
                                      !.key = CHOOSE k \in found : Discovered[k] = id]
              ELSE NoIdentity],
          !.events = {audit(k, 2 * k - 1, "discovered") : k \in found}
                     \cup {audit(k, 2 * k, "registered") : k \in found},
          !.nextEvent = 2 * Len(Discovered)]

-----------------------------------------------------------------------------
(* A call in progress: its program counter, the operation, the identity it *)
(* works on, the local copy of the record, the run, the secret in hand and *)
(* the parts of the snapshot copied so far by the unlocked persist.        *)

Places == {"idle", "rotating", "consume", "adopt", "deliver", "mirror", "record",
           "persist", "copyIdentities", "copyEvents", "copyRuns", "save",
           "revoke", "revokeCommon", "purge", "read", "audit"}

Call == [pc : Places, op : Operations \cup {"none"}, id : Ids \cup {"none"},
         view : Identity, run : Nat, secret : Nat, snap : Memory]

NoCall == [pc |-> "idle", op |-> "none", id |-> "none", view |-> NoIdentity,
           run |-> 0, secret |-> 0, snap |-> EmptyMemory]

Proceed(t, c) == call' = [call EXCEPT ![t] = c]
Return(t) == Proceed(t, NoCall)
Goto(t, place) == Proceed(t, [call[t] EXCEPT !.pc = place])

(* Thread t, idle, starts operation op.                                    *)
Start(t, op) ==
    /\ call[t].pc = "idle"
    /\ op \in Ops
    /\ ops < MaxOps
    /\ ops' = ops + 1

Enter(t, op, id, place, view) ==
    Proceed(t, [NoCall EXCEPT !.pc = place, !.op = op, !.id = id, !.view = view])

Unlocked(t) == lock[Host[t]] = {}

(* Fault: a path that forgets to unlock.                                   *)
ReleaseNever(t) == UNCHANGED lock

Release(t) == lock' = [lock EXCEPT ![Host[t]] = {}]

SetMem(t, m) == mem' = [mem EXCEPT ![Host[t]] = m]

-----------------------------------------------------------------------------
(* The repository.  persistLocked hands the snapshot to Save, which writes *)
(* it and then publishes the change.  No repository: nothing to do.  The   *)
(* write may fail ("lost"), and so may the publication after a successful  *)
(* write ("unpublished"); both are an error to the caller.                 *)

publish == notices' = [i \in Instances |->
                         IF notices[i] < NoticeCap THEN notices[i] + 1 ELSE notices[i]]

Save(m, result) ==
    \/ result \in {"none", "lost"} /\ UNCHANGED repository
    \/ result = "unpublished" /\ snapshot' = m /\ UNCHANGED notices
    \/ result = "ok" /\ snapshot' = m /\ publish

Saved(result) == result \in {"none", "ok"}

(* A critical section that leaves memory m and persists it.                *)
persistLocked(t, m) ==
    /\ SetMem(t, m)
    /\ \E result \in PersistResults : Save(m, result)

-----------------------------------------------------------------------------
(* The vaults.  A secret is filed under the identity, and in the native    *)
(* vault of AWS under the key id as well; a store replaces the current     *)
(* version.                                                                *)

Entry == [id : Ids, name : Nat, secret : Nat]

secretName(w, key) == IF w = "native" /\ PerKeySecrets THEN key ELSE 0

Answers(w) == IF w = "native" THEN NativeResults ELSE CommonResults

Filed(w, id, key) ==
    {e \in vault[w] : e.id = id /\ e.name = secretName(w, key)}

StoreSecret(w, id, key, secret) ==
    vault' = [vault EXCEPT ![w] = (@ \ Filed(w, id, key))
                  \cup {[id |-> id, name |-> secretName(w, key), secret |-> secret]}]

RevokeSecret(w, id, key) == vault' = [vault EXCEPT ![w] = @ \ Filed(w, id, key)]

(* deliverToVault and mirrorToCommonVault: the vault is written without    *)
(* the mutex, then the outcome is audited under it; a vault that is not    *)
(* configured is skipped silently.  Only a successful delivery leaves a    *)
(* reference in the local copy of the record.                              *)
persistPlace(op) == IF op = "rotate" THEN "persist" ELSE "copyIdentities"

afterDelivery(w, op, refs) ==
    CASE w = "native" -> "mirror"
      [] w = "common" /\ refs # {} -> "record"
      [] OTHER -> persistPlace(op)

Deliver(t, w) ==
    LET c == call[t]
        m == mem[Host[t]]
        kind == IF w = "native" THEN "delivered" ELSE "mirrored"
    IN  \E answer \in Answers(w) :
          \/ /\ answer = "unsupported"
             /\ UNCHANGED <<mem, vault>>
             /\ Goto(t, afterDelivery(w, c.op, c.view.refs))
          \/ /\ answer = "error"
             /\ SetMem(t, addEvent(m, c.id, kind, "attention", 0))
             /\ UNCHANGED vault
             /\ Goto(t, afterDelivery(w, c.op, c.view.refs))
          \/ /\ answer = "ok"
             /\ StoreSecret(w, c.id, c.view.key, c.secret)
             /\ SetMem(t, addEvent(m, c.id, kind, "success", 0))
             /\ Proceed(t, [c EXCEPT !.view.refs = @ \cup {w},
                                     !.pc = afterDelivery(w, c.op, c.view.refs \cup {w})])

(* revokeFromVault and revokeFromCommonVault, with the key id of the local *)
(* copy of the record.                                                     *)
Revoke(t, w) ==
    LET c == call[t]
        m == mem[Host[t]]
        kind == IF w = "native" THEN "revoked" ELSE "unmirrored"
    IN  \E answer \in Answers(w) :
          \/ /\ answer = "unsupported"
             /\ UNCHANGED <<mem, vault>>
          \/ /\ answer = "error"
             /\ SetMem(t, addEvent(m, c.id, kind, "attention", 0))
             /\ UNCHANGED vault
          \/ /\ answer = "ok"
             /\ RevokeSecret(w, c.id, c.view.key)
             /\ SetMem(t, addEvent(m, c.id, kind, "success", 0))

-----------------------------------------------------------------------------
(* Register: one critical section.  It records what the request says, with *)
(* the key id of any credential of the identity or one that nobody issued  *)
(* (0), and calls no provider.                                             *)
Register(t, id) ==
    LET m == mem[Host[t]]
    IN  /\ Start(t, "register")
        /\ Unlocked(t)
        /\ m.identities[id].state = "absent"
        /\ \E key \in issued[id] \cup {0} :
              LET identity == [NoIdentity EXCEPT !.state = "active", !.key = key]
              IN  persistLocked(t, addEvent(setIdentity(m, id, identity),
                                            id, "registered", "success", 0))
        /\ UNCHANGED <<lock, call, watch, provider, slot, vault>>

(* Fault: a buffered secret is not replaced.                               *)
rememberFirst(t, id, key) ==
    slot' = [slot EXCEPT ![Host[t]][ProviderOf[id]] = IF @ = 0 THEN key ELSE @]

(* The provider's adapter buffers the secret it just issued, once.         *)
remember(t, id, key) == slot' = [slot EXCEPT ![Host[t]][ProviderOf[id]] = key]

(* Rotate up to the provider call: the mutex stays held.                   *)
RotateBegin(t, id) ==
    LET m == mem[Host[t]]
        identity == m.identities[id]
    IN  /\ Start(t, "rotate")
        /\ Unlocked(t)
        /\ CanTransition(identity.state, "renewing")
        /\ SetMem(t, startRun(m, id))
        /\ lock' = [lock EXCEPT ![Host[t]] = {t}]
        /\ Proceed(t, [NoCall EXCEPT !.pc = "rotating", !.op = "rotate", !.id = id,
                            !.view = [identity EXCEPT !.state = "renewing"],
                            !.run = m.nextRun + 1])
        /\ UNCHANGED <<repository, watch, provider, slot, vault>>

(* The provider refuses.  It may already have issued the new key, and      *)
(* removed the old one, before the call that failed.  The identity is      *)
(* active again, for a retry.                                              *)
RotateFail(t) ==
    LET c == call[t]
        m == setIdentity(mem[Host[t]], c.id, returned(c.view))
        key == nextKey + 1
    IN  /\ c.pc = "rotating"
        /\ \/ UNCHANGED provider
           \/ /\ nextKey' = key
              /\ issued' = [issued EXCEPT ![c.id] = @ \cup {key}]
              /\ \/ live' = [live EXCEPT ![c.id] = @ \cup {key}]
                 \/ live' = [live EXCEPT ![c.id] = (@ \ {c.view.key}) \cup {key}]
        /\ persistLocked(t, finishRun(m, c.id, c.run, "failed", 0))
        /\ Release(t)
        /\ Return(t)
        /\ UNCHANGED <<watch, slot, vault, ops>>

(* The provider rotates: the record becomes the provider's view, without   *)
(* vault metadata, and the mutex is released before anything is persisted. *)
RotateSucceed(t) ==
    LET c == call[t]
        key == nextKey + 1
        identity == [NoIdentity EXCEPT !.state = "active", !.key = key]
        m == setIdentity(mem[Host[t]], c.id, identity)
    IN  /\ c.pc = "rotating"
        /\ nextKey' = key
        /\ issued' = [issued EXCEPT ![c.id] = @ \cup {key}]
        /\ live' = [live EXCEPT ![c.id] = (@ \ {c.view.key}) \cup {key}]
        /\ remember(t, c.id, key)
        /\ SetMem(t, finishRun(m, c.id, c.run, "succeeded", key))
        /\ Release(t)
        /\ Proceed(t, [c EXCEPT !.pc = "consume", !.view = identity])
        /\ UNCHANGED <<repository, watch, vault, ops>>

(* ConsumeOneTimeSecret takes whatever secret the adapter buffers.         *)
RotateConsume(t) ==
    LET c == call[t]
        i == Host[t]
        secret == slot[i][ProviderOf[c.id]]
    IN  /\ c.pc = "consume"
        /\ slot' = [slot EXCEPT ![i][ProviderOf[c.id]] = 0]
        /\ Proceed(t, [c EXCEPT !.secret = secret,
                                !.pc = IF secret = 0 THEN "persist" ELSE "deliver"])
        /\ UNCHANGED <<mem, lock, repository, watch, provider, vault, ops>>

RotatePersist(t) ==
    /\ call[t].pc = "persist"
    /\ Unlocked(t)
    /\ persistLocked(t, mem[Host[t]])
    /\ Return(t)
    /\ UNCHANGED <<lock, watch, provider, slot, vault, ops>>

(* Delivery to the native vault, then the mirror, for Rotate and Provision. *)
DeliverToVault(t) ==
    /\ call[t].pc = "deliver"
    /\ Unlocked(t)
    /\ Deliver(t, "native")
    /\ UNCHANGED <<lock, repository, watch, provider, slot, ops>>

MirrorToCommonVault(t) ==
    /\ call[t].pc = "mirror"
    /\ Unlocked(t)
    /\ Deliver(t, "common")
    /\ UNCHANGED <<lock, repository, watch, provider, slot, ops>>

(* The references are recorded by writing the whole local copy back.       *)
RecordReferences(t) ==
    LET c == call[t]
    IN  /\ c.pc = "record"
        /\ Unlocked(t)
        /\ SetMem(t, setIdentity(mem[Host[t]], c.id, c.view))
        /\ Goto(t, persistPlace(c.op))
        /\ UNCHANGED <<lock, repository, watch, provider, slot, vault, ops>>

-----------------------------------------------------------------------------
(* Provision: the provider creates an identity under a fresh random name,  *)
(* without the mutex.                                                      *)
ProvisionCreate(t, id) ==
    LET key == nextKey + 1
        identity == [NoIdentity EXCEPT !.state = "active", !.key = key]
    IN  /\ Start(t, "provision")
        /\ issued[id] = {}
        /\ \A i \in Instances : mem[i].identities[id].state = "absent"
        /\ nextKey' = key
        /\ issued' = [issued EXCEPT ![id] = {key}]
        /\ live' = [live EXCEPT ![id] = {key}]
        /\ IF ProviderOf[id] \in FillOnCreate THEN remember(t, id, key)
                                              ELSE UNCHANGED slot
        /\ Proceed(t, [NoCall EXCEPT !.pc = "adopt", !.op = "provision", !.id = id,
                                     !.view = identity, !.secret = key])
        /\ UNCHANGED <<mem, lock, repository, watch, vault>>

(* A non-conformant identity is cleaned up at the provider, if it answers, *)
(* and refused.                                                            *)
ProvisionReject(t) ==
    /\ call[t].pc = "adopt"
    /\ \/ live' = [live EXCEPT ![call[t].id] = {}]
       \/ UNCHANGED live
    /\ Return(t)
    /\ UNCHANGED <<mem, lock, repository, watch, issued, nextKey, slot, vault, ops>>

ProvisionAdopt(t) ==
    LET c == call[t]
        m == setIdentity(mem[Host[t]], c.id, c.view)
    IN  /\ c.pc = "adopt"
        /\ Unlocked(t)
        /\ SetMem(t, addEvent(addEvent(m, c.id, "discovered", "success", 0),
                              c.id, "registered", "success", 0))
        /\ Goto(t, "deliver")
        /\ UNCHANGED <<lock, repository, watch, provider, slot, vault, ops>>

(* Provision calls persistLocked without the mutex: snapshotLocked reads   *)
(* the identities, the events, then the runs and counters, and the result  *)
(* is saved, while other goroutines change all of them.                    *)
CopyPart(t) ==
    LET c == call[t]
        m == mem[Host[t]]
    IN  \/ /\ c.pc = "copyIdentities"
           /\ Proceed(t, [c EXCEPT !.snap.identities = m.identities,
                                   !.pc = "copyEvents"])
        \/ /\ c.pc = "copyEvents"
           /\ Proceed(t, [c EXCEPT !.snap.events = m.events, !.pc = "copyRuns"])
        \/ /\ c.pc = "copyRuns"
           /\ Proceed(t, [c EXCEPT !.snap.runs = m.runs,
                                   !.snap.nextEvent = m.nextEvent,
                                   !.snap.nextRun = m.nextRun,
                                   !.pc = "save"])

ProvisionSnapshot(t) ==
    /\ CopyPart(t)
    /\ UNCHANGED <<mem, lock, repository, watch, provider, slot, vault, ops>>

ProvisionSave(t) ==
    /\ call[t].pc = "save"
    /\ \E result \in PersistResults : Save(call[t].snap, result)
    /\ Return(t)
    /\ UNCHANGED <<mem, lock, watch, provider, slot, vault, ops>>

-----------------------------------------------------------------------------
(* Retire holds the mutex over the provider call, the record and the       *)
(* persist.  The provider deletes every key and its view has no key id.    *)
(* When the persist fails the operation returns without revoking.          *)
Retire(t, id) ==
    LET m == mem[Host[t]]
        identity == [m.identities[id] EXCEPT !.state = "retired", !.key = 0,
                                             !.health = "attention"]
        retired == addEvent(setIdentity(m, id, identity), id, "retired", "success", 0)
    IN  /\ Start(t, "retire")
        /\ Unlocked(t)
        /\ CanTransition(m.identities[id].state, "retired")
        /\ live' = [live EXCEPT ![id] = {}]
        /\ SetMem(t, retired)
        /\ \E result \in PersistResults :
              /\ Save(retired, result)
              /\ IF Saved(result) THEN Enter(t, "retire", id, "revoke", identity)
                                  ELSE UNCHANGED call
        /\ UNCHANGED <<lock, watch, issued, nextKey, slot, vault>>

(* The provider fails: the store is as before, although any keys may be    *)
(* gone by then.                                                           *)
RetireFail(t, id) ==
    /\ Start(t, "retire")
    /\ Unlocked(t)
    /\ CanTransition(mem[Host[t]].identities[id].state, "retired")
    /\ \E rest \in SUBSET live[id] : live' = [live EXCEPT ![id] = rest]
    /\ UNCHANGED <<mem, lock, call, repository, watch, issued, nextKey, slot, vault>>

(* Fault: any record may be deleted.                                       *)
DeleteBeginUnchecked(t, id) ==
    LET identity == mem[Host[t]].identities[id]
    IN  /\ Start(t, "delete")
        /\ Unlocked(t)
        /\ Enter(t, "delete", id, "revoke", identity)
        /\ UNCHANGED <<mem, lock, repository, watch, provider, slot, vault>>

(* Delete checks the state, gives the mutex up, revokes, and purges a      *)
(* record that is still there.                                             *)
DeleteBegin(t, id) ==
    LET identity == mem[Host[t]].identities[id]
    IN  /\ Start(t, "delete")
        /\ Unlocked(t)
        /\ identity.state = "retired"
        /\ Enter(t, "delete", id, "revoke", identity)
        /\ UNCHANGED <<mem, lock, repository, watch, provider, slot, vault>>

RevokeFromVault(t) ==
    /\ call[t].pc = "revoke"
    /\ Unlocked(t)
    /\ Revoke(t, "native")
    /\ Goto(t, "revokeCommon")
    /\ UNCHANGED <<lock, repository, watch, provider, slot, ops>>

RevokeFromCommonVault(t) ==
    /\ call[t].pc = "revokeCommon"
    /\ Unlocked(t)
    /\ Revoke(t, "common")
    /\ IF call[t].op = "delete" THEN Goto(t, "purge") ELSE Return(t)
    /\ UNCHANGED <<lock, repository, watch, provider, slot, ops>>

DeletePurge(t) ==
    LET c == call[t]
        m == mem[Host[t]]
    IN  /\ c.pc = "purge"
        /\ Unlocked(t)
        /\ IF m.identities[c.id].state = "absent"
           THEN UNCHANGED <<mem, repository>>
           ELSE persistLocked(t, purge(m, c.id))
        /\ Return(t)
        /\ UNCHANGED <<lock, watch, provider, slot, vault, ops>>

-----------------------------------------------------------------------------
(* Use reads the record, then the vault, then audits the retrieval, with   *)
(* the mutex free in between.  Only an unsupported native vault falls back *)
(* to the cluster vault; a secret that is not there is an error.           *)
UseBegin(t, id) ==
    LET identity == mem[Host[t]].identities[id]
    IN  /\ Start(t, "use")
        /\ Unlocked(t)
        /\ identity.state \notin {"absent", "retired"}
        /\ Enter(t, "use", id, "read", identity)
        /\ UNCHANGED <<mem, lock, repository, watch, provider, slot, vault>>

ReadSecret(t, w) ==
    LET c == call[t]
    IN  \/ /\ "ok" \in Answers(w)
           /\ \E e \in Filed(w, c.id, c.view.key) :
                Proceed(t, [c EXCEPT !.secret = e.secret, !.pc = "audit"])
        \/ /\ "ok" \in Answers(w)
           /\ Filed(w, c.id, c.view.key) = {}
           /\ Return(t)
        \/ /\ "error" \in Answers(w)
           /\ Return(t)

UseRead(t) ==
    /\ call[t].pc = "read"
    /\ \/ ReadSecret(t, "native")
       \/ "unsupported" \in NativeResults /\ ReadSecret(t, "common")
       \/ "unsupported" \in NativeResults \cap CommonResults /\ Return(t)
    /\ UNCHANGED <<mem, lock, repository, watch, provider, slot, vault, ops>>

UseAudit(t) ==
    LET c == call[t]
    IN  /\ c.pc = "audit"
        /\ Unlocked(t)
        /\ persistLocked(t, addEvent(mem[Host[t]], c.id, "used", "success", 0))
        /\ Return(t)
        /\ UNCHANGED <<lock, watch, provider, slot, vault, ops>>

-----------------------------------------------------------------------------
(* The reload goroutine: on a notification it loads the snapshot, then     *)
(* takes the mutex and replaces the whole memory with it.                  *)
Watch == [busy : BOOLEAN, snap : Memory]

NoWatch == [busy |-> FALSE, snap |-> EmptyMemory]

WatchLoad(i) ==
    /\ notices[i] > 0
    /\ ~watch[i].busy
    /\ notices' = [notices EXCEPT ![i] = @ - 1]
    /\ watch' = [watch EXCEPT ![i] = [busy |-> TRUE, snap |-> snapshot]]
    /\ UNCHANGED <<mem, lock, call, snapshot, provider, slot, vault, ops>>

(* Faults of the restore: the counters are not restored, the runs in       *)
(* memory are kept.                                                        *)
restoreUncounted(m, snap) ==
    [snap EXCEPT !.nextEvent = m.nextEvent, !.nextRun = m.nextRun]
restoreMerged(m, snap) == [snap EXCEPT !.runs = @ \cup m.runs]

(* Memory m, restored: its maps are built anew from the snapshot and both  *)
(* counters are the snapshot's, so nothing of m is left.                   *)
restoreLocked(m, snap) ==
    [m EXCEPT !.identities = snap.identities, !.events = snap.events,
              !.runs = snap.runs, !.nextEvent = snap.nextEvent,
              !.nextRun = snap.nextRun]

(* Fault: the restore does not take the mutex.                             *)
WatchRestoreUnlocked(i) ==
    /\ watch[i].busy
    /\ mem' = [mem EXCEPT ![i] = restoreLocked(@, watch[i].snap)]
    /\ watch' = [watch EXCEPT ![i] = NoWatch]
    /\ UNCHANGED <<lock, call, repository, provider, slot, vault, ops>>

WatchRestore(i) ==
    /\ watch[i].busy
    /\ lock[i] = {}
    /\ mem' = [mem EXCEPT ![i] = restoreLocked(@, watch[i].snap)]
    /\ watch' = [watch EXCEPT ![i] = NoWatch]
    /\ UNCHANGED <<lock, call, repository, provider, slot, vault, ops>>

(* Pub/sub delivers at most once, the listener channel holds one           *)
(* notification, and a failed Load is skipped.                             *)
LoseNotice(i) ==
    /\ notices[i] > 0
    /\ notices' = [notices EXCEPT ![i] = @ - 1]
    /\ UNCHANGED <<mem, lock, call, snapshot, watch, provider, slot, vault, ops>>

(* A persistent instance dies and starts again from the snapshot.          *)
Restart(i) ==
    /\ "none" \notin PersistResults
    /\ mem' = [mem EXCEPT ![i] = restoreLocked(EmptyMemory, snapshot)]
    /\ lock' = [lock EXCEPT ![i] = {}]
    /\ call' = [t \in Threads |-> IF Host[t] = i THEN NoCall ELSE call[t]]
    /\ notices' = [notices EXCEPT ![i] = 0]
    /\ watch' = [watch EXCEPT ![i] = NoWatch]
    /\ slot' = [slot EXCEPT ![i] = [p \in Providers |-> 0]]
    /\ UNCHANGED <<snapshot, provider, vault, ops>>

-----------------------------------------------------------------------------
Init ==
    /\ mem = [i \in Instances |-> adopted]
    /\ lock = [i \in Instances |-> {}]
    /\ call = [t \in Threads |-> NoCall]
    /\ snapshot = adopted
    /\ notices = [i \in Instances |-> 0]
    /\ watch = [i \in Instances |-> NoWatch]
    /\ live = [id \in Ids |-> {k \in DOMAIN Discovered : Discovered[k] = id}]
    /\ issued = live
    /\ nextKey = Len(Discovered)
    /\ slot = [i \in Instances |-> [p \in Providers |-> 0]]
    /\ vault = [w \in {"native", "common"} |-> {}]
    /\ ops = 0

Begin(t) ==
    \E id \in Ids : \/ Register(t, id) \/ RotateBegin(t, id)
                    \/ ProvisionCreate(t, id) \/ Retire(t, id)
                    \/ RetireFail(t, id) \/ DeleteBegin(t, id) \/ UseBegin(t, id)

Continue(t) ==
    \/ RotateFail(t) \/ RotateSucceed(t) \/ RotateConsume(t) \/ RotatePersist(t)
    \/ DeliverToVault(t) \/ MirrorToCommonVault(t) \/ RecordReferences(t)
    \/ ProvisionReject(t) \/ ProvisionAdopt(t) \/ ProvisionSnapshot(t)
    \/ ProvisionSave(t) \/ RevokeFromVault(t) \/ RevokeFromCommonVault(t)
    \/ DeletePurge(t) \/ UseRead(t) \/ UseAudit(t)

Environment(i) == WatchLoad(i) \/ WatchRestore(i) \/ LoseNotice(i) \/ Restart(i)

Next == \/ \E t \in Threads : Begin(t) \/ Continue(t)
        \/ \E i \in Instances : Environment(i)

Spec == Init /\ [][Next]_vars

(* Callers may stop calling.  A call in progress goes on: the runtime      *)
(* schedules its goroutine, every provider and vault call is bounded by    *)
(* its context, and Go's mutex hands over to waiters in starvation mode.   *)
FairSpec == Spec /\ \A t \in Threads : SF_vars(Continue(t))

-----------------------------------------------------------------------------
(* Properties.                                                             *)

(* Every variable keeps its shape.                                         *)
TypeOK ==
    /\ mem \in [Instances -> Memory]
    /\ lock \in [Instances -> SUBSET Threads]
    /\ call \in [Threads -> Call]
    /\ snapshot \in Memory
    /\ notices \in [Instances -> Nat]
    /\ watch \in [Instances -> Watch]
    /\ live \in [Ids -> SUBSET Nat]
    /\ issued \in [Ids -> SUBSET Nat]
    /\ nextKey \in Nat
    /\ slot \in [Instances -> [Providers -> Nat]]
    /\ vault \in [{"native", "common"} -> SUBSET Entry]
    /\ ops \in Nat

(* The numbers of a memory: an event or run id is used once, and the       *)
(* counters are ahead of every id in use, so that the next id is fresh.    *)
Numbered(m) ==
    /\ \A e \in m.events : e.n \in 1..m.nextEvent
    /\ \A e, f \in m.events : e.n = f.n => e = f
    /\ \A r \in m.runs : r.n \in 1..m.nextRun
    /\ \A r, q \in m.runs : r.n = q.n => r = q

(* Event and run ids stay unique in every memory and in the snapshot,      *)
(* whatever is lost, reloaded, purged or restarted (addEvent, Rotate,      *)
(* restoreLocked).                                                         *)
IdsUnique == Numbered(snapshot) /\ \A i \in Instances : Numbered(mem[i])

Terminal(status) == IF status = "succeeded" THEN "completed" ELSE "failed"

EventsOf(m, n, kind) == {e \in m.events : e.run = n /\ e.kind = kind}

(* A run and its audit events agree: one rotation.started, then exactly    *)
(* one terminal event of the run's own outcome (none while it runs), and   *)
(* no run event outlives its run.                                          *)
Explained(m) ==
    /\ \A r \in m.runs :
         /\ \E e \in EventsOf(m, r.n, "started") :
              EventsOf(m, r.n, "started") = {e}
         /\ IF r.status = "running"
            THEN EventsOf(m, r.n, "completed") \cup EventsOf(m, r.n, "failed") = {}
            ELSE \E e \in EventsOf(m, r.n, Terminal(r.status)) :
                   EventsOf(m, r.n, "completed") \cup EventsOf(m, r.n, "failed") = {e}
    /\ \A e \in m.events : e.run # 0 =>
         \E r \in m.runs : r.n = e.run /\ r.id = e.id

(* The audit trail explains every rotation run, in every memory and in the *)
(* snapshot (Rotate, Delete, persistLocked, restoreLocked).                *)
RunsExplained == Explained(snapshot) /\ \A i \in Instances : Explained(mem[i])

Settled(m, id) ==
    /\ m.identities[id].state # "renewing"
    /\ \A r \in m.runs : r.id = id => r.status # "running"

(* A rotation in progress is visible only while its thread holds the       *)
(* mutex, and never in the repository, from where it would be restored     *)
(* with nobody left to finish it: an identity stuck in renewing can never  *)
(* be rotated again (ErrRotationInProgress).                               *)
NoneStuck ==
    \A id \in Ids :
      /\ Settled(snapshot, id)
      /\ \A i \in Instances :
           \/ Settled(mem[i], id)
           \/ \E t \in lock[i] : call[t].pc = "rotating" /\ call[t].id = id

(* While a call is inside the provider's Rotate nobody else changes the    *)
(* memory it works on: no operation of another thread, no reload.          *)
RenewingUndisturbed ==
    [][\A t \in Threads : call[t].pc = "rotating" /\ call'[t].pc = "rotating" =>
         mem'[Host[t]] = mem[Host[t]]]_vars

(* What is on record of identity id in memory and in the snapshot alike.   *)
SavedRuns(i, id) == {r \in mem[i].runs \cap snapshot.runs : r.id = id}
SavedEvents(i, id) == {e \in mem[i].events \cap snapshot.events : e.id = id}

(* The history of an identity that is saved survives: a run or an audit    *)
(* event that is in memory and in the snapshot leaves neither before       *)
(* Delete purges the identity, whatever later writes are lost and wherever *)
(* the process dies (Rotate's write-back by run id, persistLocked,         *)
(* restoreLocked with its counters).                                       *)
SavedHistoryStays ==
    [][\A i \in Instances : \A id \in Ids :
         \/ /\ SavedRuns(i, id) \subseteq SavedRuns(i, id)'
            /\ SavedEvents(i, id) \subseteq SavedEvents(i, id)'
         \/ \E t \in Threads : call[t].id = id /\ DeletePurge(t)]_vars

(* No audit event is kept for an identity that is not governed: Delete     *)
(* removes the record with its events and runs.                            *)
NoOrphanEvents ==
    \A i \in Instances : \A e \in mem[i].events :
        mem[i].identities[e.id].state # "absent"

(* A vault holds, under the name of an identity, a secret issued for this  *)
(* identity, and under a key id the secret of this key (deliverToVault     *)
(* after ConsumeOneTimeSecret).                                            *)
VaultHoldsItsKey ==
    \A w \in {"native", "common"} : \A e \in vault[w] :
        /\ e.secret \in issued[e.id]
        /\ w = "native" /\ PerKeySecrets => e.secret = e.name

(* Identity id is shown as active and healthy with a key that its provider *)
(* does not accept.                                                        *)
ShownDead(i, id) ==
    LET identity == mem[i].identities[id]
    IN  /\ identity.state = "active" /\ identity.health = "healthy"
        /\ identity.key \notin live[id] \cup {0}

(* The key of an identity shown as active and healthy dies only in a       *)
(* retirement that the provider broke off: every other step, also a        *)
(* rotation that failed after it removed the old key, leaves a record that *)
(* is flagged or has a working key (Rotate, Provision, Retire).  A record  *)
(* may be registered with a dead key.                                      *)
KeysDieByRetirement ==
    [][\A i \in Instances : \A id \in Ids :
         ShownDead(i, id)' => \/ ShownDead(i, id)
                             \/ \E t \in Threads : RetireFail(t, id) \/ Register(t, id)]_vars

(* Retired is terminal: the record stays retired or is purged.             *)
RetiredIsFinal ==
    [][\A i \in Instances : \A id \in Ids :
         mem[i].identities[id].state = "retired" =>
           mem'[i].identities[id].state \in {"retired", "absent"}]_vars

(* The records of every instance, seen as lifecycle states.                *)
Lifecycle == INSTANCE Governance WITH
    Ids <- Instances \X Ids,
    gov <- [x \in Instances \X Ids |-> mem[x[1]].identities[x[2]].state]

(* The store implements the canonical lifecycle: a record appears as       *)
(* active, moves only along AllowedTransitions, and disappears only when   *)
(* retired (Provision, Rotate, Retire, Delete).                            *)
FollowsLifecycle == Lifecycle!Spec

(* Every call returns: no path of an operation keeps the mutex, and no     *)
(* call waits forever for it.                                              *)
CallsReturn ==
    \A t \in Threads : call[t].pc # "idle" ~> call[t].pc = "idle"
=============================================================================
