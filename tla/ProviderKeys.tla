---------------------------- MODULE ProviderKeys ----------------------------
(***************************************************************************)
(* The keys of one identity at its provider, and the sequence of provider  *)
(* calls by which an adapter (internal/provider) creates, discovers,       *)
(* rotates and retires it: AWS IAM, GCP IAM and Azure / Entra ID.  Store   *)
(* sees such a sequence as one call that succeeds or fails; here every     *)
(* call of the sequence may fail, before or after it took effect, and the  *)
(* process may crash between two of them.                                  *)
(*                                                                         *)
(* Keys are numbered in the order of their creation.  The Store's mutex    *)
(* lets one rotation or retirement of an instance run at a time.           *)
(***************************************************************************)
EXTENDS Naturals, Sequences, FiniteSets

CONSTANTS
    Kinds,          \* the providers considered
    Ceiling,        \* Ceiling[k]: keys provider k allows: 2 on AWS, 10 on GCP;
                    \* bound: a small number of passwords on Azure
    Retires,        \* the identity may be retired
    MaxRotations,   \* bound: rotations begun on a healthy identity
    MaxFaults       \* bound: failed calls and crashes

ASSUME KeysAssumption ==
    /\ Kinds \subseteq {"aws", "gcp", "azure"}
    /\ Ceiling \in [Kinds -> Nat \ {0, 1}]
    /\ Retires \in BOOLEAN
    /\ MaxRotations \in Nat
    /\ MaxFaults \in Nat

VARIABLES
    kind,       \* the identity's provider
    durable,    \* the governor's snapshot survives a restart
    account,    \* the user, service account or application: "none", "there",
                \* or "fresh", when some replicas of the provider miss it
    keys,       \* keys the provider accepts
    issued,     \* number of keys ever issued
    record,     \* key id in the governance record, 0 if none
    status,     \* "none", "healthy", "attention" or "retired", in the record
    handed,     \* the key whose secret was last handed over, 0 if none
    op,         \* what the adapter was asked for last
    pc,         \* where the adapter is
    listed,     \* keys listed by the operation
    current,    \* the key to rotate out
    created,    \* the key just created
    victim,     \* the key to delete next
    tries,      \* repetitions of the call at hand
    done,       \* calls that change something, made by the operation
    rotations,  \* rotations begun on a healthy identity, capped by MaxRotations
    faults      \* faults so far, capped by MaxFaults

cloud == <<account, keys, issued>>
governed == <<record, status, handed>>
locals == <<listed, current, created, victim>>
vars == <<kind, durable, cloud, governed, op, pc, locals, tries, done, rotations, faults>>

Oldest(K) == CHOOSE k \in K : \A j \in K : k <= j
Newest(K) == CHOOSE k \in K : \A j \in K : k >= j

Fault == faults < MaxFaults /\ faults' = faults + 1

(* A request on the account meets a replica that knows it, or one that     *)
(* does not.                                                               *)
Found == account # "none"
Missed == account # "there"

Go(where) == pc' = where /\ tries' = 0

(* Fault: the outcome of the run is written where its health belongs.      *)
FailedOutcome == Go("idle") /\ status' = "failed" /\ UNCHANGED <<record, handed>>

(* Fault: an error is taken for the end of a retirement.                   *)
FailedRetired ==
    /\ Go("idle")
    /\ status' = CASE op = "rotate" -> "attention" [] op = "retire" -> "retired" [] OTHER -> status
    /\ UNCHANGED <<record, handed>>

(* An operation fails; only a failed rotation is recorded.                 *)
Failed ==
    /\ Go("idle")
    /\ status' = IF op = "rotate" THEN "attention" ELSE status
    /\ UNCHANGED <<record, handed>>

(* An operation returns key k, and its secret.                             *)
Returned(k) ==
    /\ Go("idle")
    /\ record' = k
    /\ handed' = k
    /\ status' = "healthy"

(* A call on an account that a replica misses is repeated, up to a number  *)
(* of attempts.                                                            *)
Again(attempts, gaveUp) ==
    /\ Missed
    /\ \/ tries + 1 < attempts /\ tries' = tries + 1 /\ UNCHANGED <<governed, pc>>
       \/ tries + 1 >= attempts /\ gaveUp

(* A call that changes something is made; its repetitions do not count.    *)
Note(call) == done' = IF tries = 0 THEN Append(done, call) ELSE done

-----------------------------------------------------------------------------
(* Create: the account, then its first key.  Names are random, but AWS and *)
(* GCP take an account that is there already for their own.                *)
CreateBegin ==
    /\ pc = "idle"
    /\ status = "none"
    /\ kind = "azure" => account = "none"
    /\ op' = "create"
    /\ Go("account")
    /\ done' = <<>>
    /\ UNCHANGED <<kind, durable, cloud, governed, locals, rotations, faults>>

(* The user exists afterwards, new or not.                                 *)
createUser == account' = "there" /\ Go("key") /\ UNCHANGED governed

(* An account that exists is looked up in the list, which may miss it.     *)
createServiceAccount ==
    \/ account = "none" /\ account' = "fresh" /\ Go("key") /\ UNCHANGED governed
    \/ account # "none" /\ Go("key") /\ UNCHANGED <<account, governed>>
    \/ account = "fresh" /\ Failed /\ UNCHANGED account

CreateApplication == account' = "fresh" /\ Go("key") /\ UNCHANGED governed

CreateAccount ==
    /\ pc = "account"
    /\ \/ kind = "aws" /\ createUser /\ UNCHANGED faults
       \/ kind = "gcp" /\ createServiceAccount /\ UNCHANGED faults
       \/ kind = "azure" /\ CreateApplication /\ UNCHANGED faults
       \/ /\ Fault
          /\ account' \in {account, IF kind = "aws" THEN "there" ELSE "fresh"}
          /\ account # "none" => account' = account
          /\ Failed
    /\ UNCHANGED <<kind, durable, keys, issued, op, locals, done, rotations>>

(* Only Azure takes the account back when its first key fails.             *)
KeyFailed ==
    IF op = "create" /\ kind = "azure" THEN Go("rollback") /\ UNCHANGED governed ELSE Failed

Issue ==
    /\ Found
    /\ Cardinality(keys) < Ceiling[kind]
    /\ issued' = issued + 1
    /\ keys' = keys \cup {issued + 1}

(* createKeyAfterPropagation, AddPassword: attempts on a missing account.  *)
Attempts == CASE kind = "aws" -> 1 [] kind = "gcp" /\ op = "rotate" -> 1
              [] kind = "gcp" /\ op = "create" -> 5 [] kind = "azure" -> 8

(* A key is created, for Create or for Rotate; the provider refuses one    *)
(* above its ceiling.                                                      *)
CreateKey ==
    /\ pc = "key"
    /\ \/ /\ Issue
          /\ created' = issued + 1
          /\ victim' = current
          /\ CASE op = "rotate" -> Go("drop") /\ UNCHANGED governed
               [] op = "create" /\ kind = "aws" -> Go("tag") /\ UNCHANGED governed
               [] op = "create" /\ kind # "aws" -> Returned(issued + 1)
          /\ UNCHANGED faults
       \/ /\ Found
          /\ Cardinality(keys) >= Ceiling[kind]
          /\ KeyFailed
          /\ UNCHANGED <<keys, issued, created, victim, faults>>
       \/ /\ Again(Attempts, KeyFailed)
          /\ UNCHANGED <<keys, issued, created, victim, faults>>
       \/ /\ Fault
          /\ Issue \/ UNCHANGED <<keys, issued>>
          /\ KeyFailed
          /\ UNCHANGED <<created, victim>>
    /\ Note("create")
    /\ UNCHANGED <<kind, durable, account, op, listed, current, rotations>>

(* TagUser is best effort.                                                 *)
tagUser ==
    /\ pc = "tag"
    /\ Returned(created)
    /\ UNCHANGED <<kind, durable, cloud, op, locals, done, rotations, faults>>

-----------------------------------------------------------------------------
(* DeleteApplication: ends a retirement at Azure, and undoes a creation.   *)
DeleteApplication(ok, failed) ==
    \/ /\ Found
       /\ account' = "none"
       /\ keys' = {}
       /\ ok
       /\ UNCHANGED faults
    \/ Again(4, failed) /\ UNCHANGED <<account, keys, faults>>
    \/ /\ Fault
       /\ \/ Found /\ account' = "none" /\ keys' = {}
          \/ UNCHANGED <<account, keys>>
       /\ failed

(* Create returns the error of AddPassword, whatever becomes of this.      *)
Rollback ==
    /\ pc = "rollback"
    /\ DeleteApplication(Failed, Failed)
    /\ UNCHANGED <<kind, durable, issued, op, locals, done, rotations>>

-----------------------------------------------------------------------------
(* Where an operation on a governed identity begins: GCP finds the account *)
(* first, AWS lists the keys at once, Azure lists nothing.                 *)
Entry(what) ==
    CASE kind = "gcp" -> "email"
      [] kind = "aws" -> "list"
      [] kind = "azure" -> IF what = "rotate" THEN "key" ELSE "application"

Begin(what) ==
    /\ pc = "idle"
    /\ op' = what
    /\ Go(Entry(what))
    /\ current' = record
    /\ done' = <<>>
    /\ UNCHANGED <<kind, durable, cloud, governed, listed, created, victim, faults>>

RotateBegin ==
    /\ \/ status = "attention" /\ UNCHANGED rotations
       \/ /\ status = "healthy"
          /\ rotations < MaxRotations
          /\ rotations' = rotations + 1
    /\ Begin("rotate")

RetireBegin ==
    /\ Retires
    /\ status \in {"healthy", "attention"}
    /\ Begin("retire")
    /\ UNCHANGED rotations

(* The service account is looked up in the list by its unique id.          *)
emailFor ==
    /\ pc = "email"
    /\ \/ Found /\ Go("list") /\ UNCHANGED <<governed, faults>>
       \/ Again(4, Failed) /\ UNCHANGED faults
       \/ Fault /\ Failed
    /\ UNCHANGED <<kind, durable, cloud, op, locals, done, rotations>>

(* Fault: the current key is the record's or none.                         *)
CurrentOfRecord(K) == K \cap {record}

(* The current key is the record's, or else the newest (AWS) or the last   *)
(* listed (GCP).                                                           *)
CurrentOf(K) ==
    IF record \in K THEN {record} ELSE IF kind = "aws" THEN {Newest(K)} ELSE K

(* Fault: the oldest key, current or not.                                  *)
OldestAny(K, key) == Oldest(K)

(* The key that AWS removes to stay below the ceiling.                     *)
oldestNonCurrent(K, key) == Oldest(K \ {key})

(* GCP starts the comparison from the first key listed, which may be the   *)
(* current one.                                                            *)
oldestNonCurrentGCP(K, key, first) == Oldest((K \ {key}) \cup {first})

(* A current key that is not the record's is the last listed, not the      *)
(* first.                                                                  *)
ToRemove(K, key) ==
    IF kind = "aws" THEN {oldestNonCurrent(K, key)}
    ELSE {oldestNonCurrentGCP(K, key, first) : first \in K \ ({key} \ {record})}

(* Rotate has the list of the keys.                                        *)
ListForRotate ==
    /\ op = "rotate"
    /\ \/ keys = {} /\ Failed /\ UNCHANGED <<current, victim>>
       \/ /\ keys # {}
          /\ current' \in CurrentOf(keys)
          /\ \/ /\ Cardinality(keys) < Ceiling[kind]
                /\ Go("key")
                /\ UNCHANGED victim
             \/ /\ Cardinality(keys) >= Ceiling[kind]
                /\ victim' \in ToRemove(keys, current')
                /\ Go("room")
          /\ UNCHANGED governed
    /\ listed' = keys

(* Retire goes on with the keys K.                                         *)
RetireNext(K) ==
    /\ listed' = K
    /\ \/ K = {} /\ Go("finish") /\ UNCHANGED victim
       \/ victim' \in K /\ Go("retire")

ListForRetire ==
    /\ op = "retire"
    /\ RetireNext(keys)
    /\ UNCHANGED <<governed, current>>

ListKeys ==
    /\ pc = "list"
    /\ \/ ListForRotate /\ UNCHANGED faults
       \/ ListForRetire /\ UNCHANGED faults
       \/ Fault /\ Failed /\ UNCHANGED <<listed, current, victim>>
    /\ UNCHANGED <<kind, durable, cloud, op, created, done, rotations>>

-----------------------------------------------------------------------------
(* A call that deletes key k.  AWS tolerates a key that is gone; GCP       *)
(* answers 404 and Graph 400, which is retried in vain.                    *)
DeletesOK(k) == k = 0 \/ kind = "aws" \/ k \in keys

(* Fault: the key to delete is left alone.                                 *)
DeletedNothing == keys

(* Fault: the new key is deleted instead.                                  *)
DeletedCreated == IF pc = "drop" THEN keys \ {created} ELSE keys \ {victim}

Deleted == keys \ {victim}

(* The victim is deleted and the operation goes on with ok.                *)
Delete(ok) ==
    /\ \/ /\ DeletesOK(victim)
          /\ keys' = Deleted
          /\ ok
          /\ UNCHANGED faults
       \/ /\ ~DeletesOK(victim)
          /\ Failed
          /\ UNCHANGED <<keys, listed, victim, faults>>
       \/ /\ Fault
          /\ keys' \in {keys, Deleted}
          /\ Failed
          /\ UNCHANGED <<listed, victim>>
    /\ Note("delete")
    /\ UNCHANGED <<kind, durable, account, issued, op, current, created, rotations>>

(* GCP repeats a deletion whose connection broke, at most twice.           *)
iamJSON ==
    /\ kind = "gcp"
    /\ pc \in {"room", "drop", "retire"}
    /\ tries < 2
    /\ tries' = tries + 1
    /\ Fault
    /\ keys' \in {keys, Deleted}
    /\ Note("delete")
    /\ UNCHANGED <<kind, durable, account, issued, governed, op, pc, locals, rotations>>

(* Below the ceiling a new key can be created.                             *)
RotateMakeRoom ==
    /\ pc = "room"
    /\ Delete(Go("key") /\ UNCHANGED <<governed, listed, victim>>)

(* The rotated-out key goes; the record gets the new one.                  *)
RotateDrop ==
    /\ pc = "drop"
    /\ Delete(Returned(created) /\ UNCHANGED <<listed, victim>>)

RetireKey ==
    /\ pc = "retire"
    /\ Delete(RetireNext(listed \ {victim}) /\ UNCHANGED governed)

(* The view of the retired identity has a blank key id.                    *)
Retired ==
    /\ Go("idle")
    /\ record' = 0
    /\ handed' = 0
    /\ status' = "retired"

(* AWS: the login profile is removed, best effort.                         *)
RetireFinish ==
    /\ pc = "finish"
    /\ Retired
    /\ done' = IF kind = "aws" THEN Append(done, "profile") ELSE done
    /\ UNCHANGED <<kind, durable, cloud, op, locals, rotations, faults>>

RetireApplication ==
    /\ pc = "application"
    /\ DeleteApplication(Retired, Failed)
    /\ Note("application")
    /\ UNCHANGED <<kind, durable, issued, op, locals, rotations>>

-----------------------------------------------------------------------------
(* The newest key is the identity's.  At Azure it is the one that expires  *)
(* last, which is the newest because every credential is created with the  *)
(* same lifetime.                                                          *)
toIdentity(K) == Newest(K)

(* Without a snapshot the governor adopts what it finds at the provider:   *)
(* accounts with a key.                                                    *)
Discover ==
    \/ /\ Found /\ keys # {}
       /\ record' = toIdentity(keys)
       /\ status' = "healthy"
    \/ /\ Missed \/ keys = {}
       /\ record' = 0
       /\ status' = "none"

(* The process dies, and is started again.                                 *)
Crash ==
    /\ pc # "idle" \/ ~durable
    /\ Fault
    /\ Go("idle")
    /\ \/ durable /\ UNCHANGED <<record, status>>
       \/ ~durable /\ Discover
    /\ UNCHANGED <<kind, durable, cloud, handed, op, locals, done, rotations>>

(* All replicas of the provider know the account.                          *)
Propagate ==
    /\ account = "fresh"
    /\ account' = "there"
    /\ UNCHANGED <<kind, durable, keys, issued, governed, op, pc, locals, tries, done,
                   rotations, faults>>

-----------------------------------------------------------------------------
(* An identity in governance since the start, or none yet.                 *)
Init ==
    /\ kind \in Kinds
    /\ durable \in BOOLEAN
    /\ \/ /\ account = "there" /\ keys = {1} /\ issued = 1
          /\ record = 1 /\ handed = 1 /\ status = "healthy"
       \/ /\ account = "none" /\ keys = {} /\ issued = 0
          /\ record = 0 /\ handed = 0 /\ status = "none"
    /\ op = "none"
    /\ pc = "idle"
    /\ listed = {}
    /\ current = 0
    /\ created = 0
    /\ victim = 0
    /\ tries = 0
    /\ done = <<>>
    /\ rotations = 0
    /\ faults = 0

Adapter ==
    \/ CreateAccount \/ CreateKey \/ tagUser \/ Rollback
    \/ RotateBegin \/ emailFor \/ ListKeys \/ RotateMakeRoom \/ RotateDrop
    \/ RetireKey \/ RetireFinish \/ RetireApplication

Next == Adapter \/ CreateBegin \/ RetireBegin \/ iamJSON \/ Crash \/ Propagate

Spec == Init /\ [][Next]_vars

(* An operation goes on, an identity left in attention is rotated again by *)
(* its owner or by the sweeper, and an account is known everywhere in the  *)
(* end, as the adapters' retries suppose.  Faults are finitely many.       *)
FairSpec == Spec /\ WF_vars(Adapter) /\ WF_vars(Propagate)

-----------------------------------------------------------------------------
(* Plans: what a dry run announces.  A step may be left out, and one that  *)
(* is announced for every key repeated.                                    *)

Once(call) == [call |-> call, every |-> FALSE]
Every(call) == [call |-> call, every |-> TRUE]

(* Fault: the key removed below the ceiling is not announced.              *)
awsPlanRotateBare == <<Once("create"), Once("verify"), Once("delete")>>

awsPlanRotate == <<Once("delete"), Once("create"), Once("verify"), Once("delete")>>

awsPlanRetire == <<Every("delete"), Once("profile")>>

gcpPlanRotate == <<Once("delete"), Once("create"), Once("verify"), Once("delete")>>

gcpPlanRetire == <<Every("delete")>>

azurePlanRotate == <<Once("create"), Once("delete")>>

azurePlanRetire == <<Once("application")>>

PlanRotate ==
    CASE kind = "aws" -> awsPlanRotate [] kind = "gcp" -> gcpPlanRotate
      [] kind = "azure" -> azurePlanRotate

PlanRetire ==
    CASE kind = "aws" -> awsPlanRetire [] kind = "gcp" -> gcpPlanRetire
      [] kind = "azure" -> azurePlanRetire

(* The calls are steps of the plan, in its order.                          *)
Follows(calls, plan) ==
    \E step \in [1..Len(calls) -> 1..Len(plan)] :
      /\ \A i \in 1..Len(calls) : calls[i] = plan[step[i]].call
      /\ \A i, j \in 1..Len(calls) :
           i < j => step[i] < step[j] \/ (step[i] = step[j] /\ plan[step[i]].every)

-----------------------------------------------------------------------------
(* Properties.                                                             *)

(* Every variable keeps its shape, and the provider its ceiling.           *)
TypeOK ==
    /\ kind \in Kinds
    /\ durable \in BOOLEAN
    /\ account \in {"none", "fresh", "there"}
    /\ keys \subseteq 1..issued
    /\ Cardinality(keys) <= Ceiling[kind]
    /\ issued \in Nat
    /\ record \in 0..issued
    /\ status \in {"none", "healthy", "attention", "retired"}
    /\ handed \in 0..issued
    /\ op \in {"none", "create", "rotate", "retire"}
    /\ pc \in {"idle", "account", "key", "tag", "rollback", "email", "list", "room", "drop",
               "retire", "finish", "application"}
    /\ listed \subseteq 1..issued
    /\ {current, created, victim} \subseteq 0..issued
    /\ tries \in 0..7
    /\ done \in Seq({"create", "delete", "profile", "application"})
    /\ rotations \in 0..MaxRotations
    /\ faults \in 0..MaxFaults

(* The key whose secret was handed over last works until its replacement   *)
(* exists or the identity is retired: making room below the ceiling never  *)
(* removes it (oldestNonCurrent).  Two cases are excluded because the code *)
(* does remove it there: at GCP oldestNonCurrentGCP may choose it, and     *)
(* without a snapshot a restart after a failed rotation adopts the newest  *)
(* key, whose secret was lost, so that the next one takes the key in use   *)
(* for the one to remove.                                                  *)
InUseUntilReplaced ==
    [][(handed \in keys /\ handed \notin keys') =>
         \/ op = "retire"
         \/ pc = "drop" /\ created \in keys
         \/ pc = "room" /\ kind = "gcp"
         \/ ~durable]_vars

(* An AWS rotation that completes leaves the identity with the one key on  *)
(* record, whatever earlier failures and crashes left behind.              *)
OneKeyAfterRotation ==
    [][kind = "aws" /\ pc = "drop" /\ status' = "healthy" /\ handed' # handed =>
         keys' = {record'}]_vars

(* A creation or rotation that completes, and a discovery, put a working   *)
(* key on record.                                                          *)
RecordedKeyWorks ==
    [][status' = "healthy" /\ record' # record => record' \in keys']_vars

(* A retirement that completes leaves no working key.                      *)
RetiredKeyless == status = "retired" => keys = {}

(* The calls by which Rotate and Retire change something at the provider   *)
(* are those that the plan of a dry run announces, in its order, wherever  *)
(* they stop.                                                              *)
AsPlanned ==
    /\ op = "rotate" => Follows(done, PlanRotate)
    /\ op = "retire" => Follows(done, PlanRetire)

(* A failed rotation can be retried: the identity becomes healthy again,   *)
(* unless a retirement removed its last key first.  Azure is excluded: its *)
(* RemovePassword fails on a key that is gone, so once the answer to a     *)
(* removal was lost every retry fails.                                     *)
RetrySucceeds ==
    kind # "azure" /\ status = "attention" ~> status # "attention" \/ keys = {}
=============================================================================
