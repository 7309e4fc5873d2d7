------------------------------- MODULE Vaults -------------------------------
(***************************************************************************)
(* The vaults behind one identity: the provider-native one                 *)
(* (internal/provider: awssecrets.go, gcpsecret.go, azurevault.go) and the *)
(* cluster vault (hashicorpvault.go).  A delivery, a revocation or a use   *)
(* is a sequence of HTTP requests made without the Store's mutex, so those *)
(* of concurrent calls interleave; an answer may be lost, and the request  *)
(* behind it may arrive never or much later.  Module Store takes each of   *)
(* these sequences as one step.                                            *)
(*                                                                         *)
(* Keys are numbered in the order of their creation and the secret of key  *)
(* k is k itself.  Names are valid and in scope, and reads are not pinned  *)
(* to a version.                                                           *)
(***************************************************************************)
EXTENDS Naturals, Sequences, FiniteSets

CONSTANTS
    Kinds,      \* provider kinds
    Callers,    \* calls of the Store at the same time
    MaxKeys,    \* bound: keys issued
    MaxFaults   \* bound: answers lost and changes of permission

ASSUME VaultsAssumption ==
    /\ Kinds \subseteq {"aws", "gcp", "azure"}
    /\ IsFiniteSet(Callers)
    /\ MaxKeys \in Nat /\ MaxFaults \in Nat

VARIABLES
    kind,       \* the identity's provider
    access,     \* the native vault: not configured, denied or open to the governor
    state,      \* the governance state of the record
    key,        \* the key id of the record, 0 if blank
    issued,     \* keys issued so far, capped by MaxKeys
    secrets,    \* secrets[w][n]: the secret of name n in vault w
    call,       \* call[c]: where caller c is, and its local variables
    late,       \* requests whose caller has given up, still on their way
    faults,     \* answers lost and permissions changed, capped by MaxFaults
    replaced,   \* replaced[w]: the keys known to be older than a confirmed one
    gone        \* gone[w]: a revocation that nothing disturbed was confirmed

record == <<state, key, issued>>
vars == <<kind, access, record, secrets, call, late, faults, replaced, gone>>

Vault == {"native", "cluster"}
Keys == 1..MaxKeys
Names == 0..MaxKeys

-----------------------------------------------------------------------------
(* Names.  The Secrets Manager of AWS files every key under a name of its  *)
(* own, and a blank key id under "current", here 0; the others have one    *)
(* name per identity.                                                      *)

PerKey(w) == w = "native" /\ kind = "aws"

(* Fault: one name per identity everywhere.                                *)
secretNameShared(w, k) == 0

secretName(w, k) == IF PerKey(w) THEN k ELSE 0

-----------------------------------------------------------------------------
(* The vault services.  A secret is absent, kept, or (AWS) scheduled for   *)
(* deletion; its versions are in the order of their creation, and a        *)
(* version can be disabled.                                                *)

Version == [key : Keys, on : BOOLEAN]

Secret == [status : {"absent", "kept", "leaving"}, versions : Seq(Version)]

NoSecret == [status |-> "absent", versions |-> <<>>]

Request == [what : {"put", "create", "get", "disable", "delete"}, vault : Vault,
            name : Names, key : 0..MaxKeys, version : Nat]

Target(r) == secrets[r.vault][r.name]

Newest(s) == s.versions[Len(s.versions)]

(* Only AWS and GCP want a secret to be created before it gets a version.  *)
CreatesFirst(r) == r.vault = "native" /\ kind \in {"aws", "gcp"}

(* What the service answers to a request that it receives.                 *)
Reply(r) ==
    LET s == Target(r)
    IN  CASE r.vault = "native" /\ access = "denied" -> "denied"
          [] s.status = "leaving" -> "refused"
          [] r.what = "create" /\ s.status = "kept" -> "refused"
          [] r.what = "put" /\ s.status = "absent" /\ CreatesFirst(r) -> "absent"
          [] r.what \in {"get", "disable", "delete"} /\ s.versions = <<>> -> "absent"
          [] r.what = "get" /\ ~Newest(s).on -> "refused"
          [] OTHER -> "ok"

Added(s, k) ==
    [status |-> "kept", versions |-> Append(s.versions, [key |-> k, on |-> TRUE])]

(* A creation at AWS carries the secret, one at GCP makes an empty shell.  *)
(* GCP disables the latest version, Azure the one that is named.           *)
Changed(r) ==
    LET s == Target(r)
    IN  CASE r.what = "put" -> Added(s, r.key)
          [] r.what = "create" /\ kind = "aws" -> Added(s, r.key)
          [] r.what = "create" /\ kind = "gcp" -> [s EXCEPT !.status = "kept"]
          [] r.what = "disable" /\ kind = "gcp" -> [s EXCEPT !.versions[Len(s.versions)].on = FALSE]
          [] r.what = "disable" /\ kind = "azure" -> [s EXCEPT !.versions[r.version].on = FALSE]
          [] r.what = "delete" /\ r.vault = "native" -> [s EXCEPT !.status = "leaving"]
          [] r.what = "delete" /\ r.vault = "cluster" -> NoSecret
          [] OTHER -> s

Perform(r) ==
    secrets' = IF Reply(r) = "ok"
               THEN [secrets EXCEPT ![r.vault][r.name] = Changed(r)] ELSE secrets

(* The key that a read of name n in vault w returns, 0 if none.            *)
Readable(w, n) ==
    LET s == secrets[w][n]
    IN  IF s.status = "kept" /\ s.versions # <<>> /\ Newest(s).on THEN Newest(s).key ELSE 0

-----------------------------------------------------------------------------
(* How the clients read an answer: AWS and GCP tell a denial and a missing *)
(* secret from other errors, the client of the cluster vault a missing     *)
(* secret only, that of Azure neither.                                     *)

awsError(answer) == IF answer = "refused" THEN "error" ELSE answer

gcpError(answer) == IF answer = "refused" THEN "error" ELSE answer

azureError(answer) == IF answer = "ok" THEN "ok" ELSE "error"

clusterError(answer) == IF answer \in {"ok", "absent"} THEN answer ELSE "error"

Told(w, answer) ==
    CASE w = "cluster" -> clusterError(answer)
      [] w = "native" /\ kind = "aws" -> awsError(answer)
      [] w = "native" /\ kind = "gcp" -> gcpError(answer)
      [] w = "native" /\ kind = "azure" -> azureError(answer)

-----------------------------------------------------------------------------
(* The operations of the vaults: from where a call is and what it is told, *)
(* where it goes on, or how it ends: "done", "skip" (ErrVaultUnsupported)  *)
(* or "failed".                                                            *)

Ends(told) == CASE told = "ok" -> "done" [] told = "denied" -> "skip" [] OTHER -> "failed"

(* Fault: an absent secret is not created.                                 *)
awsStoreNever(pc, told) == Ends(told)

(* Write; on a missing secret create it, then write again.                 *)
awsStore(pc, told) ==
    CASE pc = "put" /\ told = "absent" -> "create"
      [] pc = "create" /\ told = "ok" -> "again"
      [] OTHER -> Ends(told)

gcpStore(pc, told) ==
    CASE pc = "put" /\ told = "absent" -> "create"
      [] pc = "create" /\ told = "ok" -> "again"
      [] OTHER -> Ends(told)

(* Fault: the answer is not looked at.                                     *)
azureStoreBlind(pc, told) == "done"

azureStore(pc, told) == Ends(told)

clusterStore(pc, told) == Ends(told)

awsRead(told) == Ends(told)

gcpRead(told) == Ends(told)

azureRead(told) == Ends(told)

clusterRead(told) == Ends(told)

(* A missing secret counts as revoked, but not with Azure, which asks for  *)
(* the current version first.                                              *)
awsRevoke(pc, told) == IF told = "absent" THEN "done" ELSE Ends(told)

gcpRevoke(pc, told) == IF told = "absent" THEN "done" ELSE Ends(told)

(* Fault: an error of the first request counts as revoked too.             *)
azureRevokeMissing(pc, told) ==
    IF pc = "find" THEN (IF told = "ok" THEN "revoke" ELSE "done") ELSE Ends(told)

azureRevoke(pc, told) == IF pc = "find" /\ told = "ok" THEN "revoke" ELSE Ends(told)

clusterRevoke(pc, told) == IF told = "absent" THEN "done" ELSE Ends(told)

-----------------------------------------------------------------------------
(* Calls of the Store.  calm: no other delivery or revocation, no lost     *)
(* answer and no change of permission since the call began.  before: the   *)
(* keys whose delivery was over when this one turned to the vault it is    *)
(* at.  stale: the keys that a use, from when it began, must not return.   *)

Call == [pc : {"idle", "put", "create", "again", "mirror", "find", "revoke",
               "unmirror", "read", "readMirror", "answer"},
         op : {"none", "rotate", "retire", "delete", "use"},
         key : 0..MaxKeys, version : Nat, calm : BOOLEAN, before : SUBSET Keys,
         stale : [Vault -> SUBSET Keys], source : Vault]

NoCall == [pc |-> "idle", op |-> "none", key |-> 0, version |-> 0, calm |-> FALSE,
           before |-> {}, stale |-> [w \in Vault |-> {}], source |-> "native"]

Delivering(c, w) ==
    call[c].pc \in {"put", "create", "again"} \cup (IF w = "cluster" THEN {"mirror"} ELSE {})

Changing(c) == call[c].op \in {"rotate", "retire", "delete"}

(* Keys whose delivery to w is over and left no request behind.            *)
Delivered(w) ==
    {k \in 1..issued : /\ \A c \in Callers : ~(Delivering(c, w) /\ call[c].key = k)
                       /\ \A r \in late : ~(r.vault = w /\ r.key = k)}

(* What a use of key k must not find in w.                                 *)
Stale(w, k) == IF PerKey(w) THEN Keys \ {k} ELSE replaced[w]

(* A delivery or revocation begins and disturbs those that are under way.  *)
Change(c, new) ==
    /\ call[c].pc = "idle"
    /\ call' = [d \in Callers |->
          IF d = c
          THEN [new EXCEPT !.calm = late = {} /\ \A e \in Callers : ~Changing(e)]
          ELSE [call[d] EXCEPT !.calm = FALSE]]

(* Rotate, or Provision for the first key, has its new key and goes on to  *)
(* the deliveries.                                                         *)
Rotate(c) ==
    /\ state = "active"
    /\ issued < MaxKeys
    /\ issued' = issued + 1
    /\ key' = issued + 1
    /\ Change(c, [NoCall EXCEPT !.pc = "put", !.op = "rotate", !.key = issued + 1,
                                !.before = Delivered("native")])
    /\ UNCHANGED <<kind, access, state, secrets, late, faults, replaced, gone>>

FirstRevocation == IF kind = "azure" THEN "find" ELSE "revoke"

(* Retire has changed the record: the view of the retired identity that    *)
(* the adapters return has a blank key id.                                 *)
Retire(c) ==
    /\ state = "active"
    /\ key # 0
    /\ state' = "retired"
    /\ key' = 0
    /\ Change(c, [NoCall EXCEPT !.pc = FirstRevocation, !.op = "retire"])
    /\ UNCHANGED <<kind, access, issued, secrets, late, faults, replaced, gone>>

(* Delete revokes again before it purges the record.                       *)
Delete(c) ==
    /\ state = "retired"
    /\ Change(c, [NoCall EXCEPT !.pc = FirstRevocation, !.op = "delete"])
    /\ UNCHANGED <<kind, access, record, secrets, late, faults, replaced, gone>>

Use(c) ==
    /\ state = "active"
    /\ key # 0
    /\ call[c].pc = "idle"
    /\ call' = [call EXCEPT ![c] = [NoCall EXCEPT !.pc = "read", !.op = "use", !.key = key,
                                        !.stale = [w \in Vault |-> Stale(w, key)]]]
    /\ UNCHANGED <<kind, access, record, secrets, late, faults, replaced, gone>>

-----------------------------------------------------------------------------
(* The request of caller c.                                                *)
Sent(c) ==
    LET local == call[c]
        to(what, w) == [what |-> what, vault |-> w, name |-> secretName(w, local.key),
                        key |-> local.key, version |-> local.version]
    IN  CASE local.pc \in {"put", "again"} -> to("put", "native")
          [] local.pc = "create" -> to("create", "native")
          [] local.pc = "mirror" -> to("put", "cluster")
          [] local.pc \in {"find", "read"} -> to("get", "native")
          [] local.pc = "revoke" -> to(IF kind = "aws" THEN "delete" ELSE "disable", "native")
          [] local.pc = "unmirror" -> to("delete", "cluster")
          [] local.pc = "readMirror" -> to("get", "cluster")

(* Where a call that is told so goes on: routed by the provider binding of *)
(* the identity.                                                           *)
StoreSecret(pc, told) ==
    CASE kind = "aws" -> awsStore(pc, told)
      [] kind = "gcp" -> gcpStore(pc, told)
      [] kind = "azure" -> azureStore(pc, told)

ReadSecret(told) ==
    CASE kind = "aws" -> awsRead(told)
      [] kind = "gcp" -> gcpRead(told)
      [] kind = "azure" -> azureRead(told)

RevokeSecret(pc, told) ==
    CASE kind = "aws" -> awsRevoke(pc, told)
      [] kind = "gcp" -> gcpRevoke(pc, told)
      [] kind = "azure" -> azureRevoke(pc, told)

Confirm(c, w, result) ==
    replaced' = IF result = "done"
                THEN [replaced EXCEPT ![w] = @ \cup call[c].before] ELSE replaced

(* Whatever became of the native delivery, the cluster vault is next.      *)
deliverToVault(c, told) ==
    LET result == StoreSecret(call[c].pc, told)
    IN  /\ call[c].pc \in {"put", "create", "again"}
        /\ call' = [call EXCEPT ![c] =
              IF result \in {"create", "again"} THEN [@ EXCEPT !.pc = result]
              ELSE [@ EXCEPT !.pc = "mirror", !.before = Delivered("cluster"),
                             !.calm = call[c].calm /\ told # "lost"]]
        /\ Confirm(c, "native", result)
        /\ UNCHANGED <<state, gone>>

mirrorToCommonVault(c, told) ==
    /\ call[c].pc = "mirror"
    /\ call' = [call EXCEPT ![c] = NoCall]
    /\ Confirm(c, "cluster", clusterStore("mirror", told))
    /\ UNCHANGED <<state, gone>>

Revoked(c, w, result) ==
    gone' = IF result = "done" /\ call[c].calm THEN [gone EXCEPT ![w] = TRUE] ELSE gone

revokeFromVault(c, told) ==
    LET result == RevokeSecret(call[c].pc, told)
    IN  /\ call[c].pc \in {"find", "revoke"}
        /\ call' = [call EXCEPT ![c] =
              IF result = "revoke"
              THEN [@ EXCEPT !.pc = "revoke",
                             !.version = Len(secrets["native"][secretName("native", 0)].versions)]
              ELSE [@ EXCEPT !.pc = "unmirror"]]
        /\ Revoked(c, "native", result)
        /\ UNCHANGED <<state, replaced>>

revokeFromCommonVault(c, told) ==
    /\ call[c].pc = "unmirror"
    /\ call' = [call EXCEPT ![c] = NoCall]
    /\ state' = IF call[c].op = "delete" THEN "deleted" ELSE state
    /\ Revoked(c, "cluster", clusterRevoke("unmirror", told))
    /\ UNCHANGED replaced

(* Only a native vault that is not supported is replaced by the cluster's. *)
fallsBack(result) == result = "skip"

useSecret(c, told) ==
    LET native == call[c].pc = "read"
        w == IF native THEN "native" ELSE "cluster"
        result == IF native THEN ReadSecret(told) ELSE clusterRead(told)
        found == Readable(w, secretName(w, call[c].key))
    IN  /\ call[c].pc \in {"read", "readMirror"}
        /\ call' = [call EXCEPT ![c] =
              IF result = "done"
              THEN [@ EXCEPT !.pc = "answer", !.key = found, !.source = w]
              ELSE IF native /\ fallsBack(result) THEN [@ EXCEPT !.pc = "readMirror"]
              ELSE NoCall]
        /\ UNCHANGED <<state, replaced, gone>>

Continue(c, told) ==
    \/ deliverToVault(c, told)
    \/ mirrorToCommonVault(c, told)
    \/ revokeFromVault(c, told)
    \/ revokeFromCommonVault(c, told)
    \/ useSecret(c, told)

(* A native vault that is not configured is not asked.                     *)
Unsupported(c) ==
    /\ access = "off"
    /\ call[c].pc \in {"put", "find", "revoke", "read"}
    /\ Continue(c, "denied")
    /\ UNCHANGED <<kind, access, key, issued, secrets, late, faults>>

Asking(c) ==
    /\ call[c].pc \notin {"idle", "answer"}
    /\ access = "off" => call[c].pc \in {"mirror", "unmirror", "readMirror"}

(* The request is received and its answer comes back.                      *)
Ask(c) ==
    /\ Asking(c)
    /\ Perform(Sent(c))
    /\ Continue(c, Told(Sent(c).vault, Reply(Sent(c))))
    /\ UNCHANGED <<kind, access, key, issued, late, faults>>

(* No answer: the request was dropped, or is still on its way.             *)
Lost(c) ==
    /\ Asking(c)
    /\ faults < MaxFaults
    /\ faults' = faults + 1
    /\ Continue(c, "lost")
    /\ late' \in {late, late \cup {Sent(c)}}
    /\ UNCHANGED <<kind, access, key, issued, secrets>>

(* A request without a caller is received after all.                       *)
Arrive ==
    \E r \in late :
      /\ Perform(r)
      /\ late' = late \ {r}
      /\ UNCHANGED <<kind, access, record, call, faults, replaced, gone>>

(* The caller of Use has its secret.                                       *)
Return(c) ==
    /\ call[c].pc = "answer"
    /\ call' = [call EXCEPT ![c] = NoCall]
    /\ UNCHANGED <<kind, access, record, secrets, late, faults, replaced, gone>>

(* The governor is granted the vault, or the grant is taken back.          *)
Permit ==
    /\ access # "off"
    /\ faults < MaxFaults
    /\ faults' = faults + 1
    /\ access' = IF access = "open" THEN "denied" ELSE "open"
    /\ call' = [c \in Callers |-> [call[c] EXCEPT !.calm = FALSE]]
    /\ UNCHANGED <<kind, record, secrets, late, replaced, gone>>

-----------------------------------------------------------------------------
Init ==
    /\ kind \in Kinds
    /\ access \in {"off", "denied", "open"}
    /\ state = "active"
    /\ key = 0
    /\ issued = 0
    /\ secrets = [w \in Vault |-> [n \in Names |-> NoSecret]]
    /\ call = [c \in Callers |-> NoCall]
    /\ late = {}
    /\ faults = 0
    /\ replaced = [w \in Vault |-> {}]
    /\ gone = [w \in Vault |-> FALSE]

Next ==
    \/ \E c \in Callers : Rotate(c) \/ Retire(c) \/ Delete(c) \/ Use(c)
    \/ \E c \in Callers : Unsupported(c) \/ Ask(c) \/ Lost(c) \/ Return(c)
    \/ Arrive
    \/ Permit

Spec == Init /\ [][Next]_vars

-----------------------------------------------------------------------------
(* Properties.                                                             *)

(* Every variable keeps its shape, and a name of its own per key is filed  *)
(* under by that key only.                                                 *)
TypeOK ==
    /\ kind \in Kinds
    /\ access \in {"off", "denied", "open"}
    /\ state \in {"active", "retired", "deleted"}
    /\ key \in 0..issued
    /\ issued \in 0..MaxKeys
    /\ secrets \in [Vault -> [Names -> Secret]]
    /\ \A w \in Vault, n \in Names :
         PerKey(w) => \A i \in 1..Len(secrets[w][n].versions) : secrets[w][n].versions[i].key = n
    /\ call \in [Callers -> Call]
    /\ late \subseteq Request
    /\ faults \in 0..MaxFaults
    /\ replaced \in [Vault -> SUBSET Keys]
    /\ gone \in [Vault -> BOOLEAN]

(* A secret older than one that the vault had confirmed when Use began is  *)
(* returned only where their deliveries overlapped: not if that of the     *)
(* older was over, and had left no request on its way, when that of the    *)
(* younger began (StoreSecret files a new version, ReadSecret takes the    *)
(* current one; at AWS the one of the key).  Of two deliveries that        *)
(* overlap either may land last, also the older after the younger was      *)
(* confirmed: the Store delivers without its mutex, and Use then hands out *)
(* the older secret under the younger key's id.                            *)
StaleOnlyByOverlap ==
    \A c \in Callers :
      call[c].pc = "answer" => call[c].key \notin call[c].stale[call[c].source] \cup {0}

(* After a confirmed revocation that no delivery overlapped, no read of the *)
(* vault finds a secret of the identity under any name.  At AWS it does:   *)
(* the retired view has no key id, so RevokeSecret deletes the name        *)
(* "current", which nothing was ever filed under.                          *)
RevokedIsUnreadable ==
    \A w \in Vault :
      gone[w] /\ ~PerKey(w) => \A n \in Names : Readable(w, n) = 0

(* A delivery that nothing disturbed is readable when it turns to the next *)
(* vault, also the first one, which has to create the secret.              *)
LoneDeliveryLands ==
    \A c \in Callers :
      call[c].pc = "mirror" /\ call[c].calm /\ access = "open" =>
        Readable("native", secretName("native", call[c].key)) = call[c].key

=============================================================================
