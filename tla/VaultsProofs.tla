---------------------------- MODULE VaultsProofs ----------------------------
(* Theorems about Vaults, for any number of concurrent calls, keys, lost   *)
(* answers and changes of permission.                                      *)
EXTENDS Vaults, SequenceTheorems, TLAPS

(* The shape of the variables, without what TypeOK says of names.          *)
BaseOK ==
    /\ kind \in Kinds
    /\ access \in {"off", "denied", "open"}
    /\ state \in {"active", "retired", "deleted"}
    /\ key \in 0..issued
    /\ issued \in 0..MaxKeys
    /\ faults \in 0..MaxFaults
    /\ replaced \in [Vault -> SUBSET Keys]
    /\ gone \in [Vault -> BOOLEAN]

SecretsOK == secrets \in [Vault -> [Names -> Secret]]

(* What is filed where: AWS has a name per key, and deletes the name       *)
(* "current" only; elsewhere one name is used.                             *)
Filed ==
    \A w \in Vault, n \in Names :
      /\ PerKey(w) => \A i \in 1..Len(secrets[w][n].versions) : secrets[w][n].versions[i].key = n
      /\ ~PerKey(w) /\ n # 0 => secrets[w][n] = NoSecret
      /\ secrets[w][n].status = "absent" => secrets[w][n].versions = <<>>
      /\ secrets[w][n].status = "leaving" => PerKey(w) /\ n = 0

Putting(r) == r.what \in {"put", "create"}

(* A request as the clients make them.                                     *)
Requested(r) ==
    /\ r.name = secretName(r.vault, r.key)
    /\ Putting(r) => r.key \in 1..issued
    /\ r.what = "create" => r.vault = "native" /\ kind \in {"aws", "gcp"}
    /\ r.what = "delete" => r.key = 0 /\ (r.vault = "native" => kind = "aws")
    /\ r.what = "disable" => r.vault = "native" /\ kind # "aws"

LateOK == late \subseteq Request /\ \A r \in late : Requested(r)

(* What a call works on, by where it is.                                   *)
Called(c) ==
    /\ call[c].pc = "idle" => call[c].op = "none" /\ ~call[c].calm
    /\ call[c].pc \in {"put", "create", "again", "mirror"} =>
         call[c].op = "rotate" /\ call[c].key \in 1..issued
    /\ call[c].pc \in {"find", "revoke", "unmirror"} =>
         call[c].op \in {"retire", "delete"} /\ call[c].key = 0 /\ state # "active"
    /\ call[c].pc \in {"read", "readMirror", "answer"} => call[c].op = "use" /\ ~call[c].calm
    /\ call[c].pc \in {"read", "readMirror"} => call[c].key \in 1..issued
    /\ call[c].pc \in {"create", "again"} => kind \in {"aws", "gcp"}
    /\ call[c].pc = "find" => kind = "azure"

CallsOK == call \in [Callers -> Call] /\ \A c \in Callers : Called(c)

Shape == BaseOK /\ SecretsOK /\ Filed /\ LateOK /\ CallsOK

LEMMA ShapeType == Shape => TypeOK
BY DEF Shape, BaseOK, SecretsOK, Filed, LateOK, CallsOK, TypeOK

LEMMA KindKnown == ASSUME BaseOK PROVE kind \in {"aws", "gcp", "azure"}
BY VaultsAssumption DEF BaseOK

-----------------------------------------------------------------------------
(* What a request does to the secret that it is for.                       *)

(* No version is added or enabled.                                         *)
Same(s, t) ==
    /\ Len(t.versions) = Len(s.versions)
    /\ \A i \in 1..Len(s.versions) :
         t.versions[i].key = s.versions[i].key /\ (t.versions[i].on => s.versions[i].on)

ReadIn(s) == IF s.status = "kept" /\ s.versions # <<>> /\ Newest(s).on THEN Newest(s).key ELSE 0

(* The newest version and the emptiness of a secret.                       *)
LEMMA SecretFacts ==
    ASSUME NEW s \in Secret
    PROVE  /\ s.versions \in Seq(Version) /\ Len(s.versions) \in Nat
           /\ \A i \in 1..Len(s.versions) : s.versions[i] \in Version
           /\ s.versions # <<>> <=> Len(s.versions) \in 1..Len(s.versions)
<1>1. s.versions \in Seq(Version)
  BY DEF Secret
<1>2. Len(s.versions) \in Nat /\ (s.versions = <<>> <=> Len(s.versions) = 0)
  BY <1>1, EmptySeq, LenProperties
<1>3. \A i \in 1..Len(s.versions) : s.versions[i] \in Version
  BY <1>1, ElementOfSeq
<1> QED
  BY <1>1, <1>2, <1>3

LEMMA AddedFacts ==
    ASSUME NEW s \in Secret, NEW k \in Keys
    PROVE  /\ Added(s, k) \in Secret /\ Added(s, k).status = "kept"
           /\ Added(s, k).versions # <<>>
           /\ Newest(Added(s, k)).key = k /\ Newest(Added(s, k)).on
           /\ \A i \in 1..Len(Added(s, k).versions) :
                Added(s, k).versions[i].key = k
                \/ (i \in 1..Len(s.versions) /\ Added(s, k).versions[i] = s.versions[i])
<1> DEFINE v == [key |-> k, on |-> TRUE]
           t == Append(s.versions, v)
<1>1. s.versions \in Seq(Version) /\ Len(s.versions) \in Nat
  BY SecretFacts
<1>2. v \in Version
  BY DEF Version
<1>3. /\ t \in Seq(Version) /\ t # <<>> /\ Len(t) = Len(s.versions) + 1 /\ t[Len(t)] = v
      /\ \A i \in 1..Len(s.versions) : t[i] = s.versions[i]
  <2> HIDE DEF v
  <2> QED BY <1>1, <1>2, AppendProperties
<1>4. v.key = k /\ v.on
  OBVIOUS
<1>5. Added(s, k) = [status |-> "kept", versions |-> t]
  BY DEF Added
<1> HIDE DEF v, t
<1>6. \A i \in 1..Len(t) : i \in 1..Len(s.versions) \/ i = Len(t)
  BY <1>1, <1>3
<1>7. Added(s, k).versions = t /\ Added(s, k).status = "kept" /\ Added(s, k) \in Secret
  BY <1>3, <1>5 DEF Secret
<1> QED
  BY <1>3, <1>4, <1>6, <1>7 DEF Newest

(* A version is disabled.                                                  *)
LEMMA DisabledFacts ==
    ASSUME NEW s \in Secret, NEW i \in Nat
    PROVE  LET t == [s EXCEPT !.versions[i].on = FALSE]
           IN  /\ t \in Secret /\ t.status = s.status /\ Same(s, t)
               /\ i \in 1..Len(s.versions) => ~t.versions[i].on
<1> DEFINE u == [s.versions EXCEPT ![i].on = FALSE]
           t == [s EXCEPT !.versions = u]
<1>1. s.versions \in Seq(Version) /\ DOMAIN s.versions = 1..Len(s.versions)
  BY SecretFacts, LenProperties
<1>2. CASE i \notin 1..Len(s.versions)
  <2>1. u = s.versions
    BY <1>1, <1>2
  <2> QED
    BY <1>1, <1>2, <2>1 DEF Secret, Same
<1>3. CASE i \in 1..Len(s.versions)
  <2> DEFINE v == [s.versions[i] EXCEPT !.on = FALSE]
  <2>1. v \in Version /\ v.key = s.versions[i].key /\ ~v.on
    BY <1>3, SecretFacts DEF Version
  <2>2. u = [s.versions EXCEPT ![i] = v]
    BY <1>1
  <2>3. /\ u \in Seq(Version) /\ Len(u) = Len(s.versions)
        /\ \A j \in 1..Len(s.versions) : u[j] = IF j = i THEN v ELSE s.versions[j]
    <3> HIDE DEF u, v
    <3> QED BY <1>1, <1>3, <2>1, <2>2, ExceptSeq
  <2>4. t \in Secret /\ t.status = s.status /\ t.versions = u
    <3> HIDE DEF u
    <3> QED BY <2>3 DEF Secret
  <2>5. Same(s, t) /\ ~t.versions[i].on
    <3> HIDE DEF u, v, t
    <3> QED BY <1>3, <2>1, <2>3, <2>4 DEF Same
  <2> QED
    BY <2>4, <2>5
<1> QED
  BY <1>2, <1>3

(* A request that is carried out, and the other answers.                   *)
LEMMA ReplyOK ==
    ASSUME NEW r, Reply(r) = "ok"
    PROVE  /\ ~(r.vault = "native" /\ access = "denied")
           /\ Target(r).status # "leaving"
           /\ ~(r.what = "create" /\ Target(r).status = "kept")
           /\ r.what \in {"get", "disable", "delete"} => Target(r).versions # <<>>
           /\ r.what = "get" => Newest(Target(r)).on
BY DEF Reply

LEMMA ReplyRange ==
    ASSUME NEW r
    PROVE  /\ Reply(r) \in {"ok", "absent", "denied", "refused"}
           /\ Reply(r) = "absent" =>
                \/ r.what = "put" /\ Target(r).status = "absent" /\ CreatesFirst(r)
                \/ r.what \in {"get", "disable", "delete"} /\ Target(r).versions = <<>>
BY DEF Reply

(* What a request that is carried out makes of its secret.                 *)
Effect(r, s, t) ==
    \/ /\ Putting(r) /\ (r.what = "put" \/ kind = "aws")
       /\ t = Added(s, r.key)
    \/ /\ r.what = "create" /\ kind = "gcp"
       /\ t.status = "kept" /\ t.versions = s.versions
    \/ /\ r.what = "disable" /\ t.status = s.status /\ Same(s, t)
       /\ kind = "gcp" \/ r.version = Len(s.versions) => ~Newest(t).on
    \/ r.what = "delete" /\ r.vault = "native" /\ t.status = "leaving" /\ t.versions = s.versions
    \/ r.what = "delete" /\ r.vault = "cluster" /\ t = NoSecret
    \/ r.what = "get" /\ t = s

LEMMA ChangedEffect ==
    ASSUME BaseOK, SecretsOK, NEW r \in Request, Requested(r), Reply(r) = "ok"
    PROVE  Changed(r) \in Secret /\ Effect(r, Target(r), Changed(r))
<1> DEFINE s == Target(r)
<1>1. s \in Secret
  BY DEF SecretsOK, Target, Request
<1>2. kind \in {"aws", "gcp", "azure"}
  BY KindKnown
<1>3. Putting(r) => r.key \in Keys
  BY VaultsAssumption DEF Requested, BaseOK, Keys
<1>4. CASE r.what = "put"
  BY <1>1, <1>3, <1>4, AddedFacts DEF Changed, Effect, Putting
<1>5. CASE r.what = "create"
  <2>1. kind \in {"aws", "gcp"}
    BY <1>5 DEF Requested
  <2>2. CASE kind = "aws"
    BY <1>1, <1>3, <1>5, <2>2, AddedFacts DEF Changed, Effect, Putting
  <2>3. CASE kind = "gcp"
    <3>1. Changed(r) = [s EXCEPT !.status = "kept"]
      BY <1>5, <2>3 DEF Changed
    <3> QED
      BY <1>1, <1>5, <2>3, <3>1 DEF Effect, Secret
  <2> QED
    BY <2>1, <2>2, <2>3
<1>6. CASE r.what = "disable"
  <2>1. kind \in {"gcp", "azure"}
    BY <1>2, <1>6 DEF Requested
  <2> DEFINE i == IF kind = "gcp" THEN Len(s.versions) ELSE r.version
             t == [s EXCEPT !.versions[i].on = FALSE]
  <2>2. Changed(r) = t
    <3>1. CASE kind = "gcp"
      BY <1>6, <3>1 DEF Changed
    <3>2. CASE kind = "azure"
      BY <1>6, <3>2 DEF Changed
    <3> QED
      BY <2>1, <3>1, <3>2
  <2>3. Len(s.versions) \in 1..Len(s.versions) /\ i \in Nat
    BY <1>1, <1>6, SecretFacts, ReplyOK DEF Request
  <2>4. t \in Secret /\ t.status = s.status /\ Same(s, t) /\ (i \in 1..Len(s.versions) => ~t.versions[i].on)
    <3> HIDE DEF i, s
    <3> QED BY <1>1, <2>3, DisabledFacts
  <2>5. kind = "gcp" \/ r.version = Len(s.versions) => ~Newest(t).on
    <3>1. kind = "gcp" \/ r.version = Len(s.versions) => i = Len(s.versions)
      OBVIOUS
    <3> HIDE DEF i, t, s
    <3> QED BY <2>3, <2>4, <3>1 DEF Newest, Same
  <2> HIDE DEF t, i, s
  <2> QED
    BY <1>6, <2>2, <2>4, <2>5 DEF Effect, s
<1>7. CASE r.what = "delete"
  <2>1. CASE r.vault = "native"
    <3>1. Changed(r) = [s EXCEPT !.status = "leaving"]
      BY <1>7, <2>1 DEF Changed
    <3> QED
      BY <1>1, <1>7, <2>1, <3>1 DEF Effect, Secret
  <2>2. CASE r.vault = "cluster"
    <3>1. Changed(r) = NoSecret
      BY <1>7, <2>2 DEF Changed
    <3>2. NoSecret \in Secret
      BY DEF NoSecret, Secret
    <3> QED
      BY <1>7, <2>2, <3>1, <3>2 DEF Effect
  <2> QED
    BY <2>1, <2>2 DEF Request, Vault
<1>8. CASE r.what = "get"
  BY <1>1, <1>8 DEF Changed, Effect
<1> QED
  BY <1>4, <1>5, <1>6, <1>7, <1>8 DEF Request

(* What a request that arrives does to the vaults.                         *)
Performed(r) ==
    /\ SecretsOK'
    /\ \A w \in Vault, n \in Names : w # r.vault \/ n # r.name => secrets'[w][n] = secrets[w][n]
    /\ Reply(r) = "ok" => Effect(r, Target(r), secrets'[r.vault][r.name])
    /\ Reply(r) # "ok" \/ r.what = "get" => secrets' = secrets

LEMMA PerformDone ==
    ASSUME BaseOK, SecretsOK, NEW r \in Request, Requested(r), Perform(r)
    PROVE  Performed(r)
<1>1. r.vault \in Vault /\ r.name \in Names
  BY DEF Request
<1>2. CASE Reply(r) # "ok"
  BY <1>2 DEF Perform, Performed, SecretsOK
<1>3. CASE Reply(r) = "ok"
  <2> DEFINE t == Changed(r)
  <2>1. t \in Secret /\ Effect(r, Target(r), t)
    BY <1>3, ChangedEffect
  <2>2. secrets' = [secrets EXCEPT ![r.vault][r.name] = t]
    BY <1>3 DEF Perform
  <2> HIDE DEF t
  <2>3. SecretsOK' /\ secrets'[r.vault][r.name] = t
    BY <1>1, <2>1, <2>2 DEF SecretsOK
  <2>4. \A w \in Vault, n \in Names : w # r.vault \/ n # r.name => secrets'[w][n] = secrets[w][n]
    BY <1>1, <2>2 DEF SecretsOK
  <2>5. r.what = "get" => secrets' = secrets
    <3>1. r.what = "get" => t = secrets[r.vault][r.name]
      BY <2>1 DEF Effect, Target, Putting
    <3> QED
      BY <1>1, <2>2, <3>1 DEF SecretsOK
  <2> QED
    BY <1>3, <2>1, <2>3, <2>4, <2>5 DEF Performed
<1> QED
  BY <1>2, <1>3

LEMMA PerformFiled ==
    ASSUME BaseOK, SecretsOK, Filed, NEW r \in Request, Requested(r), Performed(r), kind' = kind
    PROVE  Filed'
<1> SUFFICES ASSUME NEW w \in Vault, NEW n \in Names
             PROVE  /\ PerKey(w) => \A i \in 1..Len(secrets'[w][n].versions) : secrets'[w][n].versions[i].key = n
                    /\ ~PerKey(w) /\ n # 0 => secrets'[w][n] = NoSecret
                    /\ secrets'[w][n].status = "absent" => secrets'[w][n].versions = <<>>
                    /\ secrets'[w][n].status = "leaving" => PerKey(w) /\ n = 0
  BY DEF Filed, PerKey
<1>1. CASE secrets'[w][n] = secrets[w][n]
  BY <1>1 DEF Filed
<1>2. CASE secrets'[w][n] # secrets[w][n]
  <2> DEFINE s == secrets[w][n]
             t == secrets'[w][n]
  <2>1. w = r.vault /\ n = r.name /\ Reply(r) = "ok" /\ r.what # "get" /\ Effect(r, s, t)
    BY <1>2 DEF Performed, Target
  <2>2. s \in Secret /\ t \in Secret
    BY DEF SecretsOK, Performed
  <2>3. /\ PerKey(w) => \A i \in 1..Len(s.versions) : s.versions[i].key = n
        /\ s.status = "absent" => s.versions = <<>>
        /\ s.status # "leaving"
    BY <2>1, ReplyOK DEF Filed, Target
  <2>4. n = (IF PerKey(w) THEN r.key ELSE 0)
    BY <2>1 DEF Requested, secretName
  <2>5. Putting(r) => r.key \in Keys
    BY VaultsAssumption DEF Requested, BaseOK, Keys
  <2> HIDE DEF s, t
  <2>6. CASE t = Added(s, r.key) /\ Putting(r)
    BY <2>2, <2>3, <2>4, <2>5, <2>6, AddedFacts DEF t
  <2>7. CASE r.what = "create" /\ t.status = "kept" /\ t.versions = s.versions
    BY <2>3, <2>4, <2>7 DEF t
  <2>8. CASE r.what = "disable" /\ t.status = s.status /\ Same(s, t)
    <3>1. s.versions = <<>> => t.versions = <<>>
      BY <2>2, <2>8, SecretFacts, EmptySeq DEF Same
    <3> QED
      BY <2>3, <2>4, <2>8, <3>1 DEF Same, t
  <2>9. CASE r.what = "delete" /\ r.vault = "native" /\ t.status = "leaving" /\ t.versions = s.versions
    <3>1. PerKey(w) /\ r.key = 0
      BY <2>1, <2>9 DEF Requested, PerKey
    <3> QED
      BY <2>3, <2>4, <2>9, <3>1 DEF t
  <2>10. CASE r.what = "delete" /\ r.vault = "cluster" /\ t = NoSecret
    <3>1. t.versions = <<>> /\ t.status = "absent" /\ 1..Len(t.versions) = {} /\ ~PerKey(w)
      BY <2>1, <2>10 DEF NoSecret, PerKey
    <3> QED
      BY <2>4, <2>10, <3>1 DEF t
  <2> QED
    BY <2>1, <2>6, <2>7, <2>8, <2>9, <2>10 DEF Effect
<1> QED
  BY <1>1, <1>2

-----------------------------------------------------------------------------
(* The calls.                                                              *)

LEMMA CallKnown ==
    ASSUME Shape, NEW c \in Callers
    PROVE  call[c] \in Call /\ Called(c) /\ issued \in Nat /\ issued <= MaxKeys /\ MaxKeys \in Nat
BY VaultsAssumption DEF Shape, CallsOK, BaseOK

(* The request of a call, by where it is.                                  *)
Sends(c, r) ==
    /\ r.name = secretName(r.vault, r.key) /\ r.key = call[c].key /\ r.version = call[c].version
    /\ r.vault = IF call[c].pc \in {"mirror", "unmirror", "readMirror"} THEN "cluster" ELSE "native"
    /\ call[c].pc \in {"put", "again", "mirror"} => r.what = "put"
    /\ call[c].pc = "create" => r.what = "create"
    /\ call[c].pc \in {"find", "read", "readMirror"} => r.what = "get"
    /\ call[c].pc = "revoke" => r.what = IF kind = "aws" THEN "delete" ELSE "disable"
    /\ call[c].pc = "unmirror" => r.what = "delete"

LEMMA SentOK ==
    ASSUME Shape, NEW c \in Callers, call[c].pc \notin {"idle", "answer"}
    PROVE  Sends(c, Sent(c)) /\ Sent(c) \in Request /\ Requested(Sent(c))
<1>1. call[c] \in Call /\ Called(c) /\ issued \in Nat /\ issued <= MaxKeys /\ MaxKeys \in Nat
  BY CallKnown
<1>2. call[c].pc \in {"put", "create", "again", "mirror", "find", "revoke", "unmirror", "read", "readMirror"}
  BY <1>1 DEF Call
<1>3. \A w \in Vault : secretName(w, call[c].key) \in Names
  BY <1>1 DEF secretName, Names, Call
<1> DEFINE to(what, w) == [what |-> what, vault |-> w, name |-> secretName(w, call[c].key),
                           key |-> call[c].key, version |-> call[c].version]
<1>4. ASSUME NEW what \in {"put", "create", "get", "disable", "delete"}, NEW w \in Vault
      PROVE  to(what, w) \in Request
  BY <1>1, <1>3 DEF Request, Call
<1>5. Sends(c, Sent(c)) /\ Sent(c) \in Request
  <2>1. "native" \in Vault /\ "cluster" \in Vault
    BY DEF Vault
  <2>2. CASE call[c].pc \in {"put", "again"}
    <3>1. Sent(c) = to("put", "native")
      BY <2>2 DEF Sent
    <3> QED BY <1>4, <2>1, <2>2, <3>1 DEF Sends
  <2>3. CASE call[c].pc = "create"
    <3>1. Sent(c) = to("create", "native")
      BY <2>3 DEF Sent
    <3> QED BY <1>4, <2>1, <2>3, <3>1 DEF Sends
  <2>4. CASE call[c].pc = "mirror"
    <3>1. Sent(c) = to("put", "cluster")
      BY <2>4 DEF Sent
    <3> QED BY <1>4, <2>1, <2>4, <3>1 DEF Sends
  <2>5. CASE call[c].pc \in {"find", "read"}
    <3>1. Sent(c) = to("get", "native")
      BY <2>5 DEF Sent
    <3> QED BY <1>4, <2>1, <2>5, <3>1 DEF Sends
  <2>6. CASE call[c].pc = "revoke"
    <3>1. Sent(c) = to(IF kind = "aws" THEN "delete" ELSE "disable", "native")
      BY <2>6 DEF Sent
    <3>2. CASE kind = "aws"
      BY <1>4, <2>1, <2>6, <3>1, <3>2 DEF Sends
    <3>3. CASE kind # "aws"
      BY <1>4, <2>1, <2>6, <3>1, <3>3 DEF Sends
    <3> QED BY <3>2, <3>3
  <2>7. CASE call[c].pc = "unmirror"
    <3>1. Sent(c) = to("delete", "cluster")
      BY <2>7 DEF Sent
    <3> QED BY <1>4, <2>1, <2>7, <3>1 DEF Sends
  <2>8. CASE call[c].pc = "readMirror"
    <3>1. Sent(c) = to("get", "cluster")
      BY <2>8 DEF Sent
    <3> QED BY <1>4, <2>1, <2>8, <3>1 DEF Sends
  <2> QED
    BY <1>2, <2>2, <2>3, <2>4, <2>5, <2>6, <2>7, <2>8
<1>6. Requested(Sent(c))
  <2> DEFINE r == Sent(c)
  <2> HIDE DEF r
  <2>1. Sends(c, r)
    BY <1>5 DEF r
  <2>2. Requested(r)
    BY <1>1, <1>2, <2>1 DEF Sends, Requested, Putting, Called
  <2> QED
    BY <2>2 DEF r
<1> QED
  BY <1>5, <1>6

(* What a caller may be told, and the answers behind it.                   *)
Tolds == {"ok", "absent", "denied", "error", "lost"}

LEMMA ToldFacts ==
    ASSUME BaseOK, NEW w \in Vault, NEW answer \in {"ok", "absent", "denied", "refused"}
    PROVE  /\ Told(w, answer) \in Tolds \ {"lost"}
           /\ Told(w, answer) = "ok" <=> answer = "ok"
           /\ Told(w, answer) = "absent" => answer = "absent" /\ (w = "native" => kind # "azure")
           /\ answer = "absent" /\ (w = "cluster" \/ kind # "azure") => Told(w, answer) = "absent"
<1>1. kind \in {"aws", "gcp", "azure"}
  BY KindKnown
<1>2. CASE w = "cluster"
  BY <1>2 DEF Told, clusterError, Tolds
<1>3. CASE w = "native" /\ kind = "aws"
  BY <1>3 DEF Told, awsError, Tolds
<1>4. CASE w = "native" /\ kind = "gcp"
  BY <1>4 DEF Told, gcpError, Tolds
<1>5. CASE w = "native" /\ kind = "azure"
  BY <1>5 DEF Told, azureError, Tolds
<1> QED
  BY <1>1, <1>2, <1>3, <1>4, <1>5 DEF Vault

LEMMA EndsFacts ==
    ASSUME NEW told \in Tolds
    PROVE  Ends(told) \in {"done", "skip", "failed"} /\ (Ends(told) = "done" <=> told = "ok")
BY DEF Ends, Tolds

(* A delivery to the native vault goes on there, or turns to the cluster.  *)
Delivery(c, told, n) ==
    /\ call[c].pc \in {"put", "create", "again"}
    /\ UNCHANGED <<state, gone>>
    /\ n.op = "rotate" /\ n.key = call[c].key
    /\ \/ /\ n.pc = "create" /\ call[c].pc = "put" /\ told = "absent"
          /\ kind \in {"aws", "gcp"} /\ replaced' = replaced
          /\ n.calm = call[c].calm /\ n.before = call[c].before
       \/ /\ n.pc = "again" /\ call[c].pc = "create" /\ told = "ok"
          /\ kind \in {"aws", "gcp"} /\ replaced' = replaced
          /\ n.calm = call[c].calm /\ n.before = call[c].before
       \/ /\ n.pc = "mirror" /\ n.before = Delivered("cluster")
          /\ n.calm => call[c].calm /\ told # "lost"
          /\ \/ told # "ok" /\ replaced' = replaced
             \/ /\ told = "ok" /\ call[c].pc \in {"put", "again"}
                /\ replaced' = [replaced EXCEPT !["native"] = @ \cup call[c].before]
          /\ told = "absent" => call[c].pc # "put"

LEMMA DeliverStep ==
    ASSUME Shape, NEW c \in Callers, NEW told \in Tolds, deliverToVault(c, told),
           told = "absent" => kind # "azure"
    PROVE  \E n \in Call : call' = [call EXCEPT ![c] = n] /\ Delivery(c, told, n)
<1> DEFINE result == StoreSecret(call[c].pc, told)
<1>1. call[c] \in Call /\ Called(c) /\ kind \in {"aws", "gcp", "azure"}
  BY CallKnown, KindKnown DEF Shape
<1>2. call[c].pc \in {"put", "create", "again"} /\ call[c].op = "rotate"
  BY <1>1 DEF deliverToVault, Called
<1>3. \/ result = "create" /\ call[c].pc = "put" /\ told = "absent" /\ kind \in {"aws", "gcp"}
      \/ result = "again" /\ call[c].pc = "create" /\ told = "ok" /\ kind \in {"aws", "gcp"}
      \/ /\ result \in {"done", "skip", "failed"} /\ (result = "done" <=> told = "ok")
         /\ told = "ok" => call[c].pc \in {"put", "again"}
         /\ told = "absent" => call[c].pc # "put"
  <2>1. CASE kind = "aws"
    BY <1>2, <2>1, EndsFacts DEF StoreSecret, awsStore
  <2>2. CASE kind = "gcp"
    BY <1>2, <2>2, EndsFacts DEF StoreSecret, gcpStore
  <2>3. CASE kind = "azure"
    BY <1>1, <1>2, <2>3, EndsFacts DEF StoreSecret, azureStore, Called
  <2> QED
    BY <1>1, <2>1, <2>2, <2>3
<1>4. /\ replaced' = IF result = "done"
                     THEN [replaced EXCEPT !["native"] = @ \cup call[c].before] ELSE replaced
      /\ UNCHANGED <<state, gone>>
  BY DEF deliverToVault, Confirm
<1> HIDE DEF result
<1>5. CASE result \in {"create", "again"}
  <2> DEFINE n == [call[c] EXCEPT !.pc = result]
  <2>1. /\ n \in Call /\ n.pc = result /\ n.op = call[c].op /\ n.key = call[c].key
        /\ n.calm = call[c].calm /\ n.before = call[c].before
    BY <1>1, <1>5 DEF Call
  <2>2. call' = [call EXCEPT ![c] = n]
    BY <1>5 DEF deliverToVault, result
  <2> HIDE DEF n
  <2> QED
    BY <1>2, <1>3, <1>4, <1>5, <2>1, <2>2 DEF Delivery
<1>6. CASE result \notin {"create", "again"}
  <2> DEFINE b == Delivered("cluster")
             m == call[c].calm /\ told # "lost"
             n == [call[c] EXCEPT !.pc = "mirror", !.before = b, !.calm = m]
  <2>1. b \in SUBSET Keys /\ m \in BOOLEAN
    BY VaultsAssumption DEF Delivered, Keys, Shape, BaseOK
  <2>2. call' = [call EXCEPT ![c] = n]
    <3> DEFINE a == [call[c] EXCEPT !.pc = result]
    <3>1. call' = [call EXCEPT ![c] = IF result \in {"create", "again"} THEN a ELSE n]
      BY Zenon DEF deliverToVault, result
    <3> HIDE DEF a, n
    <3> QED
      BY <1>6, <3>1
  <2>3. /\ n \in Call /\ n.pc = "mirror" /\ n.op = call[c].op /\ n.key = call[c].key
        /\ n.calm = m /\ n.before = b
    <3> HIDE DEF b, m
    <3> QED BY <1>1, <2>1 DEF Call
  <2>4. n.calm => call[c].calm /\ told # "lost"
    <3> HIDE DEF n
    <3> QED BY <2>3, Zenon
  <2>5. n.pc = "mirror" /\ n.op = "rotate" /\ n.key = call[c].key /\ n.before = Delivered("cluster")
    <3> HIDE DEF n
    <3> QED BY <1>2, <2>3
  <2>6. \/ told # "ok" /\ replaced' = replaced
        \/ /\ told = "ok" /\ call[c].pc \in {"put", "again"}
           /\ replaced' = [replaced EXCEPT !["native"] = @ \cup call[c].before]
    BY <1>3, <1>4, <1>6
  <2>7. told = "absent" => call[c].pc # "put"
    BY <1>3, <1>6
  <2> HIDE DEF n
  <2>8. Delivery(c, told, n)
    BY <1>2, <1>4, <2>4, <2>5, <2>6, <2>7 DEF Delivery
  <2> QED
    BY <2>2, <2>3, <2>8
<1> QED
  BY <1>5, <1>6

(* A revocation turns to the version to disable, or to the cluster.        *)
Revocation(c, told, n) ==
    /\ call[c].pc \in {"find", "revoke"}
    /\ UNCHANGED <<state, replaced>>
    /\ n.op = call[c].op /\ n.key = 0 /\ n.calm = call[c].calm
    /\ \/ /\ n.pc = "revoke" /\ call[c].pc = "find" /\ kind = "azure" /\ gone' = gone
          /\ n.version = Len(secrets["native"][0].versions)
       \/ n.pc = "unmirror" /\ gone' = gone
       \/ /\ n.pc = "unmirror" /\ call[c].pc = "revoke" /\ call[c].calm
          /\ gone' = [gone EXCEPT !["native"] = TRUE]
          /\ told = "ok" \/ (told = "absent" /\ kind # "azure")

LEMMA RevokeStep ==
    ASSUME Shape, NEW c \in Callers, NEW told \in Tolds, revokeFromVault(c, told)
    PROVE  \E n \in Call : call' = [call EXCEPT ![c] = n] /\ Revocation(c, told, n)
<1> DEFINE result == RevokeSecret(call[c].pc, told)
           v == Len(secrets["native"][0].versions)
<1>1. call[c] \in Call /\ Called(c) /\ kind \in {"aws", "gcp", "azure"}
  BY CallKnown, KindKnown DEF Shape
<1>2. call[c].pc \in {"find", "revoke"} /\ call[c].op \in {"retire", "delete"} /\ call[c].key = 0
  BY <1>1 DEF revokeFromVault, Called
<1>3. v \in Nat
  <2>1. secrets["native"][0] \in Secret
    BY VaultsAssumption DEF Shape, SecretsOK, Vault, Names
  <2> QED
    BY <2>1, SecretFacts
<1>4. \/ result = "revoke" /\ kind = "azure" /\ call[c].pc = "find"
      \/ result \in {"skip", "failed"}
      \/ result = "done" /\ call[c].pc = "revoke" /\ (told = "ok" \/ (told = "absent" /\ kind # "azure"))
  <2>1. CASE kind = "aws"
    BY <1>1, <1>2, <2>1, EndsFacts DEF RevokeSecret, awsRevoke, Called
  <2>2. CASE kind = "gcp"
    BY <1>1, <1>2, <2>2, EndsFacts DEF RevokeSecret, gcpRevoke, Called
  <2>3. CASE kind = "azure"
    BY <1>2, <2>3, EndsFacts DEF RevokeSecret, azureRevoke
  <2> QED
    BY <1>1, <2>1, <2>2, <2>3
<1>5. /\ gone' = IF result = "done" /\ call[c].calm THEN [gone EXCEPT !["native"] = TRUE] ELSE gone
      /\ UNCHANGED <<state, replaced>>
  BY DEF revokeFromVault, Revoked
<1>6. secretName("native", 0) = 0
  BY DEF secretName
<1> HIDE DEF result
<1>7. CASE result = "revoke"
  <2> DEFINE n == [call[c] EXCEPT !.pc = "revoke", !.version = v]
  <2>1. call' = [call EXCEPT ![c] = n]
    BY <1>6, <1>7 DEF revokeFromVault, result
  <2>2. /\ n \in Call /\ n.pc = "revoke" /\ n.op = call[c].op /\ n.key = call[c].key
        /\ n.calm = call[c].calm /\ n.version = v
    <3> HIDE DEF v
    <3> QED BY <1>1, <1>3 DEF Call
  <2> HIDE DEF n
  <2> QED
    BY <1>2, <1>4, <1>5, <1>7, <2>1, <2>2 DEF Revocation
<1>8. CASE result # "revoke"
  <2> DEFINE n == [call[c] EXCEPT !.pc = "unmirror"]
  <2>1. call' = [call EXCEPT ![c] = n]
    BY <1>8 DEF revokeFromVault, result
  <2>2. /\ n \in Call /\ n.pc = "unmirror" /\ n.op = call[c].op /\ n.key = call[c].key
        /\ n.calm = call[c].calm
    BY <1>1 DEF Call
  <2> HIDE DEF n
  <2> QED
    BY <1>2, <1>4, <1>5, <1>8, <2>1, <2>2 DEF Revocation
<1> QED
  BY <1>7, <1>8

(* A use has found a secret, asks the other vault, or fails.               *)
Usage(c, told, n) ==
    LET w == IF call[c].pc = "read" THEN "native" ELSE "cluster"
    IN  /\ call[c].pc \in {"read", "readMirror"}
        /\ UNCHANGED <<state, replaced, gone>>
        /\ \/ /\ told = "ok" /\ n.pc = "answer" /\ n.op = "use" /\ ~n.calm
              /\ n.key = Readable(w, secretName(w, call[c].key)) /\ n.source = w
              /\ n.stale = call[c].stale
           \/ /\ told # "ok" /\ n.pc = "readMirror" /\ n.op = "use" /\ ~n.calm
              /\ n.key = call[c].key /\ n.stale = call[c].stale
           \/ n = NoCall

(* What can be read is a key.                                              *)
LEMMA ReadableKey ==
    ASSUME Shape, NEW w \in Vault, NEW n \in Names
    PROVE  Readable(w, n) \in 0..MaxKeys
<1>1. secrets[w][n] \in Secret
  BY DEF Shape, SecretsOK
<1>2. secrets[w][n].versions # <<>> => Newest(secrets[w][n]).key \in Keys
  BY <1>1, SecretFacts DEF Newest, Version
<1> QED
  BY <1>2, VaultsAssumption DEF Readable, Keys

LEMMA NoCallOK ==
    /\ NoCall \in Call /\ NoCall.pc = "idle" /\ NoCall.op = "none" /\ NoCall.key = 0
    /\ ~NoCall.calm /\ NoCall.source = "native" /\ NoCall.before = {} /\ NoCall.version = 0
BY VaultsAssumption DEF NoCall, Call, Vault

LEMMA UseStep ==
    ASSUME Shape, NEW c \in Callers, NEW told \in Tolds, useSecret(c, told)
    PROVE  \E n \in Call : call' = [call EXCEPT ![c] = n] /\ Usage(c, told, n)
<1> DEFINE w == IF call[c].pc = "read" THEN "native" ELSE "cluster"
           result == IF call[c].pc = "read" THEN ReadSecret(told) ELSE clusterRead(told)
           found == Readable(w, secretName(w, call[c].key))
<1>1. call[c] \in Call /\ Called(c) /\ kind \in {"aws", "gcp", "azure"}
  BY CallKnown, KindKnown DEF Shape
<1>2. call[c].pc \in {"read", "readMirror"} /\ call[c].op = "use" /\ ~call[c].calm
  BY <1>1 DEF useSecret, Called
<1>3. w \in Vault /\ secretName(w, call[c].key) \in Names
  BY <1>1, VaultsAssumption DEF secretName, Names, Call, Vault
<1>4. found \in 0..MaxKeys
  <2> HIDE DEF w
  <2> QED BY <1>3, ReadableKey
<1>5. result = Ends(told)
  <2>1. CASE kind = "aws"
    BY <2>1 DEF ReadSecret, awsRead, clusterRead
  <2>2. CASE kind = "gcp"
    BY <2>2 DEF ReadSecret, gcpRead, clusterRead
  <2>3. CASE kind = "azure"
    BY <2>3 DEF ReadSecret, azureRead, clusterRead
  <2> QED
    BY <1>1, <2>1, <2>2, <2>3
<1>6. UNCHANGED <<state, replaced, gone>>
  BY DEF useSecret
<1> DEFINE a == [call[c] EXCEPT !.pc = "answer", !.key = found, !.source = w]
           b == [call[c] EXCEPT !.pc = "readMirror"]
<1>7. call' = [call EXCEPT ![c] = IF result = "done" THEN a
                                  ELSE IF call[c].pc = "read" /\ fallsBack(result) THEN b ELSE NoCall]
  BY Zenon DEF useSecret
<1>8. /\ a \in Call /\ a.pc = "answer" /\ a.op = "use" /\ a.key = found /\ a.source = w
      /\ a.stale = call[c].stale /\ a.calm = call[c].calm
  <2> HIDE DEF found, w
  <2> QED BY <1>1, <1>2, <1>3, <1>4 DEF Call
<1>9. /\ b \in Call /\ b.pc = "readMirror" /\ b.op = "use" /\ b.key = call[c].key
      /\ b.stale = call[c].stale /\ b.calm = call[c].calm
  BY <1>1, <1>2 DEF Call
<1>10. result = "done" <=> told = "ok"
  <2> HIDE DEF result
  <2> QED BY <1>5, EndsFacts
<1> HIDE DEF a, b, result
<1>11. CASE result = "done"
  <2>1. call' = [call EXCEPT ![c] = a]
    BY <1>7, <1>11
  <2>2. Usage(c, told, a)
    BY <1>2, <1>6, <1>8, <1>10, <1>11 DEF Usage
  <2> QED
    BY <1>8, <2>1, <2>2
<1>12. CASE result # "done" /\ call[c].pc = "read" /\ fallsBack(result)
  <2>1. call' = [call EXCEPT ![c] = b]
    BY <1>7, <1>12
  <2>2. Usage(c, told, b)
    BY <1>2, <1>6, <1>9, <1>10, <1>12 DEF Usage
  <2> QED
    BY <1>9, <2>1, <2>2
<1>13. CASE result # "done" /\ ~(call[c].pc = "read" /\ fallsBack(result))
  BY <1>2, <1>6, <1>7, <1>13, NoCallOK DEF Usage
<1> QED
  BY <1>11, <1>12, <1>13

(* The two ends of a call.                                                 *)
Mirroring(c, told, n) ==
    /\ call[c].pc = "mirror" /\ n = NoCall
    /\ UNCHANGED <<state, gone>>
    /\ \/ told # "ok" /\ replaced' = replaced
       \/ told = "ok" /\ replaced' = [replaced EXCEPT !["cluster"] = @ \cup call[c].before]

Unmirroring(c, told, n) ==
    /\ call[c].pc = "unmirror" /\ n = NoCall
    /\ state' = (IF call[c].op = "delete" THEN "deleted" ELSE state)
    /\ replaced' = replaced
    /\ \/ gone' = gone
       \/ /\ told \in {"ok", "absent"} /\ call[c].calm
          /\ gone' = [gone EXCEPT !["cluster"] = TRUE]

Outcome(c, told, n) ==
    \/ Delivery(c, told, n)
    \/ Mirroring(c, told, n)
    \/ Revocation(c, told, n)
    \/ Unmirroring(c, told, n)
    \/ Usage(c, told, n)

LEMMA ContinueStep ==
    ASSUME Shape, NEW c \in Callers, NEW told \in Tolds, Continue(c, told),
           told = "absent" /\ call[c].pc \in {"put", "create", "again"} => kind # "azure"
    PROVE  \E n \in Call : call' = [call EXCEPT ![c] = n] /\ Outcome(c, told, n)
<1>1. CASE deliverToVault(c, told)
  <2>1. call[c].pc \in {"put", "create", "again"}
    BY <1>1 DEF deliverToVault
  <2> QED
    BY <1>1, <2>1, DeliverStep DEF Outcome
<1>2. CASE mirrorToCommonVault(c, told)
  <2>1. /\ call[c].pc = "mirror" /\ call' = [call EXCEPT ![c] = NoCall]
        /\ UNCHANGED <<state, gone>>
        /\ replaced' = IF Ends(told) = "done"
                       THEN [replaced EXCEPT !["cluster"] = @ \cup call[c].before] ELSE replaced
    BY <1>2 DEF mirrorToCommonVault, Confirm, clusterStore
  <2>2. Mirroring(c, told, NoCall)
    BY <2>1, EndsFacts DEF Mirroring
  <2> QED
    BY <2>1, <2>2, NoCallOK DEF Outcome
<1>3. CASE revokeFromVault(c, told)
  BY <1>3, RevokeStep DEF Outcome
<1>4. CASE revokeFromCommonVault(c, told)
  <2> DEFINE result == clusterRevoke("unmirror", told)
  <2>1. result = "done" => told \in {"ok", "absent"}
    BY EndsFacts DEF clusterRevoke
  <2>2. /\ call[c].pc = "unmirror" /\ call' = [call EXCEPT ![c] = NoCall]
        /\ state' = IF call[c].op = "delete" THEN "deleted" ELSE state
        /\ replaced' = replaced
        /\ gone' = IF result = "done" /\ call[c].calm THEN [gone EXCEPT !["cluster"] = TRUE] ELSE gone
    BY <1>4 DEF revokeFromCommonVault, Revoked
  <2> HIDE DEF result
  <2>3. Unmirroring(c, told, NoCall)
    BY <2>1, <2>2 DEF Unmirroring
  <2> QED
    BY <2>2, <2>3, NoCallOK DEF Outcome
<1>5. CASE useSecret(c, told)
  BY <1>5, UseStep DEF Outcome
<1> QED
  BY <1>1, <1>2, <1>3, <1>4, <1>5 DEF Continue

(* One round of a call: its request r, received or not, what the caller is *)
(* told, and what it is left with.                                         *)
Round(c, told, r) ==
    /\ Sends(c, r) /\ Requested(r)
    /\ \/ told = "denied" /\ access = "off" /\ secrets' = secrets /\ late' = late
       \/ Performed(r) /\ told = Told(r.vault, Reply(r)) /\ late' = late
       \/ told = "lost" /\ secrets' = secrets /\ late' \subseteq late \cup {r}

Turn(c, told, r, n) ==
    /\ call[c].pc \notin {"idle", "answer"}
    /\ UNCHANGED <<kind, access, key, issued>> /\ faults' \in 0..MaxFaults
    /\ Round(c, told, r)
    /\ call' = [call EXCEPT ![c] = n]
    /\ Outcome(c, told, n)

LEMMA TurnStep ==
    ASSUME Shape, NEW c \in Callers, Unsupported(c) \/ Ask(c) \/ Lost(c)
    PROVE  \E told \in Tolds, r \in Request, n \in Call : Turn(c, told, r, n)
<1>1. call[c].pc \notin {"idle", "answer"}
  BY DEF Unsupported, Ask, Lost, Asking
<1>2. PICK r \in Request : r = Sent(c) /\ Sends(c, r) /\ Requested(r)
  BY <1>1, SentOK
<1>3. r.vault \in Vault /\ BaseOK /\ SecretsOK /\ faults \in 0..MaxFaults
  BY DEF Request, Shape, BaseOK
<1>4. CASE Unsupported(c)
  <2>1. /\ Continue(c, "denied") /\ "denied" \in Tolds /\ access = "off"
        /\ UNCHANGED <<kind, access, key, issued, secrets, late, faults>>
    BY <1>4 DEF Unsupported, Tolds
  <2>2. PICK n \in Call : call' = [call EXCEPT ![c] = n] /\ Outcome(c, "denied", n)
    BY <2>1, ContinueStep
  <2>3. Round(c, "denied", r)
    BY <1>2, <2>1 DEF Round
  <2>4. Turn(c, "denied", r, n)
    BY <1>1, <1>3, <2>1, <2>2, <2>3 DEF Turn
  <2> QED
    BY <2>1, <2>4
<1>5. CASE Ask(c)
  <2> DEFINE told == Told(r.vault, Reply(r))
  <2>1. Perform(r) /\ Continue(c, told) /\ UNCHANGED <<kind, access, key, issued, late, faults>>
    BY <1>2, <1>5 DEF Ask
  <2>2. /\ told \in Tolds
        /\ told = "absent" /\ call[c].pc \in {"put", "create", "again"} => kind # "azure"
    BY <1>2, <1>3, ReplyRange, ToldFacts DEF Sends
  <2>3. Performed(r)
    BY <1>2, <1>3, <2>1, PerformDone
  <2>4. Round(c, told, r)
    BY <1>2, <2>1, <2>3 DEF Round
  <2> HIDE DEF told
  <2>5. PICK n \in Call : call' = [call EXCEPT ![c] = n] /\ Outcome(c, told, n)
    BY <2>1, <2>2, ContinueStep
  <2>6. Turn(c, told, r, n)
    BY <1>1, <1>3, <2>1, <2>4, <2>5 DEF Turn
  <2> QED
    BY <2>2, <2>6
<1>6. CASE Lost(c)
  <2>1. /\ Continue(c, "lost") /\ "lost" \in Tolds /\ faults < MaxFaults /\ faults' = faults + 1
        /\ UNCHANGED <<kind, access, key, issued, secrets>> /\ late' \subseteq late \cup {r}
    BY <1>2, <1>6 DEF Lost, Tolds
  <2>2. PICK n \in Call : call' = [call EXCEPT ![c] = n] /\ Outcome(c, "lost", n)
    BY <2>1, ContinueStep
  <2>3. Round(c, "lost", r)
    BY <1>2, <2>1 DEF Round
  <2>4. faults' \in 0..MaxFaults
    BY <1>3, <2>1, VaultsAssumption
  <2>5. Turn(c, "lost", r, n)
    BY <1>1, <2>1, <2>2, <2>3, <2>4 DEF Turn
  <2> QED
    BY <2>1, <2>5
<1> QED
  BY <1>4, <1>5, <1>6

-----------------------------------------------------------------------------
(* The other steps.                                                        *)

(* A call that goes on as before; at most it is no longer calm.            *)
Alike(m, n) ==
    /\ n.pc = m.pc /\ n.op = m.op /\ n.key = m.key /\ n.version = m.version
    /\ n.before = m.before /\ n.stale = m.stale /\ n.source = m.source
    /\ n.calm => m.calm

Kept(d) == Alike(call[d], call'[d])

LEMMA NoLongerCalm ==
    ASSUME NEW m \in Call
    PROVE  [m EXCEPT !.calm = FALSE] \in Call /\ Alike(m, [m EXCEPT !.calm = FALSE])
           /\ ~[m EXCEPT !.calm = FALSE].calm
BY DEF Call, Alike

LEMMA AlikeItself == \A m : Alike(m, m)
BY DEF Alike

(* A delivery or revocation begins.                                        *)
Begun(c, n) ==
    /\ call[c].pc = "idle"
    /\ call' \in [Callers -> Call] /\ call'[c] = n
    /\ \A d \in Callers : d # c => Kept(d) /\ ~call'[d].calm
    /\ n.calm => late = {} /\ \A e \in Callers : ~Changing(e)

LEMMA ChangeStep ==
    ASSUME Shape, NEW c \in Callers, NEW new \in Call, Change(c, new)
    PROVE  \E n \in Call : /\ Begun(c, n)
                           /\ n.pc = new.pc /\ n.op = new.op /\ n.key = new.key /\ n.before = new.before
<1> DEFINE m == late = {} /\ \A e \in Callers : ~Changing(e)
           n == [new EXCEPT !.calm = m]
<1>1. m \in BOOLEAN
  OBVIOUS
<1>2. call[c].pc = "idle" /\ call' = [d \in Callers |-> IF d = c THEN n ELSE [call[d] EXCEPT !.calm = FALSE]]
  BY DEF Change
<1>3. /\ n \in Call /\ n.calm = m
      /\ n.pc = new.pc /\ n.op = new.op /\ n.key = new.key /\ n.before = new.before
  <2> HIDE DEF m
  <2> QED BY <1>1 DEF Call
<1>4. n.calm => late = {} /\ \A e \in Callers : ~Changing(e)
  <2> HIDE DEF n
  <2> QED BY <1>3, Zenon
<1> HIDE DEF n, m
<1>5. \A d \in Callers : call[d] \in Call
  BY DEF Shape, CallsOK
<1>6. call'[c] = n
  BY <1>2
<1>7. \A d \in Callers : d # c => Kept(d) /\ ~call'[d].calm /\ call'[d] \in Call
  <2> SUFFICES ASSUME NEW d \in Callers, d # c PROVE Kept(d) /\ ~call'[d].calm /\ call'[d] \in Call
    OBVIOUS
  <2>1. call'[d] = [call[d] EXCEPT !.calm = FALSE]
    BY <1>2
  <2> QED
    BY <1>5, <2>1, NoLongerCalm DEF Kept
<1>8. call' \in [Callers -> Call]
  <2>1. \A d \in Callers : call'[d] \in Call
    BY <1>3, <1>6, <1>7
  <2>2. call' = [d \in Callers |-> call'[d]]
    BY <1>2
  <2> QED
    BY <2>1, <2>2
<1> QED
  BY <1>2, <1>3, <1>4, <1>6, <1>7, <1>8 DEF Begun

(* A rotation: its key is newer than all others.                           *)
Rotation(c, n) ==
    /\ Begun(c, n)
    /\ state = "active" /\ issued < MaxKeys /\ issued' = issued + 1 /\ key' = issued + 1
    /\ n.pc = "put" /\ n.op = "rotate" /\ n.key = issued + 1 /\ n.before = Delivered("native")
    /\ UNCHANGED <<kind, access, state, secrets, late, faults, replaced, gone>>

LEMMA RotateStep ==
    ASSUME Shape, NEW c \in Callers, Rotate(c)
    PROVE  \E n \in Call : Rotation(c, n)
<1> DEFINE b == Delivered("native")
           k == issued + 1
           new == [NoCall EXCEPT !.pc = "put", !.op = "rotate", !.key = k, !.before = b]
<1>1. b \in SUBSET Keys /\ k \in 0..MaxKeys
  BY VaultsAssumption DEF Delivered, Keys, Shape, BaseOK, Rotate
<1>2. new \in Call /\ new.pc = "put" /\ new.op = "rotate" /\ new.key = k /\ new.before = b
  <2>1. NoCall \in Call
    BY NoCallOK
  <2> HIDE DEF b, k
  <2> QED BY <1>1, <2>1 DEF Call
<1>3. Change(c, new)
  BY DEF Rotate
<1> HIDE DEF new
<1>4. PICK n \in Call : /\ Begun(c, n)
                        /\ n.pc = new.pc /\ n.op = new.op /\ n.key = new.key /\ n.before = new.before
  BY <1>2, <1>3, ChangeStep
<1>5. Rotation(c, n)
  BY <1>2, <1>4 DEF Rotation, Rotate
<1> QED
  BY <1>5

(* A retirement or a deletion.                                             *)
Withdrawal(c, n) ==
    /\ Begun(c, n)
    /\ state' \in {"retired", "deleted"} /\ key' \in 0..issued
    /\ n.pc = FirstRevocation /\ n.op \in {"retire", "delete"} /\ n.key = 0
    /\ UNCHANGED <<kind, access, issued, secrets, late, faults, replaced, gone>>

LEMMA WithdrawStep ==
    ASSUME Shape, NEW c \in Callers, Retire(c) \/ Delete(c)
    PROVE  \E n \in Call : Withdrawal(c, n)
<1>1. FirstRevocation \in {"find", "revoke"}
  BY DEF FirstRevocation
<1>2. key \in 0..issued /\ issued \in Nat
  BY VaultsAssumption DEF Shape, BaseOK
<1>3. ASSUME NEW op \in {"retire", "delete"}
      PROVE  LET new == [NoCall EXCEPT !.pc = FirstRevocation, !.op = op]
             IN  new \in Call /\ new.pc = FirstRevocation /\ new.op = op /\ new.key = 0
  <2>1. NoCall \in Call /\ NoCall.key = 0
    BY NoCallOK
  <2> QED
    BY <1>1, <2>1 DEF Call
<1>4. \E op \in {"retire", "delete"} :
        /\ Change(c, [NoCall EXCEPT !.pc = FirstRevocation, !.op = op])
        /\ state' \in {"retired", "deleted"} /\ key' \in 0..issued
        /\ UNCHANGED <<kind, access, issued, secrets, late, faults, replaced, gone>>
  <2>1. CASE Retire(c)
    BY <1>2, <2>1 DEF Retire
  <2>2. CASE Delete(c)
    BY <1>2, <2>2 DEF Delete, record
  <2> QED
    BY <2>1, <2>2
<1>5. PICK op \in {"retire", "delete"} :
        /\ Change(c, [NoCall EXCEPT !.pc = FirstRevocation, !.op = op])
        /\ state' \in {"retired", "deleted"} /\ key' \in 0..issued
        /\ UNCHANGED <<kind, access, issued, secrets, late, faults, replaced, gone>>
  BY <1>4
<1> DEFINE new == [NoCall EXCEPT !.pc = FirstRevocation, !.op = op]
<1>6. new \in Call /\ new.pc = FirstRevocation /\ new.op = op /\ new.key = 0
  BY <1>3
<1> HIDE DEF new
<1>7. PICK n \in Call : /\ Begun(c, n)
                        /\ n.pc = new.pc /\ n.op = new.op /\ n.key = new.key /\ n.before = new.before
  BY <1>5, <1>6, ChangeStep DEF new
<1>8. Withdrawal(c, n)
  BY <1>5, <1>6, <1>7 DEF Withdrawal
<1> QED
  BY <1>8

(* A use begins, or its caller has its answer.                             *)
Quiet(c, n) ==
    /\ call[c].pc \in {"idle", "answer"} /\ call' = [call EXCEPT ![c] = n]
    /\ UNCHANGED <<kind, access, record, secrets, late, faults, replaced, gone>>
    /\ \/ n = NoCall
       \/ /\ n.pc = "read" /\ n.op = "use" /\ n.key = key /\ key # 0 /\ ~n.calm
          /\ n.stale = [w \in Vault |-> Stale(w, key)]

LEMMA QuietStep ==
    ASSUME Shape, NEW c \in Callers, Use(c) \/ Return(c)
    PROVE  \E n \in Call : Quiet(c, n)
<1>1. CASE Return(c)
  BY <1>1, NoCallOK DEF Return, Quiet
<1>2. CASE Use(c)
  <2> DEFINE st == [w \in Vault |-> Stale(w, key)]
             n == [NoCall EXCEPT !.pc = "read", !.op = "use", !.key = key, !.stale = st]
  <2>1. st \in [Vault -> SUBSET Keys]
    BY DEF Stale, Shape, BaseOK
  <2>2. key \in 0..MaxKeys
    BY VaultsAssumption DEF Shape, BaseOK
  <2>3. /\ n \in Call /\ n.pc = "read" /\ n.op = "use" /\ n.key = key /\ n.calm = NoCall.calm
        /\ n.stale = st
    <3>1. NoCall \in Call
      BY NoCallOK
    <3> HIDE DEF st
    <3> QED BY <2>1, <2>2, <3>1 DEF Call
  <2>4. /\ call[c].pc = "idle" /\ call' = [call EXCEPT ![c] = n] /\ key # 0
        /\ UNCHANGED <<kind, access, record, secrets, late, faults, replaced, gone>>
    BY <1>2 DEF Use
  <2> HIDE DEF n
  <2>5. ~n.calm
    BY <2>3, NoCallOK
  <2>6. Quiet(c, n)
    BY <2>3, <2>4, <2>5 DEF Quiet
  <2> QED
    BY <2>3, <2>6
<1> QED
  BY <1>1, <1>2

(* A late request is received.                                             *)
Arrival(r) ==
    /\ Performed(r) /\ late' = late \ {r}
    /\ UNCHANGED <<kind, access, record, call, faults, replaced, gone>>

(* The grant changes.                                                      *)
Permission ==
    /\ access' \in {"denied", "open"} /\ faults' \in 0..MaxFaults
    /\ call' \in [Callers -> Call] /\ \A d \in Callers : Kept(d) /\ ~call'[d].calm
    /\ UNCHANGED <<kind, record, secrets, late, replaced, gone>>

LEMMA PermitStep ==
    ASSUME Shape, Permit
    PROVE  Permission
<1>1. /\ faults < MaxFaults /\ faults' = faults + 1
      /\ access' = IF access = "open" THEN "denied" ELSE "open"
      /\ call' = [c \in Callers |-> [call[c] EXCEPT !.calm = FALSE]]
      /\ UNCHANGED <<kind, record, secrets, late, replaced, gone>>
  BY DEF Permit
<1>2. faults' \in 0..MaxFaults
  BY <1>1, VaultsAssumption DEF Shape, BaseOK
<1>3. \A d \in Callers : call[d] \in Call
  BY DEF Shape, CallsOK
<1>4. \A d \in Callers : Kept(d) /\ ~call'[d].calm /\ call'[d] \in Call
  <2> SUFFICES ASSUME NEW d \in Callers PROVE Kept(d) /\ ~call'[d].calm /\ call'[d] \in Call
    OBVIOUS
  <2>1. call'[d] = [call[d] EXCEPT !.calm = FALSE]
    BY <1>1
  <2> QED
    BY <1>3, <2>1, NoLongerCalm DEF Kept
<1>5. call' \in [Callers -> Call]
  <2>1. call' = [d \in Callers |-> call'[d]]
    BY <1>1
  <2> QED
    BY <1>4, <2>1
<1> QED
  BY <1>1, <1>2, <1>4, <1>5 DEF Permission

(* What the steps of the specification amount to.                          *)
Step(c, told, r, n) ==
    Rotation(c, n) \/ Withdrawal(c, n) \/ Quiet(c, n) \/ Turn(c, told, r, n)

LEMMA NextSteps ==
    ASSUME Shape, Next
    PROVE  \/ \E c \in Callers, told \in Tolds, r \in Request, n \in Call : Step(c, told, r, n)
           \/ \E r \in late : Arrival(r)
           \/ Permission
<1>1. ASSUME NEW c \in Callers, Rotate(c) \/ Retire(c) \/ Delete(c) \/ Use(c) \/ Return(c)
      PROVE  \E n \in Call : Rotation(c, n) \/ Withdrawal(c, n) \/ Quiet(c, n)
  BY <1>1, RotateStep, WithdrawStep, QuietStep
<1>2. "ok" \in Tolds
  BY DEF Tolds
<1>3. \E r : r \in Request
  <2> DEFINE r == [what |-> "get", vault |-> "native", name |-> 0, key |-> 0, version |-> 0]
  <2>1. r \in Request
    BY VaultsAssumption DEF Request, Vault, Names
  <2> QED
    BY <2>1
<1>4. ASSUME NEW c \in Callers, Rotate(c) \/ Retire(c) \/ Delete(c) \/ Use(c) \/ Return(c)
      PROVE  \E told \in Tolds, r \in Request, n \in Call : Step(c, told, r, n)
  BY <1>1, <1>2, <1>3, <1>4 DEF Step
<1>5. ASSUME NEW c \in Callers, Unsupported(c) \/ Ask(c) \/ Lost(c)
      PROVE  \E told \in Tolds, r \in Request, n \in Call : Step(c, told, r, n)
  BY <1>5, TurnStep DEF Step
<1>6. CASE Arrive
  <2>1. PICK r \in late : Perform(r) /\ late' = late \ {r}
                          /\ UNCHANGED <<kind, access, record, call, faults, replaced, gone>>
    BY <1>6 DEF Arrive
  <2>2. r \in Request /\ Requested(r) /\ BaseOK /\ SecretsOK
    BY DEF Shape, LateOK
  <2>3. Arrival(r)
    BY <2>1, <2>2, PerformDone DEF Arrival
  <2> QED
    BY <2>3
<1> QED
  BY <1>4, <1>5, <1>6, PermitStep DEF Next

-----------------------------------------------------------------------------
(* The shape is kept.                                                      *)

(* In every step of a caller the others are kept.                          *)
Moved(c, n) ==
    call' \in [Callers -> Call] /\ call'[c] = n /\ \A d \in Callers : d # c => Kept(d)

LEMMA StepMoved ==
    ASSUME Shape, NEW c \in Callers, NEW told \in Tolds, NEW r \in Request, NEW n \in Call,
           Step(c, told, r, n)
    PROVE  Moved(c, n)
<1>1. CASE Rotation(c, n) \/ Withdrawal(c, n)
  BY <1>1 DEF Rotation, Withdrawal, Begun, Moved
<1>2. CASE call' = [call EXCEPT ![c] = n]
  <2>1. call \in [Callers -> Call]
    BY DEF Shape, CallsOK
  <2>2. call' \in [Callers -> Call] /\ call'[c] = n /\ \A d \in Callers : d # c => call'[d] = call[d]
    BY <1>2, <2>1
  <2> QED
    BY <2>2, AlikeItself DEF Moved, Kept
<1> QED
  BY <1>1, <1>2 DEF Step, Quiet, Turn

(* Keys and withdrawals only go one way.                                   *)
Onward ==
    /\ kind' = kind /\ issued' \in Nat /\ issued <= issued'
    /\ state # "active" => state' # "active"

LEMMA StepOnward ==
    ASSUME Shape, NEW c \in Callers, NEW told \in Tolds, NEW r \in Request, NEW n \in Call,
           Step(c, told, r, n)
    PROVE  Onward
<1>1. issued \in Nat
  BY VaultsAssumption DEF Shape, BaseOK
<1>2. CASE Rotation(c, n)
  BY <1>1, <1>2 DEF Rotation, Onward
<1>3. CASE Withdrawal(c, n)
  BY <1>1, <1>3 DEF Withdrawal, Onward
<1>4. CASE Quiet(c, n)
  BY <1>1, <1>4 DEF Quiet, Onward, record
<1>5. CASE Turn(c, told, r, n)
  BY <1>1, <1>5 DEF Turn, Outcome, Delivery, Mirroring, Revocation, Unmirroring, Usage, Onward
<1> QED
  BY <1>2, <1>3, <1>4, <1>5 DEF Step

LEMMA KeptCalled ==
    ASSUME Shape, NEW d \in Callers, Kept(d), Onward
    PROVE  Called(d)'
<1>1. Called(d) /\ call[d].key \in Nat /\ issued \in Nat
  BY VaultsAssumption DEF Shape, CallsOK, BaseOK, Call
<1>2. call[d].key \in 1..issued => call[d].key \in 1..issued'
  BY <1>1 DEF Onward
<1> QED
  BY <1>1, <1>2 DEF Called, Kept, Alike, Onward

LEMMA MovedCalled ==
    ASSUME Shape, NEW c \in Callers, NEW told \in Tolds, NEW r \in Request, NEW n \in Call,
           Step(c, told, r, n)
    PROVE  Called(c)'
<1>1. call'[c] = n
  BY StepMoved DEF Moved
<1>2. Called(c) /\ call[c] \in Call /\ issued \in Nat /\ key \in 0..issued
  BY CallKnown DEF Shape, BaseOK
<1>3. kind \in {"aws", "gcp", "azure"}
  BY KindKnown DEF Shape
<1>4. Onward
  BY StepOnward
<1>5. CASE n = NoCall
  BY <1>1, <1>5, NoCallOK DEF Called
<1>6. CASE Rotation(c, n)
  <2>1. n.key \in 1..issued'
    BY <1>2, <1>6 DEF Rotation
  <2> QED
    BY <1>1, <1>6, <2>1 DEF Rotation, Called
<1>7. CASE Withdrawal(c, n)
  BY <1>1, <1>7 DEF Withdrawal, Called, FirstRevocation
<1>8. CASE Quiet(c, n) /\ n # NoCall
  BY <1>1, <1>2, <1>8 DEF Quiet, Called, record
<1>9. CASE Turn(c, told, r, n) /\ n # NoCall
  <2>1. issued' = issued /\ kind' = kind
    BY <1>9 DEF Turn
  <2>2. CASE Delivery(c, told, n)
    BY <1>1, <1>2, <2>1, <2>2 DEF Delivery, Called
  <2>3. CASE Revocation(c, told, n)
    BY <1>1, <1>2, <2>1, <2>3 DEF Revocation, Called
  <2>4. CASE Usage(c, told, n)
    BY <1>1, <1>2, <1>9, <2>1, <2>4 DEF Usage, Called
  <2> QED
    BY <1>9, <2>2, <2>3, <2>4 DEF Turn, Outcome, Mirroring, Unmirroring
<1> QED
  BY <1>5, <1>6, <1>7, <1>8, <1>9 DEF Step

(* The requests under way after a step of a caller.                        *)
LEMMA StepLate ==
    ASSUME Shape, NEW c \in Callers, NEW told \in Tolds, NEW r \in Request, NEW n \in Call,
           Step(c, told, r, n)
    PROVE  \/ late' \subseteq late
           \/ /\ Turn(c, told, r, n) /\ told = "lost" /\ Sends(c, r) /\ Requested(r)
              /\ late' \subseteq late \cup {r}
BY DEF Step, Rotation, Withdrawal, Quiet, Turn, Round

(* The vaults after a step of a caller.                                    *)
LEMMA StepSecrets ==
    ASSUME Shape, NEW c \in Callers, NEW told \in Tolds, NEW r \in Request, NEW n \in Call,
           Step(c, told, r, n)
    PROVE  \/ secrets' = secrets
           \/ /\ Turn(c, told, r, n) /\ Sends(c, r) /\ Requested(r) /\ Performed(r)
              /\ told = Told(r.vault, Reply(r)) /\ late' = late
BY DEF Step, Rotation, Withdrawal, Quiet, Turn, Round

LEMMA RequestedStill ==
    ASSUME Shape, Onward, NEW r \in Request, Requested(r)
    PROVE  Requested(r)'
<1>1. issued \in Nat /\ r.key \in Nat
  BY VaultsAssumption DEF Shape, BaseOK, Request
<1>2. r.key \in 1..issued => r.key \in 1..issued'
  BY <1>1 DEF Onward
<1> QED
  BY <1>2 DEF Requested, Onward, secretName, PerKey, Putting

LEMMA StepBase ==
    ASSUME Shape, NEW c \in Callers, NEW told \in Tolds, NEW r \in Request, NEW n \in Call,
           Step(c, told, r, n)
    PROVE  BaseOK'
<1>1. BaseOK /\ issued \in Nat /\ MaxKeys \in Nat /\ call[c] \in Call
  BY CallKnown DEF Shape
<1>2. CASE Rotation(c, n)
  BY <1>1, <1>2 DEF Rotation, BaseOK
<1>3. CASE Withdrawal(c, n)
  BY <1>1, <1>3 DEF Withdrawal, BaseOK
<1>4. CASE Quiet(c, n)
  BY <1>1, <1>4 DEF Quiet, BaseOK, record
<1>5. CASE Turn(c, told, r, n)
  <2>1. UNCHANGED <<kind, access, key, issued>> /\ faults' \in 0..MaxFaults
    BY <1>5 DEF Turn
  <2>2. state' \in {"active", "retired", "deleted"}
    BY <1>1, <1>5
    DEF Turn, Outcome, Delivery, Mirroring, Revocation, Unmirroring, Usage, BaseOK
  <2>3. call[c].before \in SUBSET Keys /\ replaced \in [Vault -> SUBSET Keys]
    BY <1>1 DEF Call, BaseOK
  <2>4. replaced' \in [Vault -> SUBSET Keys]
    <3>1. \/ replaced' = replaced
          \/ \E w \in Vault : replaced' = [replaced EXCEPT ![w] = replaced[w] \cup call[c].before]
      BY <1>5, <2>3
      DEF Turn, Outcome, Delivery, Mirroring, Revocation, Unmirroring, Usage, Vault
    <3> QED
      BY <2>3, <3>1
  <2>5. gone' \in [Vault -> BOOLEAN]
    <3>1. gone' = gone \/ \E w \in Vault : gone' = [gone EXCEPT ![w] = TRUE]
      BY <1>5
      DEF Turn, Outcome, Delivery, Mirroring, Revocation, Unmirroring, Usage, Vault
    <3> QED
      BY <1>1, <3>1 DEF BaseOK
  <2> QED
    BY <1>1, <2>1, <2>2, <2>4, <2>5 DEF BaseOK
<1> QED
  BY <1>2, <1>3, <1>4, <1>5 DEF Step

LEMMA StepShape ==
    ASSUME Shape, NEW c \in Callers, NEW told \in Tolds, NEW r \in Request, NEW n \in Call,
           Step(c, told, r, n)
    PROVE  Shape'
<1>1. Onward /\ Moved(c, n) /\ BaseOK'
  BY StepOnward, StepMoved, StepBase
<1>2. SecretsOK' /\ Filed'
  <2>1. CASE secrets' = secrets
    BY <1>1, <2>1 DEF Shape, SecretsOK, Filed, PerKey, Onward
  <2>2. CASE Requested(r) /\ Performed(r)
    BY <1>1, <2>2, PerformFiled DEF Shape, Onward, Performed
  <2> QED
    BY <2>1, <2>2, StepSecrets
<1>3. LateOK'
  <2>1. \A q \in late' : q \in Request /\ Requested(q)
    BY StepLate DEF Shape, LateOK
  <2> QED
    BY <1>1, <2>1, RequestedStill DEF LateOK
<1>4. CallsOK'
  <2>1. \A d \in Callers : Called(d)'
    BY <1>1, MovedCalled, KeptCalled DEF Moved
  <2> QED
    BY <1>1, <2>1 DEF CallsOK, Moved
<1> QED
  BY <1>1, <1>2, <1>3, <1>4 DEF Shape

LEMMA ArrivalShape ==
    ASSUME Shape, NEW r \in late, Arrival(r)
    PROVE  Shape'
<1>1. r \in Request /\ Requested(r)
  BY DEF Shape, LateOK
<1>2. SecretsOK' /\ Filed'
  BY <1>1, PerformFiled DEF Shape, Arrival, Performed
<1>3. LateOK' /\ CallsOK' /\ BaseOK'
  BY DEF Arrival, Shape, LateOK, CallsOK, BaseOK, Called, Requested, secretName, PerKey, Putting, record
<1> QED
  BY <1>2, <1>3 DEF Shape

LEMMA PermissionShape ==
    ASSUME Shape, Permission
    PROVE  Shape'
<1>1. Onward
  BY VaultsAssumption DEF Permission, Onward, record, Shape, BaseOK
<1>2. CallsOK'
  BY <1>1, KeptCalled DEF Permission, CallsOK
<1>3. BaseOK' /\ SecretsOK' /\ Filed' /\ LateOK'
  BY DEF Permission, Shape, BaseOK, SecretsOK, Filed, LateOK, Requested, secretName, PerKey, Putting, record
<1> QED
  BY <1>2, <1>3 DEF Shape

(* Stuttering.                                                             *)
LEMMA StutterShape ==
    ASSUME Shape, UNCHANGED vars
    PROVE  Shape'
BY DEF vars, record, Shape, BaseOK, SecretsOK, Filed, LateOK, CallsOK, Called, Requested, secretName,
       PerKey, Putting

LEMMA ShapeInit == Init => Shape
<1> SUFFICES ASSUME Init PROVE Shape
  OBVIOUS
<1>1. NoSecret \in Secret /\ NoSecret.status = "absent" /\ NoSecret.versions = <<>>
  BY DEF NoSecret, Secret
<1>2. BaseOK
  BY VaultsAssumption DEF Init, BaseOK
<1>3. SecretsOK /\ \A w \in Vault, n \in Names : secrets[w][n] = NoSecret
  BY <1>1 DEF Init, SecretsOK
<1>4. Filed
  BY <1>1, <1>3 DEF Filed
<1>5. LateOK
  BY DEF Init, LateOK
<1>6. call \in [Callers -> Call] /\ \A c \in Callers : call[c] = NoCall
  BY NoCallOK DEF Init
<1>7. CallsOK
  BY <1>6, NoCallOK DEF CallsOK, Called
<1> QED
  BY <1>2, <1>3, <1>4, <1>5, <1>7 DEF Shape

LEMMA ShapeStep ==
    ASSUME Shape, [Next]_vars
    PROVE  Shape'
BY NextSteps, StepShape, ArrivalShape, PermissionShape, StutterShape

(* Whatever callers and late requests do to the vaults, every variable     *)
(* keeps its shape, and a name that AWS has per key holds that key only.   *)
THEOREM VaultsTypeCorrect == Spec => []TypeOK
<1>1. Init => Shape
  BY ShapeInit
<1>2. Shape /\ [Next]_vars => Shape'
  BY ShapeStep
<1>3. Shape => TypeOK
  BY ShapeType
<1> QED
  BY <1>1, <1>2, <1>3, PTL DEF Spec

-----------------------------------------------------------------------------
(* Freshness.  What makes a key old is that nothing can file it any more:  *)
(* no call delivers it and no request on its way carries it.               *)

Settled(w, k) ==
    /\ k \in 1..issued
    /\ \A c \in Callers : Delivering(c, w) => call[c].key # k
    /\ \A r \in late : Putting(r) /\ r.vault = w => r.key # k

At(c, w) ==
    \/ w = "native" /\ call[c].pc \in {"put", "create", "again"}
    \/ w = "cluster" /\ call[c].pc = "mirror"

Reading(c) == call[c].pc \in {"read", "readMirror"}

(* A vault with one name never has an old key as its newest version.       *)
FreshIn(w) ==
    /\ \A k \in replaced[w] : Settled(w, k)
    /\ secrets[w][0].versions # <<>> => Newest(secrets[w][0]).key \notin replaced[w]
    /\ \A c \in Callers : At(c, w) => \A k \in call[c].before : Settled(w, k)
    /\ \A c \in Callers : Reading(c) => call[c].stale[w] \subseteq replaced[w]

NamedIn(w) == \A c \in Callers : Reading(c) => call[c].stale[w] = Keys \ {call[c].key}

Fresh == \A w \in Vault : IF PerKey(w) THEN NamedIn(w) ELSE FreshIn(w)

(* A new delivery is of a new key, and a new request is one of a delivery. *)
Orderly ==
    /\ issued \in Nat /\ issued' \in Nat /\ issued <= issued'
    /\ \A d \in Callers, w \in Vault : Delivering(d, w)' =>
         (Delivering(d, w) /\ call'[d].key = call[d].key) \/ call'[d].key = issued + 1
    /\ \A r \in late' : r \in late \/ (Putting(r) =>
         \E d \in Callers : Delivering(d, r.vault) /\ call[d].key = r.key)

LEMMA SettledStays ==
    ASSUME Orderly, NEW w \in Vault, NEW k, Settled(w, k)
    PROVE  Settled(w, k)'
<1>1. k \in 1..issued /\ k \in 1..issued' /\ k # issued + 1
  BY DEF Settled, Orderly
<1>2. ASSUME NEW d \in Callers, Delivering(d, w)'
      PROVE  call'[d].key # k
  BY <1>1, <1>2 DEF Orderly, Settled
<1>3. ASSUME NEW r \in late', Putting(r), r.vault = w
      PROVE  r.key # k
  BY <1>3 DEF Orderly, Settled
<1> QED
  BY <1>1, <1>2, <1>3 DEF Settled, Putting

LEMMA KeptDelivering ==
    ASSUME NEW d \in Callers, Kept(d), NEW w \in Vault
    PROVE  /\ Delivering(d, w)' <=> Delivering(d, w)
           /\ At(d, w)' <=> At(d, w)
           /\ Reading(d)' <=> Reading(d)
           /\ call'[d].key = call[d].key /\ call'[d].before = call[d].before
           /\ call'[d].stale = call[d].stale
BY DEF Kept, Alike, Delivering, At, Reading

LEMMA StepOrderly ==
    ASSUME Shape, NEW c \in Callers, NEW told \in Tolds, NEW r \in Request, NEW n \in Call,
           Step(c, told, r, n)
    PROVE  Orderly
<1>1. /\ Moved(c, n) /\ Onward /\ issued \in Nat
      /\ Called(c)
  BY StepMoved, StepOnward, CallKnown
<1>2. ASSUME NEW w \in Vault, Delivering(c, w)'
      PROVE  (Delivering(c, w) /\ call'[c].key = call[c].key) \/ call'[c].key = issued + 1
  <2>1. call'[c] = n /\ n.pc \in {"put", "create", "again", "mirror"} /\ (w = "native" => n.pc # "mirror")
    BY <1>1, <1>2 DEF Moved, Delivering
  <2>2. CASE Rotation(c, n)
    BY <2>1, <2>2 DEF Rotation
  <2>3. CASE Withdrawal(c, n)
    BY <2>1, <2>3 DEF Withdrawal, FirstRevocation
  <2>4. CASE Quiet(c, n)
    BY <2>1, <2>4, NoCallOK DEF Quiet
  <2>5. CASE Turn(c, told, r, n)
    <3>1. Delivery(c, told, n)
      BY <2>1, <2>5, NoCallOK DEF Turn, Outcome, Mirroring, Revocation, Unmirroring, Usage
    <3> QED
      BY <2>1, <3>1 DEF Delivery, Delivering
  <2> QED
    BY <2>2, <2>3, <2>4, <2>5 DEF Step
<1>3. \A d \in Callers, w \in Vault : Delivering(d, w)' =>
        (Delivering(d, w) /\ call'[d].key = call[d].key) \/ call'[d].key = issued + 1
  BY <1>1, <1>2, KeptDelivering DEF Moved
<1>4. ASSUME Sends(c, r), Requested(r), Putting(r), Turn(c, told, r, n)
      PROVE  Delivering(c, r.vault) /\ call[c].key = r.key
  <2>1. call[c].pc \in {"put", "create", "again", "mirror"}
    <3>1. call[c].pc \in {"put", "create", "again", "mirror", "find", "revoke", "unmirror", "read", "readMirror"}
      BY <1>4, CallKnown DEF Turn, Call
    <3> QED
      BY <1>4, <3>1 DEF Sends, Putting
  <2> QED
    BY <1>4, <2>1 DEF Sends, Delivering
<1>5. \A q \in late' : q \in late \/ (Putting(q) =>
        \E d \in Callers : Delivering(d, q.vault) /\ call[d].key = q.key)
  BY <1>4, StepLate
<1> QED
  BY <1>1, <1>3, <1>5 DEF Orderly, Onward

LEMMA ArrivalOrderly ==
    ASSUME Shape, NEW r \in late, Arrival(r)
    PROVE  Orderly
BY VaultsAssumption DEF Arrival, record, Orderly, Shape, BaseOK, Delivering

LEMMA PermissionOrderly ==
    ASSUME Shape, Permission
    PROVE  Orderly
<1>1. issued \in Nat /\ issued' = issued /\ late' = late
  BY VaultsAssumption DEF Permission, record, Shape, BaseOK
<1> QED
  BY <1>1, KeptDelivering DEF Permission, Orderly

(* Where a received request leaves the newest version.                     *)
LEMMA NewestAfter ==
    ASSUME Shape, NEW r \in Request, Requested(r), Performed(r), NEW w \in Vault, ~PerKey(w),
           secrets'[w][0].versions # <<>>
    PROVE  \/ /\ secrets[w][0].versions # <<>>
              /\ Newest(secrets'[w][0]).key = Newest(secrets[w][0]).key
              /\ ~(Reply(r) = "ok" /\ r.what = "put" /\ r.vault = w)
           \/ r.vault = w /\ Putting(r) /\ Newest(secrets'[w][0]).key = r.key
<1> DEFINE s == secrets[w][0]
           t == secrets'[w][0]
<1>1. 0 \in Names /\ (r.vault = w => r.name = 0)
  BY VaultsAssumption DEF Names, Requested, secretName
<1>2. s \in Secret /\ t \in Secret
  BY <1>1 DEF Shape, SecretsOK, Performed
<1>3. CASE r.vault # w \/ Reply(r) # "ok"
  <2>1. t = s
    BY <1>1, <1>3 DEF Performed
  <2> QED
    BY <1>3, <2>1
<1>4. CASE r.vault = w /\ Reply(r) = "ok"
  <2>1. Effect(r, s, t)
    BY <1>1, <1>4 DEF Performed, Target
  <2>2. t.versions # <<>>
    OBVIOUS
  <2> HIDE DEF s, t
  <2>3. CASE Putting(r) /\ t = Added(s, r.key)
    <3>1. r.key \in Keys
      BY <2>3, VaultsAssumption DEF Requested, Shape, BaseOK, Keys
    <3> QED
      BY <1>2, <1>4, <2>3, <3>1, AddedFacts DEF t
  <2>4. CASE r.what # "put" /\ t.versions = s.versions
    BY <2>2, <2>4 DEF Newest, s, t
  <2>5. CASE r.what = "disable" /\ Same(s, t)
    <3>1. s.versions # <<>> /\ Len(s.versions) \in 1..Len(s.versions)
      BY <1>2, <2>2, <2>5, SecretFacts DEF Same
    <3>2. Newest(t).key = Newest(s).key
      BY <2>5, <3>1 DEF Same, Newest
    <3> QED
      BY <2>5, <3>1, <3>2 DEF s, t
  <2>6. CASE t = NoSecret
    BY <2>2, <2>6 DEF NoSecret
  <2> QED
    BY <2>1, <2>3, <2>4, <2>5, <2>6 DEF Effect
<1> QED
  BY <1>3, <1>4

(* What is old after a step of a caller.                                   *)
LEMMA StepReplaced ==
    ASSUME Shape, NEW c \in Callers, NEW told \in Tolds, NEW r \in Request, NEW n \in Call,
           Step(c, told, r, n), NEW w \in Vault
    PROVE  \/ replaced'[w] = replaced[w]
           \/ /\ replaced'[w] = replaced[w] \cup call[c].before
              /\ At(c, w) /\ told = "ok" /\ call[c].pc \in {"put", "again", "mirror"}
              /\ Turn(c, told, r, n)
<1>1. replaced \in [Vault -> SUBSET Keys]
  BY DEF Shape, BaseOK
<1>2. CASE Turn(c, told, r, n)
  <2>1. CASE Delivery(c, told, n)
    BY <1>1, <1>2, <2>1 DEF Delivery, At
  <2>2. CASE Mirroring(c, told, n)
    BY <1>1, <1>2, <2>2 DEF Mirroring, At
  <2> QED
    BY <1>2, <2>1, <2>2 DEF Turn, Outcome, Revocation, Unmirroring, Usage
<1> QED
  BY <1>2 DEF Step, Rotation, Withdrawal, Quiet

(* What is being delivered after a step of a caller.                       *)
LEMMA StepBefore ==
    ASSUME Shape, NEW c \in Callers, NEW told \in Tolds, NEW r \in Request, NEW n \in Call,
           Step(c, told, r, n), NEW w \in Vault, At(c, w)'
    PROVE  \A k \in call'[c].before : Settled(w, k) \/ (At(c, w) /\ k \in call[c].before)
<1>1. call'[c] = n /\ n.pc \in {"put", "create", "again", "mirror"}
  BY StepMoved DEF Moved, At
<1>2. \A k \in Delivered(w) : Settled(w, k)
  BY DEF Delivered, Settled, Putting
<1>3. CASE Rotation(c, n)
  BY <1>1, <1>2, <1>3 DEF Rotation, At
<1>4. CASE Withdrawal(c, n)
  BY <1>1, <1>4 DEF Withdrawal, FirstRevocation
<1>5. CASE Quiet(c, n)
  BY <1>1, <1>5, NoCallOK DEF Quiet
<1>6. CASE Turn(c, told, r, n)
  <2>1. Delivery(c, told, n)
    BY <1>1, <1>6, NoCallOK DEF Turn, Outcome, Mirroring, Revocation, Unmirroring, Usage
  <2> QED
    BY <1>1, <1>2, <2>1 DEF Delivery, At
<1> QED
  BY <1>3, <1>4, <1>5, <1>6 DEF Step

(* What a use must not find after a step of a caller.                      *)
LEMMA StepReading ==
    ASSUME Shape, NEW c \in Callers, NEW told \in Tolds, NEW r \in Request, NEW n \in Call,
           Step(c, told, r, n), NEW w \in Vault, Reading(c)'
    PROVE  \/ call'[c].stale[w] = Stale(w, call'[c].key)
           \/ Reading(c) /\ call'[c].stale = call[c].stale /\ call'[c].key = call[c].key
<1>1. call'[c] = n /\ n.pc \in {"read", "readMirror"}
  BY StepMoved DEF Moved, Reading
<1>2. CASE Rotation(c, n)
  BY <1>1, <1>2 DEF Rotation
<1>3. CASE Withdrawal(c, n)
  BY <1>1, <1>3 DEF Withdrawal, FirstRevocation
<1>4. CASE Quiet(c, n)
  BY <1>1, <1>4, NoCallOK DEF Quiet
<1>5. CASE Turn(c, told, r, n)
  <2>1. Usage(c, told, n)
    BY <1>1, <1>5, NoCallOK DEF Turn, Outcome, Delivery, Mirroring, Revocation, Unmirroring
  <2> QED
    BY <1>1, <2>1, NoCallOK DEF Usage, Reading
<1> QED
  BY <1>2, <1>3, <1>4, <1>5 DEF Step

LEMMA StepFreshIn ==
    ASSUME Shape, NEW c \in Callers, NEW told \in Tolds, NEW r \in Request, NEW n \in Call,
           Step(c, told, r, n), NEW w \in Vault, ~PerKey(w), FreshIn(w)
    PROVE  FreshIn(w)'
<1>1. Orderly /\ Moved(c, n)
  BY StepOrderly, StepMoved
<1>2. \A k : Settled(w, k) => Settled(w, k)'
  BY <1>1, SettledStays
<1>3. \A k \in replaced'[w] : Settled(w, k)
  BY StepReplaced DEF FreshIn
<1>4. ASSUME secrets'[w][0].versions # <<>>
      PROVE  Newest(secrets'[w][0]).key \notin replaced'[w]
  <2>1. ASSUME NEW k \in replaced'[w], r.vault = w, Putting(r), Sends(c, r), Turn(c, told, r, n)
        PROVE  r.key # k
    <3>1. call[c].pc \in {"put", "create", "again", "mirror", "find", "revoke", "unmirror", "read", "readMirror"}
      BY <2>1, CallKnown DEF Turn, Call
    <3>2. Delivering(c, w) /\ call[c].key = r.key
      BY <2>1, <3>1 DEF Sends, Putting, Delivering
    <3> QED
      BY <1>3, <2>1, <3>2 DEF Settled
  <2>2. CASE replaced'[w] = replaced[w] /\ secrets' = secrets
    BY <1>4, <2>2 DEF FreshIn
  <2>3. CASE /\ Turn(c, told, r, n) /\ Sends(c, r) /\ Requested(r) /\ Performed(r)
             /\ told = Told(r.vault, Reply(r))
    <3>1. CASE r.vault = w /\ Putting(r) /\ Newest(secrets'[w][0]).key = r.key
      BY <2>1, <2>3, <3>1
    <3>2. CASE /\ secrets[w][0].versions # <<>>
               /\ Newest(secrets'[w][0]).key = Newest(secrets[w][0]).key
               /\ ~(Reply(r) = "ok" /\ r.what = "put" /\ r.vault = w)
      <4>1. replaced'[w] = replaced[w]
        <5> SUFFICES ASSUME At(c, w), told = "ok", call[c].pc \in {"put", "again", "mirror"} PROVE FALSE
          BY StepReplaced
        <5>1. r.what = "put" /\ r.vault = w
          BY <2>3 DEF Sends, At
        <5>2. Reply(r) = "ok"
          BY <2>3, ReplyRange, ToldFacts DEF Shape, Request
        <5> QED
          BY <3>2, <5>1, <5>2
      <4> QED
        BY <3>2, <4>1 DEF FreshIn
    <3> QED
      BY <1>4, <2>3, <3>1, <3>2, NewestAfter
  <2>4. CASE secrets' = secrets /\ ~Performed(r) /\ replaced'[w] # replaced[w]
    <3>1. Turn(c, told, r, n) /\ told = "ok"
      BY <2>4, StepReplaced
    <3> QED
      BY <2>4, <3>1 DEF Turn, Round
  <2>5. CASE secrets' = secrets /\ Performed(r) /\ replaced'[w] # replaced[w]
    <3>1. Turn(c, told, r, n) /\ told = "ok"
      BY <2>5, StepReplaced
    <3> QED
      BY <2>3, <3>1 DEF Turn, Round
  <2> QED
    BY <2>2, <2>3, <2>4, <2>5, StepSecrets
<1>5. ASSUME NEW d \in Callers, At(d, w)', NEW k \in call'[d].before
      PROVE  Settled(w, k)
  <2>1. CASE d = c
    BY <1>5, <2>1, StepBefore DEF FreshIn
  <2>2. CASE d # c
    BY <1>1, <1>5, <2>2, KeptDelivering DEF Moved, FreshIn
  <2> QED
    BY <2>1, <2>2
<1>6. ASSUME NEW d \in Callers, Reading(d)'
      PROVE  call'[d].stale[w] \subseteq replaced[w]
  <2>1. CASE d = c
    BY <1>6, <2>1, StepReading DEF FreshIn, Stale
  <2>2. CASE d # c
    BY <1>1, <1>6, <2>2, KeptDelivering DEF Moved, FreshIn
  <2> QED
    BY <2>1, <2>2
<1>7. replaced[w] \subseteq replaced'[w]
  BY StepReplaced
<1> QED
  BY <1>2, <1>3, <1>4, <1>5, <1>6, <1>7 DEF FreshIn, Newest

LEMMA StepFresh ==
    ASSUME Shape, Fresh, NEW c \in Callers, NEW told \in Tolds, NEW r \in Request, NEW n \in Call,
           Step(c, told, r, n)
    PROVE  Fresh'
<1> SUFFICES ASSUME NEW w \in Vault
             PROVE  (IF PerKey(w) THEN NamedIn(w) ELSE FreshIn(w))'
  BY DEF Fresh
<1>1. PerKey(w)' <=> PerKey(w)
  BY StepOnward DEF Onward, PerKey
<1>2. CASE ~PerKey(w)
  BY <1>1, <1>2, StepFreshIn DEF Fresh
<1>3. CASE PerKey(w)
  <2>1. NamedIn(w)
    BY <1>3 DEF Fresh
  <2>2. ASSUME NEW d \in Callers, Reading(d)'
        PROVE  call'[d].stale[w] = Keys \ {call'[d].key}
    <3>1. CASE d = c
      BY <1>3, <2>1, <2>2, <3>1, StepReading DEF NamedIn, Stale
    <3>2. CASE d # c
      BY <2>1, <2>2, <3>2, StepMoved, KeptDelivering DEF Moved, NamedIn
    <3> QED
      BY <3>1, <3>2
  <2> QED
    BY <1>1, <1>3, <2>2 DEF NamedIn
<1> QED
  BY <1>2, <1>3

LEMMA ArrivalFresh ==
    ASSUME Shape, Fresh, NEW r \in late, Arrival(r)
    PROVE  Fresh'
<1> SUFFICES ASSUME NEW w \in Vault
             PROVE  (IF PerKey(w) THEN NamedIn(w) ELSE FreshIn(w))'
  BY DEF Fresh
<1>1. r \in Request /\ Requested(r) /\ Performed(r)
  BY DEF Shape, LateOK, Arrival
<1>2. call' = call /\ replaced' = replaced /\ (PerKey(w)' <=> PerKey(w))
  BY DEF Arrival, PerKey
<1>3. CASE PerKey(w)
  BY <1>2, <1>3 DEF Fresh, NamedIn, Reading
<1>4. CASE ~PerKey(w)
  <2>1. FreshIn(w) /\ \A k : Settled(w, k) => Settled(w, k)'
    BY <1>4, ArrivalOrderly, SettledStays DEF Fresh
  <2>2. ASSUME secrets'[w][0].versions # <<>>
        PROVE  Newest(secrets'[w][0]).key \notin replaced[w]
    <3>1. CASE r.vault = w /\ Putting(r) /\ Newest(secrets'[w][0]).key = r.key
      BY <2>1, <3>1 DEF FreshIn, Settled
    <3> QED
      BY <1>1, <1>4, <2>1, <2>2, <3>1, NewestAfter DEF FreshIn
  <2>3. FreshIn(w)'
    BY <1>2, <2>1, <2>2 DEF FreshIn, At, Reading, Newest
  <2> QED
    BY <1>2, <1>4, <2>3
<1> QED
  BY <1>3, <1>4

LEMMA PermissionFresh ==
    ASSUME Shape, Fresh, Permission
    PROVE  Fresh'
<1> SUFFICES ASSUME NEW w \in Vault
             PROVE  (IF PerKey(w) THEN NamedIn(w) ELSE FreshIn(w))'
  BY DEF Fresh
<1>1. replaced' = replaced /\ secrets' = secrets /\ (PerKey(w)' <=> PerKey(w))
  BY DEF Permission, PerKey
<1>2. \A d \in Callers :
        /\ At(d, w)' <=> At(d, w)
        /\ Reading(d)' <=> Reading(d)
        /\ call'[d].key = call[d].key /\ call'[d].before = call[d].before
        /\ call'[d].stale = call[d].stale
  BY KeptDelivering DEF Permission
<1>3. CASE PerKey(w)
  BY <1>1, <1>2, <1>3 DEF Fresh, NamedIn
<1>4. CASE ~PerKey(w)
  <2>1. FreshIn(w) /\ \A k : Settled(w, k) => Settled(w, k)'
    BY <1>4, PermissionOrderly, SettledStays DEF Fresh
  <2>2. FreshIn(w)'
    BY <1>1, <1>2, <2>1 DEF FreshIn, Newest
  <2> QED
    BY <1>1, <1>4, <2>2
<1> QED
  BY <1>3, <1>4

LEMMA StutterFresh ==
    ASSUME Fresh, UNCHANGED vars
    PROVE  Fresh'
BY DEF vars, record, Fresh, FreshIn, NamedIn, PerKey, Settled, At, Reading, Delivering, Putting, Newest

(* What a use is given.                                                    *)
LEMMA StepUse ==
    ASSUME Shape, Fresh, StaleOnlyByOverlap, NEW c \in Callers, NEW told \in Tolds, NEW r \in Request,
           NEW n \in Call, Step(c, told, r, n)
    PROVE  StaleOnlyByOverlap'
<1>1. Moved(c, n) /\ call[c] \in Call /\ Called(c)
  BY StepMoved, CallKnown
<1>2. ASSUME NEW d \in Callers, d # c, call'[d].pc = "answer"
      PROVE  call'[d].key \notin call'[d].stale[call'[d].source] \cup {0}
  BY <1>1, <1>2 DEF Moved, Kept, Alike, StaleOnlyByOverlap
<1>3. ASSUME call'[c].pc = "answer"
      PROVE  call'[c].key \notin call'[c].stale[call'[c].source] \cup {0}
  <2>1. call'[c] = n /\ n.pc = "answer"
    BY <1>1, <1>3 DEF Moved
  <2>2. Turn(c, told, r, n) /\ Usage(c, told, n)
    <3>1. ~Rotation(c, n) /\ ~Withdrawal(c, n) /\ ~Quiet(c, n)
      BY <2>1, NoCallOK DEF Rotation, Withdrawal, FirstRevocation, Quiet
    <3> QED
      BY <2>1, <3>1, NoCallOK DEF Step, Turn, Outcome, Delivery, Mirroring, Revocation, Unmirroring
  <2> DEFINE w == IF call[c].pc = "read" THEN "native" ELSE "cluster"
             m == secretName(w, call[c].key)
             s == secrets[w][m]
  <2>3. /\ told = "ok" /\ n.key = Readable(w, m) /\ n.source = w /\ n.stale = call[c].stale
        /\ Reading(c)
    BY <2>1, <2>2, NoCallOK DEF Usage, Reading
  <2>4. w \in Vault /\ m \in Names /\ call[c].key \in Keys /\ m = (IF PerKey(w) THEN call[c].key ELSE 0)
    BY <1>1, <2>3, CallKnown, VaultsAssumption DEF secretName, Names, Keys, Call, Vault, Called, Reading
  <2>5. Sends(c, r) /\ told = Told(r.vault, Reply(r)) /\ r.vault \in Vault
    BY <2>2, <2>3 DEF Turn, Round, Request
  <2>6. Reply(r) = "ok"
    BY <2>3, <2>5, ReplyRange, ToldFacts DEF Shape
  <2>7. r.vault = w /\ r.name = m /\ r.what = "get"
    BY <2>3, <2>5 DEF Sends, Reading
  <2> HIDE DEF m, w
  <2>8. s.versions # <<>> /\ Newest(s).on /\ s.status # "leaving"
    BY <2>6, <2>7, ReplyOK DEF Target
  <2>9. s \in Secret /\ s.status = "kept"
    <3>1. s \in Secret /\ (s.status = "absent" => s.versions = <<>>)
      BY <2>4 DEF Shape, SecretsOK, Filed
    <3> QED
      BY <2>8, <3>1 DEF Secret
  <2>10. n.key = Newest(s).key
    BY <2>3, <2>8, <2>9 DEF Readable
  <2>11. n.key \in Keys /\ n.key # 0
    <3>1. Newest(s) \in Version
      BY <2>8, <2>9, SecretFacts DEF Newest
    <3> QED
      BY <2>10, <3>1 DEF Version, Keys
  <2>12. n.key \notin call[c].stale[w]
    <3>1. CASE PerKey(w)
      <4>1. call[c].stale[w] = Keys \ {call[c].key}
        BY <2>3, <2>4, <3>1 DEF Fresh, NamedIn
      <4>2. Len(s.versions) \in 1..Len(s.versions)
        BY <2>8, <2>9, SecretFacts
      <4>3. Newest(s).key = m
        BY <2>4, <3>1, <4>2 DEF Shape, Filed, Newest
      <4> QED
        BY <2>4, <2>10, <3>1, <4>1, <4>3
    <3>2. CASE ~PerKey(w)
      BY <2>3, <2>4, <2>8, <2>10, <3>2 DEF Fresh, FreshIn
    <3> QED
      BY <3>1, <3>2
  <2> QED
    BY <2>1, <2>3, <2>11, <2>12
<1> QED
  BY <1>2, <1>3 DEF StaleOnlyByOverlap

Served == Shape /\ Fresh /\ StaleOnlyByOverlap

LEMMA ServedInit == Init => Served
<1> SUFFICES ASSUME Init PROVE Served
  OBVIOUS
<1>1. Shape
  BY ShapeInit
<1>2. /\ \A w \in Vault : replaced[w] = {} /\ secrets[w][0] = NoSecret
      /\ \A c \in Callers : call[c].pc = "idle"
  BY NoCallOK, VaultsAssumption DEF Init, Names
<1>3. NoSecret.versions = <<>>
  BY DEF NoSecret
<1>4. Fresh
  BY <1>2, <1>3 DEF Fresh, FreshIn, NamedIn, At, Reading
<1> QED
  BY <1>1, <1>2, <1>4 DEF Served, StaleOnlyByOverlap

LEMMA ServedStep ==
    ASSUME Served, [Next]_vars
    PROVE  Served'
<1>1. Shape /\ Fresh /\ StaleOnlyByOverlap /\ Shape'
  BY ShapeStep DEF Served
<1>2. Fresh'
  BY <1>1, NextSteps, StepFresh, ArrivalFresh, PermissionFresh, StutterFresh
<1>3. (\E r \in late : Arrival(r)) => StaleOnlyByOverlap'
  BY <1>1 DEF Arrival, StaleOnlyByOverlap
<1>4. Permission => StaleOnlyByOverlap'
  BY <1>1 DEF Permission, Kept, Alike, StaleOnlyByOverlap
<1>5. UNCHANGED vars => StaleOnlyByOverlap'
  BY <1>1 DEF vars, StaleOnlyByOverlap
<1>6. StaleOnlyByOverlap'
  BY <1>1, <1>3, <1>4, <1>5, NextSteps, StepUse
<1> QED
  BY <1>1, <1>2, <1>6 DEF Served

(* A use returns a secret older than a confirmed one only where their      *)
(* deliveries overlapped: if the delivery that the vault confirmed before  *)
(* the use began had found the older one's over and done with, the use     *)
(* does not return the older secret (StoreSecret, ReadSecret), whatever    *)
(* answers are lost and whatever other requests are still on their way.    *)
THEOREM StaleOnlyAfterOverlap == Spec => []StaleOnlyByOverlap
<1>1. Init => Served
  BY ServedInit
<1>2. Served /\ [Next]_vars => Served'
  BY ServedStep
<1>3. Served => StaleOnlyByOverlap
  BY DEF Served
<1> QED
  BY <1>1, <1>2, <1>3, PTL DEF Spec

-----------------------------------------------------------------------------
(* Calm.  A call that nothing disturbed is the only one that changes the   *)
(* vaults, and knows what it will find there.                              *)

Landing(c) ==
    LET n == secretName("native", call[c].key)
    IN  /\ call[c].pc = "create" => secrets["native"][n].status = "absent"
        /\ call[c].pc = "again" => secrets["native"][n].status = "kept"
        /\ call[c].pc = "mirror" => Readable("native", n) = call[c].key

Alone(c) == Changing(c) /\ \A e \in Callers : e # c => ~Changing(e)

Still(c) ==
    /\ call[c].pc # "unmirror" => \A r \in late : r.what = "get"
    /\ \A r \in late : ~Putting(r)

Located(c) ==
    call[c].pc = "revoke" /\ kind = "azure" => call[c].version = Len(secrets["native"][0].versions)

Calm ==
    \A c \in Callers : call[c].calm =>
      Alone(c) /\ Still(c) /\ Located(c) /\ (access = "open" => Landing(c))

(* A call that goes on as before while the vaults stay as they are.        *)
LEMMA KeptCalm ==
    ASSUME Calm, NEW d \in Callers, Kept(d), call'[d].calm,
           UNCHANGED <<kind, access>>, secrets' = secrets \/ call[d].pc = "unmirror",
           \A e \in Callers : e # d => ~Changing(e)',
           \A r \in late' : r \in late \/ r.what = "get"
    PROVE  (Alone(d) /\ Still(d) /\ Located(d) /\ (access = "open" => Landing(d)))'
<1>1. Alone(d) /\ Still(d) /\ Located(d) /\ (access = "open" => Landing(d))
  BY DEF Calm, Kept, Alike
<1>2. /\ call'[d].pc = call[d].pc /\ call'[d].op = call[d].op /\ call'[d].key = call[d].key
      /\ call'[d].version = call[d].version
  BY DEF Kept, Alike
<1>3. Alone(d)'
  BY <1>1, <1>2 DEF Alone, Changing
<1>4. Still(d)'
  BY <1>1, <1>2 DEF Still, Putting
<1>5. Located(d)'
  BY <1>1, <1>2 DEF Located
<1>6. (access = "open" => Landing(d))'
  BY <1>1, <1>2 DEF Landing, secretName, PerKey, Readable, Newest
<1> QED
  BY <1>3, <1>4, <1>5, <1>6

(* A delivery without a disturbance goes through.                          *)
LEMMA DeliveryLands ==
    ASSUME Shape, NEW c \in Callers, NEW told \in Tolds, NEW r \in Request, NEW n \in Call,
           Turn(c, told, r, n), Delivery(c, told, n), n.calm, call[c].calm, access = "open", Landing(c)
    PROVE  Landing(c)'
<1> DEFINE m == secretName("native", call[c].key)
           s == secrets["native"][m]
           t == secrets'["native"][m]
<1>1. call'[c] = n /\ n.key = call[c].key /\ kind' = kind
  BY StepMoved DEF Step, Moved, Delivery, Turn
<1>2. /\ call[c].pc \in {"put", "create", "again"} /\ call[c].key \in Keys
      /\ n.pc \in {"create", "again", "mirror"}
  BY CallKnown DEF Delivery, Called, Keys
<1>3. /\ Sends(c, r) /\ Requested(r) /\ Performed(r) /\ told = Told(r.vault, Reply(r))
  BY <1>2 DEF Turn, Round, Delivery
<1>4. /\ r.vault = "native" /\ r.name = m /\ r.key = call[c].key /\ Putting(r)
      /\ call[c].pc \in {"put", "again"} => r.what = "put"
      /\ call[c].pc = "create" => r.what = "create"
  BY <1>2, <1>3 DEF Sends, Putting
<1>5. "native" \in Vault /\ m \in Names /\ s \in Secret /\ t \in Secret
  <2>1. "native" \in Vault /\ m \in Names
    BY <1>2, VaultsAssumption DEF Vault, secretName, Names, Keys
  <2> QED
    BY <1>3, <2>1 DEF Shape, SecretsOK, Performed
<1>6. s.status \in {"absent", "kept"}
  <2>1. s.status = "leaving" => PerKey("native") /\ m = 0
    BY <1>5 DEF Shape, Filed
  <2>2. PerKey("native") => m # 0
    BY <1>2 DEF secretName, Keys
  <2> QED
    BY <1>5, <2>1, <2>2 DEF Secret
<1>7. Target(r) = s
  BY <1>4 DEF Target
<1>8. CASE Reply(r) = "ok"
  <2>1. told = "ok"
    BY <1>3, <1>5, <1>8, <1>4, ToldFacts DEF Shape
  <2>2. Effect(r, s, t)
    BY <1>3, <1>4, <1>7, <1>8 DEF Performed
  <2>3. ASSUME t = Added(s, r.key)
        PROVE  t.status = "kept" /\ t.versions # <<>> /\ Newest(t).on /\ Newest(t).key = call[c].key
    <3> HIDE DEF s, t
    <3> QED BY <1>2, <1>4, <1>5, <2>3, AddedFacts
  <2>4. CASE call[c].pc = "create"
    <3>1. n.pc = "again" /\ t.status = "kept"
      BY <1>4, <2>1, <2>2, <2>3, <2>4 DEF Delivery, Effect
    <3> QED
      BY <1>1, <3>1 DEF Landing, secretName, PerKey
  <2>5. CASE call[c].pc \in {"put", "again"}
    <3>1. n.pc = "mirror" /\ t = Added(s, r.key)
      BY <1>4, <2>1, <2>2, <2>5 DEF Delivery, Effect
    <3>2. t.status = "kept" /\ t.versions # <<>> /\ Newest(t).on /\ Newest(t).key = call[c].key
      BY <2>3, <3>1
    <3>3. (Readable("native", m) = call[c].key)'
      BY <1>1, <3>2 DEF Readable, Newest, secretName, PerKey
    <3> QED
      BY <1>1, <3>1, <3>3 DEF Landing, secretName, PerKey
  <2> QED
    BY <1>2, <2>4, <2>5
<1>9. CASE Reply(r) # "ok"
  <2>1. call[c].pc = "put" /\ s.status = "absent" /\ Reply(r) = "absent" /\ CreatesFirst(r)
    <3>1. \/ r.what = "create" /\ s.status = "kept"
          \/ r.what = "put" /\ s.status = "absent" /\ CreatesFirst(r) /\ Reply(r) = "absent"
      <4> HIDE DEF s
      <4> QED BY <1>4, <1>6, <1>7, <1>9 DEF Reply, Putting
    <3> QED
      BY <1>2, <1>4, <3>1 DEF Landing
  <2>2. told = "absent"
    BY <1>3, <1>4, <1>5, <2>1, ToldFacts DEF Shape, CreatesFirst
  <2>3. n.pc = "create" /\ secrets' = secrets
    BY <1>3, <1>9, <2>1, <2>2 DEF Delivery, Performed
  <2> QED
    BY <1>1, <2>1, <2>3 DEF Landing, secretName, PerKey
<1> QED
  BY <1>8, <1>9

(* The calls that are calm while another one takes a step.                 *)
LEMMA OthersCalm ==
    ASSUME Shape, Calm, NEW c \in Callers, NEW told \in Tolds, NEW r \in Request, NEW n \in Call,
           Step(c, told, r, n), NEW d \in Callers, d # c, call'[d].calm
    PROVE  (Alone(d) /\ Still(d) /\ Located(d) /\ (access = "open" => Landing(d)))'
<1>1. Moved(c, n) /\ Called(c) /\ call[c] \in Call
  BY StepMoved, CallKnown
<1>2. Kept(d) /\ call[d].calm
  BY <1>1 DEF Moved, Kept, Alike
<1>3. Alone(d) /\ ~Changing(c)
  BY <1>2 DEF Calm, Alone
<1>4. Quiet(c, n) \/ Turn(c, told, r, n)
  BY DEF Step, Rotation, Withdrawal, Begun
<1>5. CASE Quiet(c, n)
  <2>1. n.op \in {"none", "use"}
    BY <1>5, NoCallOK DEF Quiet
  <2>2. \A e \in Callers : e # d => ~Changing(e)'
    BY <1>1, <1>3, <2>1 DEF Moved, Kept, Alike, Alone, Changing
  <2> QED
    BY <1>2, <1>5, <2>2, KeptCalm DEF Quiet
<1>6. CASE Turn(c, told, r, n)
  <2>1. call[c].pc \in {"read", "readMirror"}
    BY <1>1, <1>3, <1>6 DEF Turn, Called, Changing, Call
  <2>2. n.op \in {"none", "use"}
    BY <1>6, <2>1, NoCallOK DEF Turn, Outcome, Delivery, Mirroring, Revocation, Unmirroring, Usage
  <2>3. \A e \in Callers : e # d => ~Changing(e)'
    BY <1>1, <1>3, <2>2 DEF Moved, Kept, Alike, Alone, Changing
  <2>4. r.what = "get"
    BY <1>6, <2>1 DEF Turn, Round, Sends
  <2>5. secrets' = secrets /\ \A q \in late' : q \in late \/ q.what = "get"
    BY <1>6, <2>4 DEF Turn, Round, Performed
  <2> QED
    BY <1>2, <1>6, <2>3, <2>5, KeptCalm DEF Turn
<1> QED
  BY <1>4, <1>5, <1>6

(* The call that takes the step.                                           *)
LEMMA MoverCalm ==
    ASSUME Shape, Calm, NEW c \in Callers, NEW told \in Tolds, NEW r \in Request, NEW n \in Call,
           Step(c, told, r, n), n.calm
    PROVE  (Alone(c) /\ Still(c) /\ Located(c) /\ (access = "open" => Landing(c)))'
<1>1. Moved(c, n) /\ Called(c) /\ call[c] \in Call /\ call'[c] = n
  BY StepMoved, CallKnown DEF Moved
<1>2. ASSUME Begun(c, n), late' = late, kind' = kind, n.op \in {"rotate", "retire", "delete"},
             n.pc \in {"put", "find", "revoke"}, n.pc = "revoke" => kind # "azure"
      PROVE  (Alone(c) /\ Still(c) /\ Located(c) /\ (access = "open" => Landing(c)))'
  <2>1. late' = {} /\ \A e \in Callers : ~Changing(e)
    BY <1>2 DEF Begun
  <2>2. Alone(c)'
    BY <1>1, <1>2, <2>1 DEF Moved, Kept, Alike, Alone, Changing
  <2>3. Still(c)' /\ Located(c)' /\ Landing(c)'
    BY <1>1, <1>2, <2>1 DEF Still, Located, Landing
  <2> QED
    BY <2>2, <2>3
<1>3. CASE Rotation(c, n)
  BY <1>2, <1>3 DEF Rotation
<1>4. CASE Withdrawal(c, n)
  BY <1>2, <1>4 DEF Withdrawal, FirstRevocation
<1>5. ~Quiet(c, n)
  BY NoCallOK DEF Quiet
<1>6. CASE Turn(c, told, r, n)
  <2>1. (Delivery(c, told, n) \/ Revocation(c, told, n)) /\ UNCHANGED <<kind, access>>
    BY <1>1, <1>6, NoCallOK DEF Turn, Outcome, Mirroring, Unmirroring, Usage
  <2>2. call[c].calm
    <3>1. CASE Delivery(c, told, n)
      BY <3>1, Zenon DEF Delivery
    <3>2. CASE Revocation(c, told, n)
      BY <3>2 DEF Revocation
    <3> QED
      BY <2>1, <3>1, <3>2
  <2>3. Alone(c) /\ Still(c) /\ (access = "open" => Landing(c))
    BY <2>2 DEF Calm
  <2>4. n.op = call[c].op
    BY <1>1, <2>1 DEF Delivery, Revocation, Called
  <2>5. Alone(c)'
    BY <1>1, <2>3, <2>4 DEF Moved, Kept, Alike, Alone, Changing
  <2>6. CASE Delivery(c, told, n)
    <3>1. told # "lost"
      BY <2>6 DEF Delivery
    <3>2. late' = late
      BY <1>6, <3>1 DEF Turn, Round
    <3>3. Still(c)' /\ Located(c)'
      BY <1>1, <2>3, <2>6, <3>2 DEF Delivery, Still, Located, Putting
    <3>4. access = "open" => Landing(c)'
      BY <1>6, <2>2, <2>3, <2>6, DeliveryLands
    <3> QED
      BY <2>1, <2>5, <3>3, <3>4
  <2>7. CASE Revocation(c, told, n)
    <3>1. /\ call[c].pc = "find" => r.what = "get"
          /\ ~Putting(r)
          /\ late' \subseteq late \cup {r}
      BY <1>6, <2>7 DEF Turn, Round, Sends, Revocation, Putting
    <3>2. Still(c)'
      BY <1>1, <2>3, <2>7, <3>1 DEF Revocation, Still, Putting
    <3>3. Located(c)'
      <4>1. n.pc = "revoke" => secrets' = secrets
        BY <1>6, <2>7, <3>1 DEF Turn, Round, Performed, Revocation
      <4> QED
        BY <1>1, <2>7, <4>1 DEF Revocation, Located
    <3>4. Landing(c)'
      BY <1>1, <2>7 DEF Revocation, Landing
    <3> QED
      BY <2>5, <3>2, <3>3, <3>4
  <2> QED
    BY <2>1, <2>6, <2>7
<1> QED
  BY <1>3, <1>4, <1>5, <1>6 DEF Step

LEMMA CalmStep ==
    ASSUME Shape, Calm, [Next]_vars
    PROVE  Calm'
<1> SUFFICES ASSUME NEW d \in Callers, call'[d].calm
             PROVE  (Alone(d) /\ Still(d) /\ Located(d) /\ (access = "open" => Landing(d)))'
  BY DEF Calm
<1>1. ASSUME NEW c \in Callers, NEW told \in Tolds, NEW r \in Request, NEW n \in Call,
             Step(c, told, r, n)
      PROVE  (Alone(d) /\ Still(d) /\ Located(d) /\ (access = "open" => Landing(d)))'
  <2>1. CASE d # c
    BY <1>1, <2>1, OthersCalm
  <2>2. CASE d = c
    BY <1>1, <2>2, MoverCalm, StepMoved DEF Moved
  <2> QED
    BY <2>1, <2>2
<1>2. ASSUME NEW r \in late, Arrival(r)
      PROVE  (Alone(d) /\ Still(d) /\ Located(d) /\ (access = "open" => Landing(d)))'
  <2>1. call' = call /\ late' \subseteq late /\ UNCHANGED <<kind, access>> /\ Performed(r)
    BY <1>2 DEF Arrival
  <2>2. Kept(d) /\ Alone(d) /\ Still(d)
    BY <2>1, AlikeItself DEF Kept, Calm
  <2>3. secrets' = secrets \/ call[d].pc = "unmirror"
    BY <2>1, <2>2 DEF Still, Performed
  <2>4. \A e \in Callers : e # d => ~Changing(e)'
    BY <2>1, <2>2 DEF Alone, Changing
  <2> QED
    BY <2>1, <2>2, <2>3, <2>4, KeptCalm
<1>3. CASE UNCHANGED vars
  <2>1. Kept(d) /\ Alone(d)
    BY <1>3, AlikeItself DEF vars, Kept, Calm
  <2>2. \A e \in Callers : e # d => ~Changing(e)'
    BY <1>3, <2>1 DEF vars, Alone, Changing
  <2> QED
    BY <1>3, <2>1, <2>2, KeptCalm DEF vars
<1>4. ~Permission
  BY DEF Permission
<1> QED
  BY <1>1, <1>2, <1>3, <1>4, NextSteps

(* A delivery that nothing disturbed can be read back from the native      *)
(* vault when it turns to the cluster's, also the first one of an identity, *)
(* which has to create the secret, and whatever the provider.              *)
THEOREM LoneDeliveriesLand == Spec => []LoneDeliveryLands
<1>1. Init => Shape /\ Calm
  BY ShapeInit, NoCallOK DEF Init, Calm
<1>2. Shape /\ Calm /\ [Next]_vars => Shape' /\ Calm'
  BY ShapeStep, CalmStep
<1>3. Calm => LoneDeliveryLands
  BY DEF Calm, Landing, LoneDeliveryLands
<1> QED
  BY <1>1, <1>2, <1>3, PTL DEF Spec

-----------------------------------------------------------------------------
(* Revocation.  Once a vault has confirmed one that nothing disturbed, the *)
(* identity is withdrawn and nothing is left that could file a key.        *)

Withdrawn ==
    /\ state # "active"
    /\ \A c \in Callers : ~Delivering(c, "cluster")
    /\ \A r \in late : ~Putting(r)

Gone ==
    \A w \in Vault : gone[w] => Withdrawn /\ (~PerKey(w) => Readable(w, 0) = 0)

(* What no longer can be read stays so, unless it is filed again.          *)
LEMMA StaysUnreadable ==
    ASSUME NEW r, NEW s \in Secret, NEW t \in Secret, Effect(r, s, t), ~Putting(r), ReadIn(s) = 0
    PROVE  ReadIn(t) = 0
<1>1. s.versions # <<>> => Newest(s).key # 0
  BY SecretFacts DEF Newest, Version, Keys
<1>2. CASE r.what = "disable" /\ t.status = s.status /\ Same(s, t)
  <2> SUFFICES ASSUME t.status = "kept", t.versions # <<>>, Newest(t).on PROVE FALSE
    BY DEF ReadIn
  <2>1. s.versions # <<>> /\ Len(s.versions) \in 1..Len(s.versions)
    BY <1>2, SecretFacts DEF Same
  <2>2. Newest(s).on
    BY <1>2, <2>1 DEF Same, Newest
  <2> QED
    BY <1>1, <1>2, <2>1, <2>2 DEF ReadIn
<1>3. CASE t.status = "leaving"
  BY <1>3 DEF ReadIn
<1>4. CASE t = NoSecret
  BY <1>4 DEF ReadIn, NoSecret
<1>5. CASE t = s
  BY <1>5
<1> QED
  BY <1>2, <1>3, <1>4, <1>5 DEF Effect, Putting

LEMMA UnreadableAfter ==
    ASSUME Shape, NEW r \in Request, Performed(r), ~Putting(r), NEW w \in Vault, Readable(w, 0) = 0
    PROVE  Readable(w, 0)' = 0
<1>1. /\ 0 \in Names
      /\ Readable(w, 0) = ReadIn(secrets[w][0])
      /\ Readable(w, 0)' = ReadIn(secrets'[w][0])
  BY VaultsAssumption DEF Names, Readable, ReadIn, Newest
<1>2. secrets[w][0] \in Secret /\ secrets'[w][0] \in Secret
  BY <1>1 DEF Shape, SecretsOK, Performed
<1>3. CASE secrets'[w][0] = secrets[w][0]
  BY <1>1, <1>3
<1>4. CASE secrets'[w][0] # secrets[w][0]
  <2>1. Effect(r, secrets[w][0], secrets'[w][0])
    BY <1>1, <1>4 DEF Performed, Target
  <2> QED
    BY <1>1, <1>2, <2>1, StaysUnreadable
<1> QED
  BY <1>3, <1>4

LEMMA SendsPutting ==
    ASSUME Shape, NEW c \in Callers, NEW r \in Request, Sends(c, r), Putting(r),
           call[c].pc \notin {"idle", "answer"}
    PROVE  Delivering(c, "cluster")
<1>1. call[c].pc \in {"put", "create", "again", "mirror", "find", "revoke", "unmirror", "read", "readMirror"}
  BY CallKnown DEF Call
<1> QED
  BY <1>1 DEF Sends, Putting, Delivering

(* Nothing is delivered after a withdrawal.                                *)
LEMMA StepWithdrawn ==
    ASSUME Shape, Withdrawn, NEW c \in Callers, NEW told \in Tolds, NEW r \in Request, NEW n \in Call,
           Step(c, told, r, n)
    PROVE  Withdrawn'
<1>1. Moved(c, n) /\ Onward
  BY StepMoved, StepOnward
<1>2. ~Delivering(c, "cluster") /\ call'[c] = n
  BY <1>1 DEF Withdrawn, Moved
<1>3. n.pc \notin {"put", "create", "again", "mirror"}
  <2>1. CASE n = NoCall
    BY <2>1, NoCallOK
  <2>2. CASE n # NoCall
    BY <1>2, <2>2
    DEF Withdrawn, Step, Rotation, Withdrawal, FirstRevocation, Quiet, Turn, Outcome, Delivery,
        Mirroring, Revocation, Unmirroring, Usage, Delivering
  <2> QED
    BY <2>1, <2>2
<1>4. ~Delivering(c, "cluster")'
  BY <1>2, <1>3 DEF Delivering
<1>5. \A d \in Callers : ~Delivering(d, "cluster")'
  BY <1>1, <1>4, KeptDelivering DEF Moved, Withdrawn, Vault
<1>6. \A q \in late' : ~Putting(q)
  BY <1>2, StepLate, SendsPutting DEF Withdrawn, Turn
<1> QED
  BY <1>1, <1>5, <1>6 DEF Withdrawn, Onward, Putting

(* A confirmed revocation.                                                 *)
LEMMA StepGone ==
    ASSUME Shape, Calm, NEW c \in Callers, NEW told \in Tolds, NEW r \in Request, NEW n \in Call,
           Step(c, told, r, n), NEW w \in Vault, gone'[w], ~gone[w]
    PROVE  Withdrawn /\ ~Putting(r) /\ (~PerKey(w) => Readable(w, 0)' = 0)
<1>1. gone \in [Vault -> BOOLEAN] /\ Called(c) /\ call[c] \in Call /\ 0 \in Names
  BY CallKnown, VaultsAssumption DEF Shape, BaseOK, Names
<1>2. /\ Turn(c, told, r, n) /\ call[c].calm /\ told \in {"ok", "absent"}
      /\ \/ w = "native" /\ call[c].pc = "revoke"
         \/ w = "cluster" /\ call[c].pc = "unmirror"
      /\ told = "absent" /\ w = "native" => kind # "azure"
  <2>1. Turn(c, told, r, n)
    BY DEF Step, Rotation, Withdrawal, Quiet
  <2>2. CASE Revocation(c, told, n)
    BY <1>1, <2>1, <2>2 DEF Revocation, Vault
  <2>3. CASE Unmirroring(c, told, n)
    BY <1>1, <2>1, <2>3 DEF Unmirroring, Vault
  <2> QED
    BY <2>1, <2>2, <2>3 DEF Turn, Outcome, Delivery, Mirroring, Usage
<1>3. Alone(c) /\ Still(c) /\ Located(c)
  BY <1>2 DEF Calm
<1>4. Withdrawn
  <2>1. state # "active" /\ ~Delivering(c, "cluster")
    BY <1>1, <1>2 DEF Called, Delivering
  <2>2. ASSUME NEW d \in Callers, Delivering(d, "cluster")
        PROVE  Changing(d)
    BY <2>2, CallKnown DEF Delivering, Called, Changing
  <2> QED
    BY <1>3, <2>1, <2>2 DEF Alone, Still, Withdrawn
<1>5. /\ Sends(c, r) /\ Requested(r) /\ Performed(r) /\ told = Told(r.vault, Reply(r))
  BY <1>2 DEF Turn, Round
<1>6. /\ r.vault = w /\ r.key = 0 /\ r.name = 0 /\ r.version = call[c].version
      /\ w = "native" => r.what = IF kind = "aws" THEN "delete" ELSE "disable"
      /\ w = "cluster" => r.what = "delete"
  BY <1>1, <1>2, <1>5 DEF Sends, Called, secretName
<1>7. r.what \in {"delete", "disable"} /\ ~Putting(r)
  BY <1>6 DEF Putting, Vault
<1>8. ASSUME ~PerKey(w)
      PROVE  Readable(w, 0)' = 0
  <2> DEFINE s == secrets[w][0]
             t == secrets'[w][0]
  <2>1. /\ s \in Secret /\ t \in Secret /\ Target(r) = s
        /\ Readable(w, 0) = ReadIn(s) /\ Readable(w, 0)' = ReadIn(t)
    BY <1>1, <1>5, <1>6 DEF Shape, SecretsOK, Performed, Target, Readable, ReadIn, Newest
  <2>2. /\ Reply(r) \in {"ok", "absent", "denied", "refused"}
        /\ told = "ok" <=> Reply(r) = "ok"
        /\ told = "absent" => Reply(r) = "absent"
    BY <1>5, <1>6, ReplyRange, ToldFacts DEF Shape
  <2>3. CASE Reply(r) = "ok"
    <3>1. Effect(r, s, t)
      BY <1>5, <1>6, <2>1, <2>3 DEF Performed
    <3>2. CASE w = "native"
      <4>1. kind # "aws" /\ r.what = "disable"
        BY <1>6, <1>8, <3>2 DEF PerKey
      <4>2. kind = "gcp" \/ r.version = Len(s.versions)
        BY <1>2, <1>3, <1>6, <3>2, <4>1, KindKnown DEF Located, Shape
      <4>3. ~Newest(t).on
        BY <3>1, <4>1, <4>2 DEF Effect, Putting
      <4> QED
        BY <2>1, <4>3 DEF ReadIn
    <3>3. CASE w = "cluster"
      <4>1. t = NoSecret
        BY <1>6, <3>1, <3>3 DEF Effect, Putting
      <4> QED
        BY <2>1, <4>1 DEF ReadIn, NoSecret
    <3> QED
      BY <3>2, <3>3 DEF Vault
  <2>4. CASE Reply(r) = "absent"
    <3>1. s.versions = <<>>
      BY <1>7, <2>1, <2>4, ReplyRange
    <3>2. t = s
      BY <1>5, <2>4 DEF Performed
    <3> QED
      BY <2>1, <3>1, <3>2 DEF ReadIn
  <2> QED
    BY <1>2, <2>2, <2>3, <2>4
<1> QED
  BY <1>4, <1>7, <1>8

LEMMA GoneStep ==
    ASSUME Shape, Calm, Gone, [Next]_vars
    PROVE  Gone'
<1> SUFFICES ASSUME NEW w \in Vault, gone'[w]
             PROVE  Withdrawn' /\ (~PerKey(w)' => Readable(w, 0)' = 0)
  BY DEF Gone
<1>1. ASSUME NEW c \in Callers, NEW told \in Tolds, NEW r \in Request, NEW n \in Call,
             Step(c, told, r, n)
      PROVE  Withdrawn' /\ (~PerKey(w)' => Readable(w, 0)' = 0)
  <2>1. PerKey(w)' <=> PerKey(w)
    BY <1>1, StepOnward DEF Onward, PerKey
  <2>2. CASE ~gone[w]
    BY <1>1, <2>1, <2>2, StepGone, StepWithdrawn
  <2>3. CASE gone[w]
    <3>1. Withdrawn /\ Withdrawn'
      BY <1>1, <2>3, StepWithdrawn DEF Gone
    <3>2. secrets' = secrets \/ (Performed(r) /\ ~Putting(r))
      BY <1>1, <3>1, StepSecrets, SendsPutting DEF Withdrawn, Turn
    <3>3. ~PerKey(w) => Readable(w, 0)' = 0
      BY <2>3, <3>2, UnreadableAfter DEF Gone, Readable, Newest
    <3> QED
      BY <2>1, <3>1, <3>3
  <2> QED
    BY <2>2, <2>3
<1>2. ASSUME NEW r \in late, Arrival(r)
      PROVE  Withdrawn' /\ (~PerKey(w)' => Readable(w, 0)' = 0)
  <2>1. /\ UNCHANGED <<kind, gone, call, state>> /\ late' \subseteq late /\ Performed(r)
        /\ r \in Request
    BY <1>2 DEF Arrival, record, Shape, LateOK
  <2>2. Withdrawn /\ (~PerKey(w) => Readable(w, 0) = 0)
    BY <2>1 DEF Gone
  <2>3. Withdrawn' /\ ~Putting(r)
    BY <2>1, <2>2 DEF Withdrawn, Delivering, Putting
  <2> QED
    BY <2>1, <2>2, <2>3, UnreadableAfter DEF PerKey
<1>3. CASE Permission
  <2>1. Withdrawn /\ (~PerKey(w) => Readable(w, 0) = 0)
    BY <1>3 DEF Permission, Gone
  <2>2. Withdrawn'
    BY <1>3, <2>1, KeptDelivering DEF Permission, Withdrawn, record, Vault, Putting
  <2> QED
    BY <1>3, <2>1, <2>2 DEF Permission, PerKey, Readable, Newest
<1>4. CASE UNCHANGED vars
  BY <1>4 DEF vars, record, Gone, Withdrawn, PerKey, Readable, Newest, Delivering, Putting
<1> QED
  BY <1>1, <1>2, <1>3, <1>4, NextSteps

(* After a confirmed revocation that nothing disturbed, no name of a vault *)
(* that files an identity under one name can be read again, whatever is    *)
(* still on its way; the retirement has to be final for that.              *)
THEOREM RevocationIsFinal == Spec => []RevokedIsUnreadable
<1>1. Init => Shape /\ Calm /\ Gone
  BY ShapeInit, NoCallOK DEF Init, Calm, Gone
<1>2. Shape /\ Calm /\ Gone /\ [Next]_vars => Shape' /\ Calm' /\ Gone'
  BY ShapeStep, CalmStep, GoneStep
<1>3. Shape /\ Gone => RevokedIsUnreadable
  <2> SUFFICES ASSUME Shape, Gone, NEW w \in Vault, gone[w], ~PerKey(w), NEW n \in Names
               PROVE  Readable(w, n) = 0
    BY DEF RevokedIsUnreadable
  <2>1. CASE n = 0
    BY <2>1 DEF Gone
  <2>2. CASE n # 0
    <3>1. secrets[w][n] = NoSecret
      BY <2>2 DEF Shape, Filed
    <3> QED
      BY <3>1 DEF Readable, NoSecret
  <2> QED
    BY <2>1, <2>2
<1> QED
  BY <1>1, <1>2, <1>3, PTL DEF Spec
=============================================================================
