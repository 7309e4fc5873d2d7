----------------------------- MODULE KeysProofs -----------------------------
(* Theorems about ProviderKeys, for every ceiling of a provider and any    *)
(* number of rotations, failed calls and crashes.                          *)
EXTENDS ProviderKeys, FiniteSetTheorems, SequenceTheorems, WellFoundedInduction, TLAPS

(* The oldest and the newest of some keys.                                 *)
LEMMA LeastNatural ==
    ASSUME NEW K, K \subseteq Nat, K # {}
    PROVE  \E k \in K : \A j \in K : k <= j
<1> DEFINE R == OpToRel(<, Nat)
<1>1. IsWellFoundedOn(R, Nat)
  BY NatLessThanWellFounded
<1>2. \A x, y \in Nat : x < y => <<x, y>> \in R
  BY DEF OpToRel
<1>3. PICK k \in K : \A y \in K : <<y, k>> \notin R
  <2> HIDE DEF R
  <2> QED BY <1>1, WFMin
<1>4. \A y \in K : ~(y < k)
  <2> HIDE DEF R
  <2> QED BY <1>2, <1>3
<1>5. \A y \in K : k <= y
  <2>1. \A x, y \in Nat : ~(y < x) => x <= y
    OBVIOUS
  <2> HIDE DEF R
  <2> QED BY <1>3, <1>4, <2>1
<1> QED
  BY <1>3, <1>5

LEMMA OldestIn ==
    ASSUME NEW K, K \subseteq Nat, K # {}
    PROVE  Oldest(K) \in K
BY LeastNatural DEF Oldest

LEMMA NewestIn ==
    ASSUME NEW n \in Nat, NEW K, K \subseteq 1..n, K # {}
    PROVE  Newest(K) \in K
<1> DEFINE U == {m \in Nat : \A j \in K : m >= j}
<1>1. n \in U
  OBVIOUS
<1>2. PICK m \in U : \A u \in U : m <= u
  <2> HIDE DEF U
  <2>1. U # {}
    BY <1>1
  <2>2. U \subseteq Nat
    BY DEF U
  <2> QED
    BY <2>1, <2>2, LeastNatural
<1>3. m \in K
  <2> SUFFICES ASSUME m \notin K PROVE FALSE
    OBVIOUS
  <2>1. m \in Nat /\ \A j \in K : j \in Nat /\ j < m
    OBVIOUS
  <2>2. m # 0
    <3>1. PICK j \in K : TRUE
      OBVIOUS
    <3> QED
      BY <2>1, <3>1
  <2>3. m - 1 \in U
    BY <2>1, <2>2
  <2>4. m <= m - 1
    <3> HIDE DEF U
    <3> QED BY <1>2, <2>3
  <2> QED
    BY <2>1, <2>4
<1> QED
  BY <1>3 DEF Newest
-----------------------------------------------------------------------------
(* The inductive invariant.  TypeOK is the conjunction of these four.      *)
CallNames == {"create", "delete", "profile", "application"}

Shape ==
    /\ kind \in Kinds
    /\ durable \in BOOLEAN
    /\ account \in {"none", "fresh", "there"}
    /\ status \in {"none", "healthy", "attention", "retired"}
    /\ op \in {"none", "create", "rotate", "retire"}
    /\ pc \in {"idle", "account", "key", "tag", "rollback", "email", "list", "room", "drop",
               "retire", "finish", "application"}
    /\ tries \in 0..7
    /\ rotations \in 0..MaxRotations
    /\ faults \in 0..MaxFaults

Numbers ==
    /\ issued \in Nat
    /\ keys \subseteq 1..issued
    /\ listed \subseteq 1..issued
    /\ record \in 0..issued
    /\ handed \in 0..issued
    /\ current \in 0..issued
    /\ created \in 0..issued
    /\ victim \in 0..issued

Limit == Cardinality(keys) <= Ceiling[kind]

Noted == done \in Seq(CallNames)

LEMMA TypeParts == TypeOK <=> Shape /\ Numbers /\ Limit /\ Noted
BY DEF TypeOK, Shape, Numbers, Limit, Noted, CallNames

(* Each operation has its own steps, and begins on the record that it is   *)
(* for.                                                                    *)
Placed ==
    /\ op = "none" => pc = "idle"
    /\ op = "create" => pc \in {"idle", "account", "key", "tag", "rollback"}
    /\ op = "rotate" => pc \in {"idle", "email", "list", "room", "key", "drop"}
    /\ op = "retire" => pc \in {"idle", "email", "list", "retire", "finish", "application"}
    /\ pc \in {"email", "list", "room", "retire", "finish"} => kind # "azure"
    /\ pc \in {"rollback", "application"} => kind = "azure"
    /\ pc # "idle" /\ op = "create" => status = "none"
    /\ pc # "idle" /\ op # "create" => status \in {"healthy", "attention"}

(* A governor that keeps its snapshot has the key it handed over on record.*)
Recorded ==
    /\ durable => handed = record
    /\ status \in {"none", "retired"} => record = 0

(* The key just created works, and is not the one to drop.                 *)
Holding ==
    /\ pc \in {"tag", "drop"} => created \in keys
    /\ pc = "drop" => victim < created

(* A retirement has listed every key that is left to delete.               *)
Emptying ==
    /\ pc = "retire" => keys \subseteq listed
    /\ pc = "finish" => keys = {}
    /\ status = "retired" => keys = {}

(* AWS makes room by a key that is neither current nor on record.          *)
MakingRoom ==
    pc = "room" /\ kind = "aws" => victim # current /\ (record \in keys => current = record)

Inv == Shape /\ Numbers /\ Limit /\ Noted /\ Placed /\ Recorded /\ Holding /\ Emptying /\ MakingRoom

LEMMA InitInv == Init => Inv
<1> SUFFICES ASSUME Init PROVE Inv
  OBVIOUS
<1> USE DEF Init
<1>1. Shape
  BY KeysAssumption DEF Shape
<1>2. Numbers
  BY DEF Numbers
<1>3. Limit
  <2>1. Cardinality({}) = 0 /\ Cardinality({1}) = 1
    BY FS_EmptySet, FS_Singleton
  <2>2. Ceiling[kind] \in Nat /\ Ceiling[kind] > 1
    BY KeysAssumption
  <2>3. Cardinality(keys) \in {0, 1}
    BY <2>1
  <2> QED
    BY <2>2, <2>3 DEF Limit
<1>4. Noted
  BY DEF Noted
<1>5. Placed /\ Recorded /\ Holding /\ Emptying /\ MakingRoom
  BY DEF Placed, Recorded, Holding, Emptying, MakingRoom
<1> QED
  BY <1>1, <1>2, <1>3, <1>4, <1>5 DEF Inv

(* Keys are removed, or one is created below the ceiling.                  *)
LEMMA KeysFinite ==
    ASSUME Numbers
    PROVE  IsFiniteSet(keys) /\ Cardinality(keys) \in Nat
<1>1. IsFiniteSet(1..issued)
  BY FS_Interval DEF Numbers
<1> QED
  BY <1>1, FS_Subset, FS_CardinalityType DEF Numbers

LEMMA FewerKeys ==
    ASSUME Inv, keys' \subseteq keys, kind' = kind
    PROVE  Limit'
<1>1. IsFiniteSet(keys) /\ Cardinality(keys) \in Nat
  BY KeysFinite DEF Inv
<1>2. IsFiniteSet(keys') /\ Cardinality(keys') <= Cardinality(keys)
  BY <1>1, FS_Subset
<1>3. Cardinality(keys') \in Nat
  BY <1>2, FS_CardinalityType
<1>4. Ceiling[kind] \in Nat
  BY KeysAssumption DEF Inv, Shape
<1> QED
  BY <1>1, <1>2, <1>3, <1>4 DEF Inv, Limit

LEMMA IssueLimit ==
    ASSUME Inv, Issue, kind' = kind
    PROVE  Limit'
<1>1. IsFiniteSet(keys) /\ Cardinality(keys) \in Nat
  BY KeysFinite DEF Inv
<1>2. issued + 1 \notin keys
  BY DEF Inv, Numbers
<1>3. Cardinality(keys \cup {issued + 1}) = Cardinality(keys) + 1
  BY <1>1, <1>2, FS_AddElement
<1>4. Ceiling[kind] \in Nat
  BY KeysAssumption DEF Inv, Shape
<1>5. keys' = keys \cup {issued + 1} /\ Cardinality(keys) < Ceiling[kind]
  BY DEF Issue
<1> QED
  BY <1>1, <1>3, <1>4, <1>5 DEF Limit

LEMMA NoteNoted ==
    ASSUME Noted, NEW c \in CallNames, Note(c)
    PROVE  Noted'
<1>1. Append(done, c) \in Seq(CallNames)
  BY AppendProperties DEF Noted
<1> QED
  BY <1>1 DEF Noted, Note

LEMMA InvParts ==
    ASSUME Inv
    PROVE  Shape /\ Numbers /\ Limit /\ Noted /\ Placed /\ Recorded /\ Holding /\ Emptying /\ MakingRoom
BY DEF Inv

LEMMA InvNext ==
    ASSUME Shape', Numbers', Limit', Noted', Placed', Recorded', Holding', Emptying', MakingRoom'
    PROVE  Inv'
BY DEF Inv

(* The number of keys is bounded by the ceiling, the number of attempts    *)
(* by the one of Azure.                                                    *)
LEMMA AttemptsBound ==
    ASSUME Inv, pc = "key"
    PROVE  Attempts \in {1, 5, 8}
<1>1. kind \in {"aws", "gcp", "azure"} /\ op \in {"create", "rotate"}
  BY KeysAssumption DEF Inv, Shape, Placed
<1>2. CASE kind = "gcp"
  BY <1>1, <1>2 DEF Attempts
<1>3. CASE kind # "gcp"
  BY <1>1, <1>3 DEF Attempts
<1> QED
  BY <1>2, <1>3

(* A key is created, and what follows is known; or the call fails, with a  *)
(* key that nobody knows or without.                                       *)
NewKey ==
    /\ issued' = issued + 1
    /\ keys' = keys \cup {issued + 1}

KeyReturned ==
    /\ NewKey
    /\ created' = issued + 1 /\ victim' = current
    /\ \/ op = "rotate" /\ pc' = "drop" /\ UNCHANGED <<record, status, handed>>
       \/ op = "create" /\ pc' = "tag" /\ UNCHANGED <<record, status, handed>>
       \/ /\ op = "create" /\ pc' = "idle" /\ status' = "healthy"
          /\ record' = issued + 1 /\ handed' = issued + 1

KeyRefused ==
    /\ NewKey \/ UNCHANGED <<keys, issued>>
    /\ UNCHANGED <<created, victim, record, handed>>
    /\ \/ pc' = "key" /\ UNCHANGED <<status, keys, issued>>
       \/ op = "create" /\ kind = "azure" /\ pc' = "rollback" /\ UNCHANGED status
       \/ op = "create" /\ pc' = "idle" /\ UNCHANGED status
       \/ op = "rotate" /\ pc' = "idle" /\ status' = "attention"

LEMMA CreateKeyOutcome ==
    ASSUME Inv, CreateKey
    PROVE  /\ KeyReturned \/ KeyRefused
           /\ tries' \in 0..7 /\ faults' \in 0..MaxFaults
           /\ pc = "key" /\ op \in {"create", "rotate"}
           /\ UNCHANGED <<kind, durable, account, op, listed, current, rotations>>
<1>1. pc = "key" /\ op \in {"create", "rotate"} /\ UNCHANGED <<kind, durable, account, op, listed, current, rotations>>
  BY DEF CreateKey, Inv, Shape, Placed
<1>2. tries \in 0..7 /\ faults \in 0..MaxFaults /\ MaxFaults \in Nat
  BY KeysAssumption DEF Inv, Shape
<1>3. ASSUME KeyFailed
      PROVE  /\ UNCHANGED <<record, handed>> /\ tries' = 0
             /\ \/ op = "create" /\ kind = "azure" /\ pc' = "rollback" /\ UNCHANGED status
                \/ op = "create" /\ pc' = "idle" /\ UNCHANGED status
                \/ op = "rotate" /\ pc' = "idle" /\ status' = "attention"
  BY <1>1, <1>3 DEF KeyFailed, Failed, Go, governed
<1>4. CASE Issue /\ created' = issued + 1 /\ victim' = current /\ UNCHANGED faults /\
           (CASE op = "rotate" -> Go("drop") /\ UNCHANGED governed
               [] op = "create" /\ kind = "aws" -> Go("tag") /\ UNCHANGED governed
               [] op = "create" /\ kind # "aws" -> Returned(issued + 1))
  <2>1. NewKey
    BY <1>4 DEF Issue, NewKey
  <2>2. CASE op = "rotate"
    BY <1>1, <1>2, <1>4, <2>1, <2>2 DEF KeyReturned, Go, governed
  <2>3. CASE op = "create" /\ kind = "aws"
    BY <1>1, <1>2, <1>4, <2>1, <2>3 DEF KeyReturned, Go, governed
  <2>4. CASE op = "create" /\ kind # "aws"
    BY <1>1, <1>2, <1>4, <2>1, <2>4 DEF KeyReturned, Go, Returned
  <2> QED
    BY <1>1, <2>2, <2>3, <2>4
<1>5. CASE Found /\ Cardinality(keys) >= Ceiling[kind] /\ KeyFailed
           /\ UNCHANGED <<keys, issued, created, victim, faults>>
  BY <1>1, <1>2, <1>3, <1>5 DEF KeyRefused
<1>6. CASE Again(Attempts, KeyFailed) /\ UNCHANGED <<keys, issued, created, victim, faults>>
  <2>1. CASE KeyFailed
    BY <1>1, <1>2, <1>3, <1>6, <2>1 DEF KeyRefused
  <2>2. CASE tries + 1 < Attempts /\ tries' = tries + 1 /\ UNCHANGED <<governed, pc>>
    BY <1>1, <1>2, <1>6, <2>2, AttemptsBound DEF KeyRefused, governed
  <2> QED
    BY <1>6, <2>1, <2>2 DEF Again
<1>7. CASE Fault /\ (Issue \/ UNCHANGED <<keys, issued>>) /\ KeyFailed /\ UNCHANGED <<created, victim>>
  BY <1>1, <1>2, <1>3, <1>7 DEF KeyRefused, NewKey, Issue, Fault
<1> QED
  BY <1>1, <1>4, <1>5, <1>6, <1>7 DEF CreateKey

(* The current key and the key that makes room are among the listed.       *)
LEMMA CurrentIn ==
    ASSUME Inv, keys # {}, NEW k \in CurrentOf(keys)
    PROVE  k \in keys /\ (record \in keys => k = record)
BY NewestIn DEF Inv, Numbers, CurrentOf

LEMMA RemovedIn ==
    ASSUME Inv, Cardinality(keys) >= Ceiling[kind], NEW k \in keys, NEW v \in ToRemove(keys, k)
    PROVE  v \in keys /\ (kind = "aws" => v # k)
<1>1. IsFiniteSet(keys) /\ Cardinality(keys) \in Nat
  BY KeysFinite DEF Inv
<1>2. Ceiling[kind] \in Nat /\ Ceiling[kind] > 1
  BY KeysAssumption DEF Inv, Shape
<1>3. keys \ {k} # {}
  BY <1>1, <1>2, FS_RemoveElement, FS_EmptySet
<1>4. keys \subseteq Nat
  BY DEF Inv, Numbers
<1>5. CASE kind = "aws"
  BY <1>3, <1>4, <1>5, OldestIn DEF ToRemove, oldestNonCurrent
<1>6. CASE kind # "aws"
  <2>1. PICK first \in keys : v = Oldest((keys \ {k}) \cup {first})
    BY <1>6 DEF ToRemove, oldestNonCurrentGCP
  <2> DEFINE K == (keys \ {k}) \cup {first}
  <2>2. K \subseteq keys /\ K # {}
    OBVIOUS
  <2>3. Oldest(K) \in K
    <3> HIDE DEF K
    <3> QED BY <1>4, <2>2, OldestIn
  <2> QED
    BY <1>6, <2>1, <2>2, <2>3
<1> QED
  BY <1>5, <1>6

LEMMA CreateBeginInv == ASSUME Inv, CreateBegin PROVE Inv'
<1> USE InvParts DEF CreateBegin, Go, governed, cloud, locals
<1>1. Shape'
  BY KeysAssumption DEF Shape, Placed
<1>2. Numbers'
  BY DEF Numbers
<1>3. Limit'
  BY FewerKeys
<1>4. Noted'
  BY DEF Noted
<1>5. Placed'
  BY KeysAssumption DEF Placed, Shape
<1>6. Recorded'
  BY DEF Recorded, Numbers, Placed
<1>7. Holding'
  BY DEF Holding, Numbers, Placed
<1>8. Emptying'
  BY DEF Emptying, Numbers, Placed
<1>9. MakingRoom'
  BY DEF MakingRoom, Numbers, Placed
<1> QED
  BY <1>1, <1>2, <1>3, <1>4, <1>5, <1>6, <1>7, <1>8, <1>9, InvNext

LEMMA CreateAccountInv == ASSUME Inv, CreateAccount PROVE Inv'
<1> USE InvParts DEF CreateAccount, Go, governed, cloud, locals, createUser, createServiceAccount, CreateApplication, Fault, Failed
<1>1. Shape'
  BY KeysAssumption DEF Shape, Placed
<1>2. Numbers'
  BY DEF Numbers
<1>3. Limit'
  BY FewerKeys
<1>4. Noted'
  BY DEF Noted
<1>5. Placed'
  BY KeysAssumption DEF Placed, Shape
<1>6. Recorded'
  BY DEF Recorded, Numbers, Placed
<1>7. Holding'
  BY DEF Holding, Numbers, Placed
<1>8. Emptying'
  BY DEF Emptying, Numbers, Placed
<1>9. MakingRoom'
  BY DEF MakingRoom, Numbers, Placed
<1> QED
  BY <1>1, <1>2, <1>3, <1>4, <1>5, <1>6, <1>7, <1>8, <1>9, InvNext

LEMMA CreateKeyInv == ASSUME Inv, CreateKey PROVE Inv'
<1> USE InvParts, CreateKeyOutcome DEF NewKey, KeyReturned, KeyRefused
<1>1. Shape'
  BY KeysAssumption DEF Shape
<1>2. Numbers'
  BY DEF Numbers
<1>3. Limit'
  BY FewerKeys, IssueLimit DEF CreateKey
<1>4. Noted'
  BY NoteNoted DEF CallNames, CreateKey
<1>5. Placed'
  BY DEF Placed
<1>6. Recorded'
  BY DEF Recorded, Placed
<1>7. Holding'
  BY DEF Holding, Numbers
<1>8. Emptying'
  BY DEF Emptying, Placed
<1>9. MakingRoom'
  BY DEF MakingRoom
<1> QED
  BY <1>1, <1>2, <1>3, <1>4, <1>5, <1>6, <1>7, <1>8, <1>9, InvNext

LEMMA tagUserInv == ASSUME Inv, tagUser PROVE Inv'
<1> USE InvParts DEF tagUser, Go, governed, cloud, locals, Returned
<1>1. Shape'
  BY KeysAssumption DEF Shape, Placed
<1>2. Numbers'
  BY DEF Numbers
<1>3. Limit'
  BY FewerKeys
<1>4. Noted'
  BY DEF Noted
<1>5. Placed'
  BY KeysAssumption DEF Placed, Shape
<1>6. Recorded'
  BY DEF Recorded, Numbers, Placed
<1>7. Holding'
  BY DEF Holding, Numbers, Placed
<1>8. Emptying'
  BY DEF Emptying, Numbers, Placed
<1>9. MakingRoom'
  BY DEF MakingRoom, Numbers, Placed
<1> QED
  BY <1>1, <1>2, <1>3, <1>4, <1>5, <1>6, <1>7, <1>8, <1>9, InvNext

LEMMA RollbackInv == ASSUME Inv, Rollback PROVE Inv'
<1> USE InvParts DEF Rollback, Go, governed, cloud, locals, DeleteApplication, Again, Found, Missed, Failed, Fault
<1>1. Shape'
  BY KeysAssumption DEF Shape, Placed
<1>2. Numbers'
  BY DEF Numbers
<1>3. Limit'
  BY FewerKeys
<1>4. Noted'
  BY DEF Noted
<1>5. Placed'
  BY KeysAssumption DEF Placed, Shape
<1>6. Recorded'
  BY DEF Recorded, Numbers, Placed
<1>7. Holding'
  BY DEF Holding, Numbers, Placed
<1>8. Emptying'
  BY DEF Emptying, Numbers, Placed
<1>9. MakingRoom'
  BY DEF MakingRoom, Numbers, Placed
<1> QED
  BY <1>1, <1>2, <1>3, <1>4, <1>5, <1>6, <1>7, <1>8, <1>9, InvNext

LEMMA RotateBeginInv == ASSUME Inv, RotateBegin PROVE Inv'
<1> USE InvParts DEF RotateBegin, Go, governed, cloud, locals, Begin, Entry
<1>1. Shape'
  BY KeysAssumption DEF Shape, Placed
<1>2. Numbers'
  BY DEF Numbers
<1>3. Limit'
  BY FewerKeys
<1>4. Noted'
  BY DEF Noted
<1>5. Placed'
  BY KeysAssumption DEF Placed, Shape
<1>6. Recorded'
  BY DEF Recorded, Numbers, Placed
<1>7. Holding'
  BY KeysAssumption DEF Holding, Shape
<1>8. Emptying'
  BY KeysAssumption DEF Emptying, Shape
<1>9. MakingRoom'
  BY KeysAssumption DEF MakingRoom, Shape
<1> QED
  BY <1>1, <1>2, <1>3, <1>4, <1>5, <1>6, <1>7, <1>8, <1>9, InvNext

LEMMA RetireBeginInv == ASSUME Inv, RetireBegin PROVE Inv'
<1> USE InvParts DEF RetireBegin, Go, governed, cloud, locals, Begin, Entry
<1>1. Shape'
  BY KeysAssumption DEF Shape, Placed
<1>2. Numbers'
  BY DEF Numbers
<1>3. Limit'
  BY FewerKeys
<1>4. Noted'
  BY DEF Noted
<1>5. Placed'
  BY KeysAssumption DEF Placed, Shape
<1>6. Recorded'
  BY DEF Recorded, Numbers, Placed
<1>7. Holding'
  BY KeysAssumption DEF Holding, Shape
<1>8. Emptying'
  BY KeysAssumption DEF Emptying, Shape
<1>9. MakingRoom'
  BY KeysAssumption DEF MakingRoom, Shape
<1> QED
  BY <1>1, <1>2, <1>3, <1>4, <1>5, <1>6, <1>7, <1>8, <1>9, InvNext

LEMMA emailForInv == ASSUME Inv, emailFor PROVE Inv'
<1> USE InvParts DEF emailFor, Go, governed, cloud, locals, Again, Found, Missed, Failed, Fault
<1>1. Shape'
  BY KeysAssumption DEF Shape, Placed
<1>2. Numbers'
  BY DEF Numbers
<1>3. Limit'
  BY FewerKeys
<1>4. Noted'
  BY DEF Noted
<1>5. Placed'
  BY KeysAssumption DEF Placed, Shape
<1>6. Recorded'
  BY DEF Recorded, Numbers, Placed
<1>7. Holding'
  BY DEF Holding, Numbers, Placed
<1>8. Emptying'
  BY DEF Emptying, Numbers, Placed
<1>9. MakingRoom'
  BY DEF MakingRoom, Numbers, Placed
<1> QED
  BY <1>1, <1>2, <1>3, <1>4, <1>5, <1>6, <1>7, <1>8, <1>9, InvNext

LEMMA ListKeysInv == ASSUME Inv, ListKeys PROVE Inv'
<1> USE InvParts DEF ListKeys, Go, governed, cloud, locals, ListForRotate, ListForRetire, RetireNext, Failed, Fault
<1>1. Shape'
  BY KeysAssumption DEF Shape, Placed
<1>2. Numbers'
  BY CurrentIn, RemovedIn DEF Numbers
<1>3. Limit'
  BY FewerKeys
<1>4. Noted'
  BY DEF Noted
<1>5. Placed'
  BY KeysAssumption DEF Placed, Shape
<1>6. Recorded'
  BY DEF Recorded, Numbers, Placed
<1>7. Holding'
  BY DEF Holding, Numbers, Placed
<1>8. Emptying'
  BY DEF Emptying, Numbers, Placed
<1>9. MakingRoom'
  BY CurrentIn, RemovedIn DEF MakingRoom
<1> QED
  BY <1>1, <1>2, <1>3, <1>4, <1>5, <1>6, <1>7, <1>8, <1>9, InvNext

LEMMA RotateMakeRoomInv == ASSUME Inv, RotateMakeRoom PROVE Inv'
<1> USE InvParts DEF RotateMakeRoom, Go, governed, cloud, locals, Delete, Deleted, Failed, Fault
<1>1. Shape'
  BY KeysAssumption DEF Shape, Placed
<1>2. Numbers'
  BY DEF Numbers
<1>3. Limit'
  BY FewerKeys
<1>4. Noted'
  BY NoteNoted DEF CallNames
<1>5. Placed'
  BY KeysAssumption DEF Placed, Shape
<1>6. Recorded'
  BY DEF Recorded, Numbers, Placed
<1>7. Holding'
  BY DEF Holding, Numbers, Placed
<1>8. Emptying'
  BY DEF Emptying, Numbers, Placed
<1>9. MakingRoom'
  BY DEF MakingRoom, Numbers, Placed
<1> QED
  BY <1>1, <1>2, <1>3, <1>4, <1>5, <1>6, <1>7, <1>8, <1>9, InvNext

LEMMA RotateDropInv == ASSUME Inv, RotateDrop PROVE Inv'
<1> USE InvParts DEF RotateDrop, Go, governed, cloud, locals, Delete, Deleted, Returned, Failed, Fault
<1>1. Shape'
  BY KeysAssumption DEF Shape, Placed
<1>2. Numbers'
  BY DEF Numbers
<1>3. Limit'
  BY FewerKeys
<1>4. Noted'
  BY NoteNoted DEF CallNames
<1>5. Placed'
  BY KeysAssumption DEF Placed, Shape
<1>6. Recorded'
  BY DEF Recorded, Numbers, Placed
<1>7. Holding'
  BY DEF Holding, Numbers, Placed
<1>8. Emptying'
  BY DEF Emptying, Numbers, Placed
<1>9. MakingRoom'
  BY DEF MakingRoom, Numbers, Placed
<1> QED
  BY <1>1, <1>2, <1>3, <1>4, <1>5, <1>6, <1>7, <1>8, <1>9, InvNext

LEMMA RetireKeyInv == ASSUME Inv, RetireKey PROVE Inv'
<1> USE InvParts DEF RetireKey, Go, governed, cloud, locals, Delete, Deleted, RetireNext, Failed, Fault
<1>1. Shape'
  BY KeysAssumption DEF Shape, Placed
<1>2. Numbers'
  BY DEF Numbers
<1>3. Limit'
  BY FewerKeys
<1>4. Noted'
  BY NoteNoted DEF CallNames
<1>5. Placed'
  BY KeysAssumption DEF Placed, Shape
<1>6. Recorded'
  BY DEF Recorded, Numbers, Placed
<1>7. Holding'
  BY DEF Holding, Numbers, Placed
<1>8. Emptying'
  BY DEF Emptying, Numbers, Placed
<1>9. MakingRoom'
  BY DEF MakingRoom, Numbers, Placed
<1> QED
  BY <1>1, <1>2, <1>3, <1>4, <1>5, <1>6, <1>7, <1>8, <1>9, InvNext

LEMMA RetireFinishInv == ASSUME Inv, RetireFinish PROVE Inv'
<1> USE InvParts DEF RetireFinish, Go, governed, cloud, locals, Retired
<1>1. Shape'
  BY DEF Shape
<1>2. Numbers'
  BY DEF Numbers
<1>3. Limit'
  BY FewerKeys
<1>4. Noted'
  <2>1. Append(done, "profile") \in Seq(CallNames)
    BY AppendProperties DEF Noted, CallNames
  <2> QED
    BY <2>1 DEF Noted
<1>5. Placed'
  BY KeysAssumption DEF Placed, Shape
<1>6. Recorded'
  BY DEF Recorded, Numbers, Placed
<1>7. Holding'
  BY DEF Holding, Numbers, Placed
<1>8. Emptying'
  BY DEF Emptying, Numbers, Placed
<1>9. MakingRoom'
  BY DEF MakingRoom, Numbers, Placed
<1> QED
  BY <1>1, <1>2, <1>3, <1>4, <1>5, <1>6, <1>7, <1>8, <1>9, InvNext

LEMMA RetireApplicationInv == ASSUME Inv, RetireApplication PROVE Inv'
<1> USE InvParts DEF RetireApplication, Go, governed, cloud, locals, DeleteApplication, Again, Found, Missed, Retired, Failed, Fault
<1>1. Shape'
  BY KeysAssumption DEF Shape, Placed
<1>2. Numbers'
  BY DEF Numbers
<1>3. Limit'
  BY FewerKeys
<1>4. Noted'
  BY NoteNoted DEF CallNames
<1>5. Placed'
  BY KeysAssumption DEF Placed, Shape
<1>6. Recorded'
  BY DEF Recorded, Numbers, Placed
<1>7. Holding'
  BY DEF Holding, Numbers, Placed
<1>8. Emptying'
  BY DEF Emptying, Numbers, Placed
<1>9. MakingRoom'
  BY DEF MakingRoom, Numbers, Placed
<1> QED
  BY <1>1, <1>2, <1>3, <1>4, <1>5, <1>6, <1>7, <1>8, <1>9, InvNext

LEMMA iamJSONInv == ASSUME Inv, iamJSON PROVE Inv'
<1> USE InvParts DEF iamJSON, Go, governed, cloud, locals, Deleted, Fault
<1>1. Shape'
  BY KeysAssumption DEF Shape, Placed
<1>2. Numbers'
  BY DEF Numbers
<1>3. Limit'
  BY FewerKeys
<1>4. Noted'
  BY NoteNoted DEF CallNames
<1>5. Placed'
  BY KeysAssumption DEF Placed, Shape
<1>6. Recorded'
  BY DEF Recorded, Numbers, Placed
<1>7. Holding'
  BY DEF Holding, Numbers, Placed
<1>8. Emptying'
  BY DEF Emptying, Numbers, Placed
<1>9. MakingRoom'
  BY DEF MakingRoom, Numbers, Placed
<1> QED
  BY <1>1, <1>2, <1>3, <1>4, <1>5, <1>6, <1>7, <1>8, <1>9, InvNext

LEMMA CrashInv == ASSUME Inv, Crash PROVE Inv'
<1> USE InvParts DEF Crash, Go, governed, cloud, locals, Discover, toIdentity, Found, Missed, Fault
<1>1. Shape'
  BY KeysAssumption DEF Shape, Placed
<1>2. Numbers'
  BY NewestIn DEF Numbers
<1>3. Limit'
  BY FewerKeys
<1>4. Noted'
  BY DEF Noted
<1>5. Placed'
  BY KeysAssumption DEF Placed, Shape
<1>6. Recorded'
  BY DEF Recorded, Numbers, Placed
<1>7. Holding'
  BY DEF Holding, Numbers, Placed
<1>8. Emptying'
  BY DEF Emptying, Numbers, Placed
<1>9. MakingRoom'
  BY DEF MakingRoom, Numbers, Placed
<1> QED
  BY <1>1, <1>2, <1>3, <1>4, <1>5, <1>6, <1>7, <1>8, <1>9, InvNext

LEMMA PropagateInv == ASSUME Inv, Propagate PROVE Inv'
<1> USE InvParts DEF Propagate, Go, governed, cloud, locals
<1>1. Shape'
  BY KeysAssumption DEF Shape, Placed
<1>2. Numbers'
  BY DEF Numbers
<1>3. Limit'
  BY FewerKeys
<1>4. Noted'
  BY DEF Noted
<1>5. Placed'
  BY KeysAssumption DEF Placed, Shape
<1>6. Recorded'
  BY DEF Recorded, Numbers, Placed
<1>7. Holding'
  BY DEF Holding, Numbers, Placed
<1>8. Emptying'
  BY DEF Emptying, Numbers, Placed
<1>9. MakingRoom'
  BY DEF MakingRoom, Numbers, Placed
<1> QED
  BY <1>1, <1>2, <1>3, <1>4, <1>5, <1>6, <1>7, <1>8, <1>9, InvNext

-----------------------------------------------------------------------------
(* Inv is inductive.                                                       *)
LEMMA NextInv == Inv /\ [Next]_vars => Inv'
<1> SUFFICES ASSUME Inv, [Next]_vars PROVE Inv'
  OBVIOUS
<1>1. CASE Adapter
  BY <1>1, CreateAccountInv, CreateKeyInv, tagUserInv, RollbackInv, RotateBeginInv, emailForInv,
     ListKeysInv, RotateMakeRoomInv, RotateDropInv, RetireKeyInv, RetireFinishInv,
     RetireApplicationInv DEF Adapter
<1>2. CASE CreateBegin \/ RetireBegin \/ iamJSON \/ Crash \/ Propagate
  BY <1>2, CreateBeginInv, RetireBeginInv, iamJSONInv, CrashInv, PropagateInv
<1>3. CASE UNCHANGED vars
  <2> USE <1>3, InvParts DEF vars, cloud, governed, locals
  <2>1. Shape' /\ Numbers' /\ Limit' /\ Noted' /\ Placed'
    BY DEF Shape, Numbers, Limit, Noted, Placed
  <2>2. Recorded' /\ Holding' /\ Emptying' /\ MakingRoom'
    BY DEF Recorded, Holding, Emptying, MakingRoom
  <2> QED
    BY <2>1, <2>2, InvNext
<1> QED
  BY <1>1, <1>2, <1>3 DEF Next

LEMMA Inductive == Spec => []Inv
BY InitInv, NextInv, PTL DEF Spec

(* Every variable of the adapters keeps its shape and no provider holds    *)
(* more keys than its ceiling, for Create, Rotate and Retire of every      *)
(* adapter, whatever fails.                                                *)
THEOREM KeysTypeCorrect == Spec => []TypeOK
<1>1. Inv => TypeOK
  BY TypeParts DEF Inv
<1> QED
  BY <1>1, Inductive, PTL

(* Retire reports success only when it has deleted the last key, with any  *)
(* number of keys, failed calls, repeated deletions and crashes.           *)
THEOREM RetirementLeavesNoKey == Spec => []RetiredKeyless
<1>1. Inv => RetiredKeyless
  BY DEF Inv, Emptying, RetiredKeyless
<1> QED
  BY <1>1, Inductive, PTL

(* Which step a step of the adapters is.                                   *)
LEMMA Steps ==
    ASSUME Next
    PROVE  \/ CreateBegin \/ CreateAccount \/ CreateKey \/ tagUser \/ Rollback
           \/ RotateBegin \/ RetireBegin \/ emailFor \/ ListKeys
           \/ RotateMakeRoom \/ RotateDrop \/ RetireKey \/ RetireFinish \/ RetireApplication
           \/ iamJSON \/ Crash \/ Propagate
BY DEF Next, Adapter

(* Create, Rotate and the discovery after a restart put a key on record    *)
(* only if the provider accepts it then.                                   *)
THEOREM RecordedKeysWork == Spec => RecordedKeyWorks
<1>1. Inv /\ [Next]_vars => [status' = "healthy" /\ record' # record => record' \in keys']_vars
  <2> SUFFICES ASSUME Inv, Next, status' = "healthy", record' # record
               PROVE  record' \in keys'
    OBVIOUS
  <2> USE InvParts DEF Go, governed
  <2>1. CASE CreateKey
    BY <2>1, CreateKeyOutcome DEF KeyReturned, KeyRefused, NewKey
  <2>2. CASE tagUser
    BY <2>2 DEF tagUser, Returned, Holding, cloud
  <2>3. CASE RotateDrop
    BY <2>3 DEF RotateDrop, Delete, Deleted, Returned, Failed, Holding, Numbers
  <2>4. CASE Crash
    BY <2>4, NewestIn DEF Crash, Discover, toIdentity, cloud, Numbers
  <2>5. CASE CreateBegin \/ CreateAccount \/ Rollback \/ RotateBegin \/ RetireBegin \/ emailFor
    BY <2>5 DEF CreateBegin, CreateAccount, createUser, createServiceAccount, CreateApplication,
                Rollback, DeleteApplication, RotateBegin, RetireBegin, Begin, emailFor, Again, Failed
  <2>6. CASE ListKeys \/ RotateMakeRoom \/ RetireKey \/ iamJSON \/ Propagate
    BY <2>6 DEF ListKeys, ListForRotate, ListForRetire, RotateMakeRoom, RetireKey, Delete,
                iamJSON, Propagate, Failed
  <2>7. CASE RetireFinish \/ RetireApplication
    BY <2>7 DEF RetireFinish, RetireApplication, DeleteApplication, Again, Retired, Failed
  <2> QED
    BY <2>1, <2>2, <2>3, <2>4, <2>5, <2>6, <2>7, Steps
<1> QED
  BY <1>1, Inductive, PTL DEF Spec, RecordedKeyWorks

(* The key whose secret was handed over last stops working only when its   *)
(* replacement exists or the identity is retired, at AWS and Azure under a *)
(* governor that keeps its snapshot (Rotate, oldestNonCurrent).            *)
THEOREM KeyInUseKept == Spec => InUseUntilReplaced
<1> DEFINE A == (handed \in keys /\ handed \notin keys') =>
                  \/ op = "retire"
                  \/ pc = "drop" /\ created \in keys
                  \/ pc = "room" /\ kind = "gcp"
                  \/ ~durable
<1>1. Inv /\ [Next]_vars => [A]_vars
  <2> SUFFICES ASSUME Inv, Next, handed \in keys, handed \notin keys', durable, op # "retire"
               PROVE  \/ pc = "drop" /\ created \in keys
                      \/ pc = "room" /\ kind = "gcp"
    OBVIOUS
  <2> USE InvParts DEF cloud
  <2>1. CASE CreateKey
    BY <2>1, CreateKeyOutcome DEF KeyReturned, KeyRefused, NewKey
  <2>2. CASE Rollback
    <3>1. handed = 0
      BY <2>2 DEF Rollback, Placed, Recorded, Shape
    <3> QED
      BY <3>1 DEF Numbers
  <2>3. CASE RotateMakeRoom
    <3>1. keys' \in {keys, keys \ {victim}} /\ pc = "room"
      BY <2>3 DEF RotateMakeRoom, Delete, Deleted
    <3>2. kind \in {"aws", "gcp"}
      BY <3>1, KeysAssumption DEF Shape, Placed
    <3>3. CASE kind = "aws"
      BY <3>1, <3>3 DEF Recorded, MakingRoom
    <3> QED
      BY <3>1, <3>2, <3>3
  <2>4. CASE RotateDrop
    BY <2>4 DEF RotateDrop, Holding
  <2>5. CASE iamJSON
    BY <2>5 DEF iamJSON, Holding, Placed, Shape
  <2>6. CASE RetireKey \/ RetireApplication
    BY <2>6 DEF RetireKey, RetireApplication, Placed, Shape
  <2>7. CASE CreateBegin \/ CreateAccount \/ tagUser \/ RotateBegin \/ RetireBegin \/ emailFor
    BY <2>7 DEF CreateBegin, CreateAccount, tagUser, RotateBegin, RetireBegin, Begin, emailFor
  <2>8. CASE ListKeys \/ RetireFinish \/ Crash \/ Propagate
    BY <2>8 DEF ListKeys, RetireFinish, Crash, Propagate
  <2> QED
    BY <2>1, <2>2, <2>3, <2>4, <2>5, <2>6, <2>7, <2>8, Steps
<1> QED
  BY <1>1, Inductive, PTL DEF Spec, InUseUntilReplaced

-----------------------------------------------------------------------------
(* AWS allows two keys.  A rotation then has the current key alone when it *)
(* creates the new one, and the two when it drops the old one.             *)
TwoKeys ==
    kind = "aws" =>
      /\ pc = "room" => keys \subseteq {victim, current}
      /\ pc = "key" /\ op = "rotate" => keys \subseteq {current}
      /\ pc = "drop" => keys \subseteq {victim, created}

LEMMA ListTwoKeys ==
    ASSUME Inv, ListKeys, kind = "aws", Ceiling["aws"] = 2
    PROVE  TwoKeys'
<1> DEFINE n == Cardinality(keys)
<1>1. IsFiniteSet(keys) /\ n \in Nat /\ n <= 2
  BY KeysFinite DEF Inv, Limit
<1>2. CASE pc' \notin {"room", "key", "drop"}
  BY <1>2 DEF TwoKeys
<1>3. CASE pc' \in {"room", "key", "drop"}
  <2>1. /\ ListForRotate /\ keys # {} /\ current' \in CurrentOf(keys)
        /\ \/ pc' = "key" /\ n < 2
           \/ pc' = "room" /\ n >= 2 /\ victim' \in ToRemove(keys, current')
        /\ UNCHANGED <<kind, keys, op, created>>
    BY <1>3 DEF ListKeys, ListForRotate, ListForRetire, RetireNext, Failed, Go, cloud
  <2>2. current' \in keys
    BY <2>1, CurrentIn
  <2>3. IsFiniteSet(keys \ {current'}) /\ Cardinality(keys \ {current'}) = n - 1
    BY <1>1, <2>2, FS_RemoveElement
  <2>4. CASE pc' = "key"
    <3>1. n = 1
      BY <1>1, <2>1, <2>4, FS_EmptySet
    <3>2. keys \ {current'} = {}
      BY <2>3, <3>1, FS_EmptySet
    <3> QED
      BY <2>1, <2>4, <3>2 DEF TwoKeys
  <2>5. CASE pc' = "room"
    <3>1. n = 2 /\ victim' \in keys /\ victim' # current'
      BY <1>1, <2>1, <2>2, <2>5, RemovedIn
    <3>2. PICK x : keys \ {current'} = {x}
      <4>1. Cardinality(keys \ {current'}) = 1
        BY <2>3, <3>1
      <4> QED
        BY <2>3, <4>1, FS_Singleton
    <3>3. keys \subseteq {victim', current'}
      BY <3>1, <3>2
    <3> QED
      BY <2>1, <2>5, <3>3 DEF TwoKeys
  <2> QED
    BY <2>1, <2>4, <2>5
<1> QED
  BY <1>2, <1>3

LEMMA TwoKeysNext ==
    ASSUME Inv, TwoKeys, [Next]_vars, Ceiling["aws"] = 2
    PROVE  TwoKeys'
<1> USE DEF Go, governed, cloud, locals
<1>1. CASE CreateKey
  BY <1>1, CreateKeyOutcome DEF KeyReturned, KeyRefused, NewKey, TwoKeys
<1>2. CASE RotateMakeRoom
  BY <1>2 DEF RotateMakeRoom, Delete, Deleted, Failed, TwoKeys, Inv, Placed, Shape
<1>3. CASE ListKeys
  BY <1>3, ListTwoKeys DEF TwoKeys, ListKeys
<1>4. CASE CreateBegin \/ CreateAccount \/ tagUser \/ Rollback
  BY <1>4 DEF CreateBegin, CreateAccount, createUser, createServiceAccount, CreateApplication, Failed,
              tagUser, Returned, Rollback, DeleteApplication, Again, TwoKeys, Inv, Placed, Shape
<1>5. CASE RotateBegin \/ RetireBegin \/ emailFor
  BY <1>5 DEF RotateBegin, RetireBegin, Begin, Entry, emailFor, Again, Failed, TwoKeys, Inv, Placed, Shape
<1>6. CASE RotateDrop \/ RetireKey \/ RetireFinish
  BY <1>6 DEF RotateDrop, RetireKey, RetireFinish, Delete, RetireNext, Returned, Retired, Failed, TwoKeys
<1>7. CASE RetireApplication \/ iamJSON \/ Crash \/ Propagate
  BY <1>7 DEF RetireApplication, DeleteApplication, Again, Retired, Failed, iamJSON, Crash, Propagate,
              TwoKeys, Inv, Placed
<1>8. CASE UNCHANGED vars
  BY <1>8 DEF vars, TwoKeys
<1> QED
  BY <1>1, <1>2, <1>3, <1>4, <1>5, <1>6, <1>7, <1>8, Steps

(* With the limit of two keys that AWS sets, a rotation that completes     *)
(* leaves the identity with the one key on record, however many keys       *)
(* earlier failures and crashes of Rotate left behind.                     *)
THEOREM RotationLeavesOneKey ==
    ASSUME Ceiling["aws"] = 2
    PROVE  Spec => OneKeyAfterRotation
<1> DEFINE A == kind = "aws" /\ pc = "drop" /\ status' = "healthy" /\ handed' # handed =>
                  keys' = {record'}
<1>1. Init => TwoKeys
  BY DEF Init, TwoKeys
<1>2. Inv /\ TwoKeys /\ [Next]_vars => TwoKeys'
  BY TwoKeysNext
<1>3. Inv /\ TwoKeys /\ [Next]_vars => [A]_vars
  <2> SUFFICES ASSUME Inv, TwoKeys, Next, kind = "aws", pc = "drop", status' = "healthy",
                      handed' # handed
               PROVE  keys' = {record'}
    OBVIOUS
  <2>1. CASE RotateDrop
    <3>1. keys' = keys \ {victim} /\ record' = created
      BY <2>1 DEF RotateDrop, Delete, Deleted, Returned, Failed
    <3>2. keys \subseteq {victim, created} /\ created \in keys /\ victim < created
      BY DEF TwoKeys, Inv, Holding
    <3>3. victim # created
      BY <3>2 DEF Inv, Numbers
    <3> QED
      BY <3>1, <3>2, <3>3
  <2>2. CASE iamJSON \/ Crash \/ Propagate
    BY <2>2 DEF iamJSON, Crash, Propagate, governed
  <2>3. CASE CreateBegin \/ CreateAccount \/ CreateKey \/ tagUser \/ Rollback
    BY <2>3 DEF CreateBegin, CreateAccount, CreateKey, tagUser, Rollback
  <2>4. CASE RotateBegin \/ RetireBegin \/ emailFor \/ ListKeys \/ RotateMakeRoom
    BY <2>4 DEF RotateBegin, RetireBegin, Begin, emailFor, ListKeys, RotateMakeRoom
  <2>5. CASE RetireKey \/ RetireFinish \/ RetireApplication
    BY <2>5 DEF RetireKey, RetireFinish, RetireApplication
  <2> QED
    BY <2>1, <2>2, <2>3, <2>4, <2>5, Steps
<1> QED
  BY <1>1, <1>2, <1>3, Inductive, PTL DEF Spec, OneKeyAfterRotation

-----------------------------------------------------------------------------
(* The calls of a rotation: nothing yet, room was made, and so on.         *)
N == <<>>
D == <<"delete">>
C == <<"create">>
DC == <<"delete", "create">>
CD == <<"create", "delete">>
DCD == <<"delete", "create", "delete">>

LEMMA SameSeq ==
    ASSUME NEW S, NEW s \in Seq(S), NEW t \in Seq(S), NEW n, Len(s) = n, Len(t) = n,
           \A i \in 1..n : s[i] = t[i]
    PROVE  s = t
BY SeqEqual

LEMMA Appended ==
    /\ Append(N, "delete") = D /\ Append(N, "create") = C
    /\ Append(D, "create") = DC
    /\ Append(C, "delete") = CD /\ Append(DC, "delete") = DCD
<1> USE DEF N, D, C, DC, CD, DCD
<1>1. Append(N, "delete") = D /\ Append(N, "create") = C
  OBVIOUS
<1>2. ASSUME NEW x, NEW y PROVE Append(<<x>>, y) = <<x, y>>
  <2> DEFINE s == Append(<<x>>, y)
             t == <<x, y>>
  <2>1. <<x>> \in Seq({x, y}) /\ Len(<<x>>) = 1 /\ t \in Seq({x, y}) /\ Len(t) = 2
    OBVIOUS
  <2>2. s \in Seq({x, y}) /\ Len(s) = 2 /\ s[1] = x /\ s[2] = y
    BY <2>1, AppendProperties
  <2>3. \A i \in 1..2 : s[i] = t[i]
    BY <2>2
  <2>4. s = t
    <3> HIDE DEF s, t
    <3> QED BY <2>1, <2>2, <2>3, SameSeq
  <2> QED
    BY <2>4
<1>3. ASSUME NEW x, NEW y, NEW z PROVE Append(<<x, y>>, z) = <<x, y, z>>
  <2> DEFINE s == Append(<<x, y>>, z)
             t == <<x, y, z>>
  <2>1. <<x, y>> \in Seq({x, y, z}) /\ Len(<<x, y>>) = 2 /\ t \in Seq({x, y, z}) /\ Len(t) = 3
    OBVIOUS
  <2>2. s \in Seq({x, y, z}) /\ Len(s) = 3 /\ s[1] = x /\ s[2] = y /\ s[3] = z
    BY <2>1, AppendProperties
  <2>3. \A i \in 1..3 : s[i] = t[i]
    BY <2>2
  <2>4. s = t
    <3> HIDE DEF s, t
    <3> QED BY <2>1, <2>2, <2>3, SameSeq
  <2> QED
    BY <2>4
<1> QED
  BY <1>1, <1>2, <1>3

(* Before and after the new key is created, and after the old one is       *)
(* dropped; Azure has no room to make.                                     *)
Before == IF kind = "azure" THEN {N} ELSE {N, D}
Between == IF kind = "azure" THEN {C} ELSE {C, DC}
After == IF kind = "azure" THEN {CD} ELSE {CD, DCD}

(* How far the calls of a rotation are.  A call that is repeated has been  *)
(* noted.                                                                  *)
RotateCalls ==
    op = "rotate" =>
      /\ done \in Before \cup Between \cup After
      /\ pc \in {"email", "list"} => done = N
      /\ pc = "room" /\ tries = 0 => done = N
      /\ pc = "room" /\ tries # 0 => done = D
      /\ pc = "key" /\ tries = 0 => done \in Before
      /\ pc = "key" /\ tries # 0 => done \in Between
      /\ pc = "drop" /\ tries = 0 => done \in Between
      /\ pc = "drop" /\ tries # 0 => done \in After

OnlyDeletes(calls) == \A i \in 1..Len(calls) : calls[i] = "delete"

RetireCalls ==
    op = "retire" =>
      /\ kind # "azure" => \/ OnlyDeletes(done)
                           \/ /\ kind = "aws" /\ pc = "idle"
                              /\ \E d \in Seq(CallNames) :
                                   OnlyDeletes(d) /\ done = Append(d, "profile")
      /\ kind = "azure" => done \in {N, <<"application">>}
      /\ pc = "application" /\ tries = 0 => done = N

(* Each call of a rotation is made where its plan has it.                  *)
LEMMA RotateCallsNext ==
    ASSUME Inv, RotateCalls, [Next]_vars
    PROVE  RotateCalls'
<1> USE DEF Go, governed, cloud, locals
<1>1. CASE CreateBegin \/ RetireBegin
  BY <1>1 DEF CreateBegin, RetireBegin, Begin, RotateCalls
<1>2. CASE RotateBegin
  <2>1. done' = N /\ op' = "rotate" /\ tries' = 0 /\ kind' = kind /\ pc' \in {"email", "list", "key"}
    BY <1>2, KeysAssumption DEF RotateBegin, Begin, Entry, N, Inv, Shape
  <2> QED
    BY <2>1 DEF RotateCalls, Before
<1>3. CASE CreateAccount \/ tagUser \/ Rollback
  BY <1>3 DEF CreateAccount, tagUser, Rollback, RotateCalls, Inv, Placed, Shape
<1>4. CASE CreateKey
  <2> SUFFICES ASSUME op = "rotate" PROVE RotateCalls'
    BY <1>4, CreateKeyOutcome DEF RotateCalls
  <2>1. /\ pc = "key" /\ kind' = kind /\ op' = op /\ tries \in Nat
        /\ done' = IF tries = 0 THEN Append(done, "create") ELSE done
    BY <1>4 DEF CreateKey, Note, Inv, Shape
  <2>2. done' \in Between
    BY <2>1, Appended DEF RotateCalls, Before, Between
  <2>3. \/ pc' = "drop" /\ tries' = 0
        \/ pc' = "key" /\ tries' = tries + 1
        \/ pc' = "idle"
    BY <1>4 DEF CreateKey, Again, KeyFailed, Failed
  <2>4. tries' # 0 \/ pc' # "key"
    BY <2>1, <2>3
  <2> QED
    BY <2>1, <2>2, <2>3, <2>4 DEF RotateCalls, Before, Between, After
<1>5. CASE emailFor \/ ListKeys
  <2>1. UNCHANGED <<kind, op, done>> /\ pc \in {"email", "list"}
    BY <1>5 DEF emailFor, ListKeys
  <2>2. \/ pc' \in {"idle", "email", "list", "retire", "finish"}
        \/ pc' \in {"key", "room"} /\ tries' = 0
    BY <1>5 DEF emailFor, Again, Failed, ListKeys, ListForRotate, ListForRetire, RetireNext
  <2> QED
    BY <2>1, <2>2 DEF RotateCalls, Before, Between, After
<1>6. CASE RotateMakeRoom
  <2>1. /\ pc = "room" /\ op = "rotate" /\ UNCHANGED <<kind, op>>
        /\ done' = IF tries = 0 THEN Append(done, "delete") ELSE done
    BY <1>6 DEF RotateMakeRoom, Delete, Note, Inv, Placed, Shape
  <2>2. done' = D /\ kind # "azure"
    BY <2>1, Appended DEF RotateCalls, Inv, Placed
  <2>3. pc' = "idle" \/ (pc' = "key" /\ tries' = 0)
    BY <1>6 DEF RotateMakeRoom, Delete, Failed
  <2> QED
    BY <2>1, <2>2, <2>3 DEF RotateCalls, Before, Between, After
<1>7. CASE RotateDrop
  <2>1. /\ pc = "drop" /\ op = "rotate" /\ UNCHANGED <<kind, op>> /\ pc' = "idle"
        /\ done' = IF tries = 0 THEN Append(done, "delete") ELSE done
    BY <1>7 DEF RotateDrop, Delete, Returned, Failed, Note, Inv, Placed, Shape
  <2>2. done' \in After
    BY <2>1, Appended DEF RotateCalls, Between, After
  <2> QED
    BY <2>1, <2>2 DEF RotateCalls, Before, Between, After
<1>8. CASE RetireKey \/ RetireFinish \/ RetireApplication
  BY <1>8 DEF RetireKey, Delete, RetireFinish, RetireApplication, RotateCalls, Inv, Placed, Shape
<1>9. CASE iamJSON
  <2>1. /\ pc \in {"room", "drop", "retire"} /\ UNCHANGED <<kind, op, pc>> /\ kind = "gcp"
        /\ tries \in Nat /\ tries' = tries + 1
        /\ done' = IF tries = 0 THEN Append(done, "delete") ELSE done
    BY <1>9 DEF iamJSON, Note, Inv, Shape
  <2>2. tries' # 0
    BY <2>1
  <2>3. CASE op = "rotate" /\ pc = "room"
    BY <2>1, <2>2, <2>3, Appended DEF RotateCalls, Before, Between, After
  <2>4. CASE op = "rotate" /\ pc = "drop"
    BY <2>1, <2>2, <2>4, Appended DEF RotateCalls, Before, Between, After
  <2> QED
    BY <2>1, <2>3, <2>4 DEF RotateCalls, Inv, Placed
<1>10. CASE Crash \/ Propagate
  BY <1>10 DEF Crash, Propagate, RotateCalls, Before, Between, After
<1>11. CASE UNCHANGED vars
  BY <1>11 DEF vars, RotateCalls, Before, Between, After
<1> QED
  BY <1>1, <1>2, <1>3, <1>4, <1>5, <1>6, <1>7, <1>8, <1>9, <1>10, <1>11, Steps

(* A retirement deletes keys, and then removes the login profile.          *)
LEMMA DeleteNoted ==
    ASSUME Noted, OnlyDeletes(done), Note("delete")
    PROVE  OnlyDeletes(done')
<1>1. done \in Seq(CallNames)
  BY DEF Noted
<1> DEFINE e == Append(done, "delete")
<1>2. /\ Len(done) \in Nat /\ Len(e) = Len(done) + 1
      /\ \A i \in 1..Len(done) : e[i] = done[i]
      /\ e[Len(done) + 1] = "delete"
  BY <1>1, AppendProperties DEF CallNames
<1>3. OnlyDeletes(e)
  <2> SUFFICES ASSUME NEW i \in 1..Len(e) PROVE e[i] = "delete"
    BY DEF OnlyDeletes
  <2> HIDE DEF e
  <2>1. i \in 1..Len(done) \/ i = Len(done) + 1
    BY <1>2
  <2> QED
    BY <1>2, <2>1 DEF OnlyDeletes
<1> QED
  <2> HIDE DEF e
  <2>1. done' \in {done, e}
    BY DEF Note, e
  <2> QED
    BY <1>3, <2>1

LEMMA RetireCallsNext ==
    ASSUME Inv, RetireCalls, [Next]_vars
    PROVE  RetireCalls'
<1> USE DEF Go, governed, cloud, locals
<1>1. CASE CreateBegin \/ RotateBegin
  BY <1>1 DEF CreateBegin, RotateBegin, Begin, RetireCalls
<1>2. CASE RetireBegin
  BY <1>2 DEF RetireBegin, Begin, N, RetireCalls, OnlyDeletes
<1>3. CASE CreateAccount \/ tagUser \/ Rollback \/ CreateKey
  BY <1>3 DEF CreateAccount, tagUser, Rollback, CreateKey, RetireCalls, Inv, Placed, Shape
<1>4. CASE emailFor \/ ListKeys
  <2>1. UNCHANGED <<kind, op, done>> /\ pc \in {"email", "list"} /\ pc' # "application" /\ kind # "azure"
    BY <1>4 DEF emailFor, Again, Failed, ListKeys, ListForRotate, ListForRetire, RetireNext, Inv, Placed
  <2> QED
    BY <2>1 DEF RetireCalls
<1>5. CASE RotateMakeRoom \/ RotateDrop
  BY <1>5 DEF RotateMakeRoom, RotateDrop, Delete, RetireCalls, Inv, Placed, Shape
<1>6. CASE RetireKey \/ iamJSON
  <2>1. /\ Note("delete") /\ UNCHANGED <<kind, op>> /\ pc # "idle" /\ kind # "azure"
        /\ pc' # "application"
    BY <1>6 DEF RetireKey, Delete, RetireNext, Failed, iamJSON, Inv, Placed
  <2>2. op = "retire" => OnlyDeletes(done')
    BY <2>1, DeleteNoted DEF RetireCalls, Inv
  <2> QED
    BY <2>1, <2>2 DEF RetireCalls
<1>7. CASE RetireFinish
  <2>1. /\ pc = "finish" /\ pc' = "idle" /\ UNCHANGED <<kind, op>> /\ kind # "azure" /\ op = "retire"
        /\ done' = IF kind = "aws" THEN Append(done, "profile") ELSE done
    BY <1>7 DEF RetireFinish, Retired, Inv, Placed, Shape
  <2>2. OnlyDeletes(done) /\ done \in Seq(CallNames)
    BY <2>1 DEF RetireCalls, Inv, Noted
  <2> QED
    BY <2>1, <2>2 DEF RetireCalls
<1>8. CASE RetireApplication
  <2>1. /\ pc = "application" /\ UNCHANGED <<kind, op>> /\ kind = "azure" /\ op = "retire"
        /\ done' = IF tries = 0 THEN Append(done, "application") ELSE done
        /\ tries \in Nat
        /\ pc' = "idle" \/ (pc' = pc /\ tries' = tries + 1)
    BY <1>8 DEF RetireApplication, DeleteApplication, Again, Note, Retired, Failed, Inv, Placed, Shape
  <2>2. Append(N, "application") = <<"application">>
    BY DEF N
  <2>3. pc' = "application" => tries' # 0
    BY <2>1
  <2>4. done' \in {N, <<"application">>}
    BY <2>1, <2>2 DEF RetireCalls
  <2> QED
    BY <2>1, <2>3, <2>4 DEF RetireCalls
<1>9. CASE Crash \/ Propagate
  <2>1. UNCHANGED <<kind, op, done>> /\ (pc' = "idle" \/ UNCHANGED <<pc, tries>>)
    BY <1>9 DEF Crash, Propagate
  <2> QED
    BY <2>1 DEF RetireCalls
<1>10. CASE UNCHANGED vars
  BY <1>10 DEF vars, RetireCalls
<1> QED
  BY <1>1, <1>2, <1>3, <1>4, <1>5, <1>6, <1>7, <1>8, <1>9, <1>10, Steps

(* The steps of a plan that some calls are.                                *)
Through(calls, plan, step) ==
    /\ step \in [1..Len(calls) -> 1..Len(plan)]
    /\ \A i \in 1..Len(calls) : calls[i] = plan[step[i]].call
    /\ \A i, j \in 1..Len(calls) :
         i < j => step[i] < step[j] \/ (step[i] = step[j] /\ plan[step[i]].every)

LEMMA StepsFollow ==
    ASSUME NEW calls, NEW plan, NEW step, Through(calls, plan, step)
    PROVE  Follows(calls, plan)
BY DEF Follows, Through

FourSteps == <<Once("delete"), Once("create"), Once("verify"), Once("delete")>>
TwoSteps == <<Once("create"), Once("delete")>>

LEMMA NothingFollows == ASSUME NEW plan PROVE Follows(N, plan)
<1>1. 1..0 = {} /\ Len(N) = 0
  BY DEF N
<1>2. [i \in {} |-> 1] \in [1..Len(N) -> 1..Len(plan)]
  BY <1>1
<1> QED
  BY <1>1, <1>2 DEF Follows

(* The plans of AWS and GCP have a step for every call of a rotation,      *)
(* the one of Azure for a creation and a removal.                          *)
LEMMA RotateFollows ==
    /\ \A calls \in {N, D, C, DC, CD, DCD} : Follows(calls, FourSteps)
    /\ \A calls \in {N, C, CD} : Follows(calls, TwoSteps)
<1>1. Follows(D, FourSteps)
  <2> DEFINE s == <<1>>
  <2>1. s \in [1..1 -> 1..4] /\ Len(D) = 1 /\ Len(FourSteps) = 4
    BY DEF D, FourSteps
  <2>2. \A i \in 1..1 : D[i] = FourSteps[s[i]].call
    BY DEF D, FourSteps, Once
  <2>3. \A i, j \in 1..1 : i < j => s[i] < s[j]
    OBVIOUS
  <2> HIDE DEF s
  <2>4. Through(D, FourSteps, s)
    BY <2>1, <2>2, <2>3 DEF Through
  <2> QED
    BY <2>4, StepsFollow
<1>2. Follows(C, FourSteps)
  <2> DEFINE s == <<2>>
  <2>1. s \in [1..1 -> 1..4] /\ Len(C) = 1 /\ Len(FourSteps) = 4
    BY DEF C, FourSteps
  <2>2. \A i \in 1..1 : C[i] = FourSteps[s[i]].call
    BY DEF C, FourSteps, Once
  <2>3. \A i, j \in 1..1 : i < j => s[i] < s[j]
    OBVIOUS
  <2> HIDE DEF s
  <2>4. Through(C, FourSteps, s)
    BY <2>1, <2>2, <2>3 DEF Through
  <2> QED
    BY <2>4, StepsFollow
<1>3. Follows(DC, FourSteps)
  <2> DEFINE s == <<1, 2>>
  <2>1. s \in [1..2 -> 1..4] /\ Len(DC) = 2 /\ Len(FourSteps) = 4
    BY DEF DC, FourSteps
  <2>2. \A i \in 1..2 : DC[i] = FourSteps[s[i]].call
    BY DEF DC, FourSteps, Once
  <2>3. \A i, j \in 1..2 : i < j => s[i] < s[j]
    OBVIOUS
  <2> HIDE DEF s
  <2>4. Through(DC, FourSteps, s)
    BY <2>1, <2>2, <2>3 DEF Through
  <2> QED
    BY <2>4, StepsFollow
<1>4. Follows(CD, FourSteps)
  <2> DEFINE s == <<2, 4>>
  <2>1. s \in [1..2 -> 1..4] /\ Len(CD) = 2 /\ Len(FourSteps) = 4
    BY DEF CD, FourSteps
  <2>2. \A i \in 1..2 : CD[i] = FourSteps[s[i]].call
    BY DEF CD, FourSteps, Once
  <2>3. \A i, j \in 1..2 : i < j => s[i] < s[j]
    OBVIOUS
  <2> HIDE DEF s
  <2>4. Through(CD, FourSteps, s)
    BY <2>1, <2>2, <2>3 DEF Through
  <2> QED
    BY <2>4, StepsFollow
<1>5. Follows(DCD, FourSteps)
  <2> DEFINE s == <<1, 2, 4>>
  <2>1. s \in [1..3 -> 1..4] /\ Len(DCD) = 3 /\ Len(FourSteps) = 4
    BY DEF DCD, FourSteps
  <2>2. \A i \in 1..3 : DCD[i] = FourSteps[s[i]].call
    BY DEF DCD, FourSteps, Once
  <2>3. \A i, j \in 1..3 : i < j => s[i] < s[j]
    OBVIOUS
  <2> HIDE DEF s
  <2>4. Through(DCD, FourSteps, s)
    BY <2>1, <2>2, <2>3 DEF Through
  <2> QED
    BY <2>4, StepsFollow
<1>6. Follows(C, TwoSteps)
  <2> DEFINE s == <<1>>
  <2>1. s \in [1..1 -> 1..2] /\ Len(C) = 1 /\ Len(TwoSteps) = 2
    BY DEF C, TwoSteps
  <2>2. \A i \in 1..1 : C[i] = TwoSteps[s[i]].call
    BY DEF C, TwoSteps, Once
  <2>3. \A i, j \in 1..1 : i < j => s[i] < s[j]
    OBVIOUS
  <2> HIDE DEF s
  <2>4. Through(C, TwoSteps, s)
    BY <2>1, <2>2, <2>3 DEF Through
  <2> QED
    BY <2>4, StepsFollow
<1>7. Follows(CD, TwoSteps)
  <2> DEFINE s == <<1, 2>>
  <2>1. s \in [1..2 -> 1..2] /\ Len(CD) = 2 /\ Len(TwoSteps) = 2
    BY DEF CD, TwoSteps
  <2>2. \A i \in 1..2 : CD[i] = TwoSteps[s[i]].call
    BY DEF CD, TwoSteps, Once
  <2>3. \A i, j \in 1..2 : i < j => s[i] < s[j]
    OBVIOUS
  <2> HIDE DEF s
  <2>4. Through(CD, TwoSteps, s)
    BY <2>1, <2>2, <2>3 DEF Through
  <2> QED
    BY <2>4, StepsFollow
<1> QED
  BY <1>1, <1>2, <1>3, <1>4, <1>5, <1>6, <1>7, NothingFollows

LEMMA RotatePlanned ==
    ASSUME Inv, RotateCalls, op = "rotate"
    PROVE  Follows(done, PlanRotate)
<1>1. kind \in {"aws", "gcp", "azure"}
  BY KeysAssumption DEF Inv, Shape
<1>2. CASE kind = "azure"
  <2>1. PlanRotate = TwoSteps
    BY <1>2 DEF PlanRotate, azurePlanRotate, TwoSteps
  <2>2. done \in {N, C, CD}
    BY <1>2 DEF RotateCalls, Before, Between, After
  <2> QED
    BY <2>1, <2>2, RotateFollows
<1>3. CASE kind # "azure"
  <2>1. PlanRotate = FourSteps
    BY <1>1, <1>3 DEF PlanRotate, awsPlanRotate, gcpPlanRotate, FourSteps
  <2>2. done \in {N, D, C, DC, CD, DCD}
    BY <1>3 DEF RotateCalls, Before, Between, After
  <2> QED
    BY <2>1, <2>2, RotateFollows
<1> QED
  BY <1>2, <1>3

(* One step of the plan is for every key, and the login profile is last.   *)
LEMMA DeletesFollow ==
    ASSUME NEW calls \in Seq(CallNames), OnlyDeletes(calls), NEW plan, NEW m \in Nat \ {0},
           Len(plan) = m, plan[1] = Every("delete")
    PROVE  Follows(calls, plan)
<1> DEFINE n == Len(calls)
           s == [i \in 1..n |-> 1]
<1>1. n \in Nat
  BY LenProperties
<1>2. s \in [1..n -> 1..m] /\ \A i \in 1..n : s[i] = 1
  OBVIOUS
<1>3. \A i \in 1..n : calls[i] = plan[s[i]].call /\ plan[s[i]].every
  BY <1>2 DEF OnlyDeletes, Every
<1> HIDE DEF s
<1>4. Through(calls, plan, s)
  BY <1>2, <1>3 DEF Through
<1> QED
  BY <1>4, StepsFollow

LEMMA ProfileFollows ==
    ASSUME NEW d \in Seq(CallNames), OnlyDeletes(d)
    PROVE  Follows(Append(d, "profile"), awsPlanRetire)
<1> DEFINE n == Len(d)
           e == Append(d, "profile")
           s == [i \in 1..(n + 1) |-> IF i = n + 1 THEN 2 ELSE 1]
<1>1. n \in Nat /\ Len(e) = n + 1 /\ (\A i \in 1..n : e[i] = "delete") /\ e[n + 1] = "profile"
  <2>1. n \in Nat
    BY LenProperties
  <2>2. Len(e) = n + 1 /\ (\A i \in 1..n : e[i] = d[i]) /\ e[n + 1] = "profile"
    BY AppendProperties DEF CallNames
  <2> QED
    BY <2>1, <2>2 DEF OnlyDeletes
<1>2. /\ Len(awsPlanRetire) = 2 /\ awsPlanRetire[1].call = "delete" /\ awsPlanRetire[1].every
      /\ awsPlanRetire[2].call = "profile"
  BY DEF awsPlanRetire, Every, Once
<1>3. /\ s \in [1..(n + 1) -> 1..2] /\ s[n + 1] = 2
      /\ \A i \in 1..(n + 1) : i # n + 1 => s[i] = 1 /\ i \in 1..n
  BY <1>1
<1> HIDE DEF s, e, n
<1>4. \A i \in 1..(n + 1) : e[i] = awsPlanRetire[s[i]].call
  BY <1>1, <1>2, <1>3
<1>5. ASSUME NEW i \in 1..(n + 1), NEW j \in 1..(n + 1), i < j
      PROVE  s[i] < s[j] \/ (s[i] = s[j] /\ awsPlanRetire[s[i]].every)
  <2>1. s[i] = 1
    BY <1>1, <1>3, <1>5
  <2>2. s[j] \in {1, 2}
    BY <1>3
  <2> QED
    BY <1>2, <2>1, <2>2
<1>6. Through(e, awsPlanRetire, s)
  BY <1>1, <1>2, <1>3, <1>4, <1>5 DEF Through
<1>7. Follows(e, awsPlanRetire)
  BY <1>6, StepsFollow
<1> QED
  BY <1>7 DEF e

LEMMA RetirePlanned ==
    ASSUME Inv, RetireCalls, op = "retire"
    PROVE  Follows(done, PlanRetire)
<1>1. kind \in {"aws", "gcp", "azure"} /\ done \in Seq(CallNames)
  BY KeysAssumption DEF Inv, Shape, Noted
<1>2. CASE kind = "azure"
  <2>1. PlanRetire = azurePlanRetire
    BY <1>2 DEF PlanRetire
  <2> DEFINE c == <<"application">>
             s == <<1>>
  <2>2. s \in [1..1 -> 1..1] /\ Len(c) = 1 /\ Len(azurePlanRetire) = 1
    BY DEF azurePlanRetire
  <2>3. \A i \in 1..1 : c[i] = azurePlanRetire[s[i]].call
    BY DEF azurePlanRetire, Once
  <2>4. done \in {N, c}
    BY <1>2 DEF RetireCalls
  <2>5. \A i, j \in 1..1 : ~(i < j)
    OBVIOUS
  <2> HIDE DEF c, s
  <2>6. Follows(c, azurePlanRetire)
    <3>1. Through(c, azurePlanRetire, s)
      BY <2>2, <2>3, <2>5 DEF Through
    <3> QED
      BY <3>1, StepsFollow
  <2> QED
    BY <2>1, <2>4, <2>6, NothingFollows
<1>3. CASE kind # "azure" /\ OnlyDeletes(done)
  <2>1. PlanRetire \in {awsPlanRetire, gcpPlanRetire}
    BY <1>1, <1>3 DEF PlanRetire
  <2>2. Len(awsPlanRetire) = 2 /\ awsPlanRetire[1] = Every("delete")
    BY DEF awsPlanRetire
  <2>3. Len(gcpPlanRetire) = 1 /\ gcpPlanRetire[1] = Every("delete")
    BY DEF gcpPlanRetire
  <2>4. \A m \in {1, 2} : m \in Nat \ {0}
    OBVIOUS
  <2>5. Follows(done, awsPlanRetire) /\ Follows(done, gcpPlanRetire)
    BY <1>1, <1>3, <2>2, <2>3, <2>4, DeletesFollow
  <2> QED
    BY <2>1, <2>5
<1>4. CASE kind = "aws" /\ \E d \in Seq(CallNames) : OnlyDeletes(d) /\ done = Append(d, "profile")
  <2>1. PlanRetire = awsPlanRetire
    BY <1>4 DEF PlanRetire
  <2> QED
    BY <1>4, <2>1, ProfileFollows
<1> QED
  BY <1>2, <1>3, <1>4 DEF RetireCalls

(* What Rotate and Retire change at a provider is what PlanRotate and      *)
(* PlanRetire announce, in that order, however many keys there are and     *)
(* wherever a failure, a repeated call or a crash stops them.              *)
THEOREM CallsAsPlanned == Spec => []AsPlanned
<1>1. Init => RotateCalls /\ RetireCalls
  BY DEF Init, RotateCalls, RetireCalls
<1>2. Inv /\ RotateCalls /\ RetireCalls /\ [Next]_vars => RotateCalls' /\ RetireCalls'
  BY RotateCallsNext, RetireCallsNext
<1>3. Inv /\ RotateCalls /\ RetireCalls => AsPlanned
  BY RotatePlanned, RetirePlanned DEF AsPlanned
<1> QED
  BY <1>1, <1>2, <1>3, Inductive, PTL DEF Spec
=============================================================================
