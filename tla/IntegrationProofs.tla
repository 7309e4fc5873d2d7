------------------------- MODULE IntegrationProofs --------------------------
(* Theorems about Integration, for any number of handlers, visitors,       *)
(* sessions and credentials.                                               *)
EXTENDS Integration, SequenceTheorems, FiniteSetTheorems, TLAPS

(* The shape of a session, its bounds left aside.                          *)
Entry ==
    [left : Nat, vault : BOOLEAN, open : BOOLEAN, listed : BOOLEAN, refs : SUBSET Nat]

(* The places where a handler answers for a client that is in no map.      *)
Holding == {"verify", "store", "close"}

(* The inductive invariant: the shapes that the steps rely on, and that    *)
(* Close has taken nothing out of the map before it drained it.            *)
Shape ==
    /\ session \in Seq(Entry)
    /\ creds \in Seq(Cred)
    /\ call \in [Handlers -> [pc : Places, sid : Nat, cred : Nat]]
    /\ mgr \in {"up", "stop"} => drained = {}

(* A session whose entry is replaced keeps its place.                      *)
LEMMA EntryReplaced ==
    ASSUME Shape, NEW s, NEW e, s \in DOMAIN session => e \in Entry,
           session' = [session EXCEPT ![s] = e]
    PROVE  /\ session' \in Seq(Entry)
           /\ DOMAIN session' = DOMAIN session
           /\ \A x \in DOMAIN session : x # s => session'[x] = session[x]
           /\ s \in DOMAIN session => session'[s] = e
<1>1. session \in [1..Len(session) -> Entry] /\ Len(session) \in Nat
      /\ DOMAIN session = 1..Len(session)
  BY LenProperties DEF Shape
<1>2. session' \in [1..Len(session) -> Entry]
  BY <1>1
<1>3. session' \in Seq(Entry)
  BY <1>1, <1>2, SeqDef
<1> QED
  BY <1>1, <1>3

(* The entries of all sessions are rewritten.                              *)
LEMMA EntriesRewritten ==
    ASSUME Shape, session' \in [DOMAIN session -> Entry]
    PROVE  session' \in Seq(Entry) /\ DOMAIN session' = DOMAIN session
<1>1. Len(session) \in Nat /\ DOMAIN session = 1..Len(session)
  BY LenProperties DEF Shape
<1> QED
  BY <1>1, SeqDef

(* Closing a client closes this one, and changes no map.                   *)
LEMMA ClientClosed ==
    ASSUME Shape, NEW s, session' = Close(s)
    PROVE  /\ session' \in Seq(Entry)
           /\ DOMAIN session' = DOMAIN session
           /\ \A x \in DOMAIN session :
                /\ session'[x].open => session[x].open /\ x # s
                /\ session[x].listed => session'[x].listed
<1> DEFINE e == [session[s] EXCEPT !.open = FALSE]
<1>1. session' = [session EXCEPT ![s] = e]
  BY DEF Close
<1>2. s \in DOMAIN session => session[s] \in Entry
  BY LenProperties DEF Shape
<1>3. s \in DOMAIN session => e \in Entry /\ ~e.open /\ (session[s].listed => e.listed)
  BY <1>2 DEF Entry
<1> HIDE DEF e
<1> QED
  BY <1>1, <1>3, EntryReplaced

(* A session that enters or leaves the map keeps its client as it is.      *)
LEMMA ListedChanged ==
    ASSUME Shape, NEW s, NEW b \in BOOLEAN, session' = [session EXCEPT ![s].listed = b]
    PROVE  /\ session' \in Seq(Entry)
           /\ DOMAIN session' = DOMAIN session
           /\ \A x \in DOMAIN session :
                /\ session'[x].open => session[x].open
                /\ x # s /\ session[x].listed => session'[x].listed
           /\ s \in DOMAIN session /\ b => session'[s].listed
<1> DEFINE e == [session[s] EXCEPT !.listed = b]
<1>1. session' = [session EXCEPT ![s] = e]
  OBVIOUS
<1>2. s \in DOMAIN session => session[s] \in Entry
  BY LenProperties DEF Shape
<1>3. s \in DOMAIN session => e \in Entry /\ e.listed = b /\ (e.open => session[s].open)
  BY <1>2 DEF Entry
<1> HIDE DEF e
<1> QED
  BY <1>1, <1>3, EntryReplaced

(* New vault references change nothing else.                               *)
LEMMA RefsChanged ==
    ASSUME Shape, NEW s, NEW r, s \in DOMAIN session => r \in SUBSET Nat,
           session' = [session EXCEPT ![s].refs = r]
    PROVE  /\ session' \in Seq(Entry)
           /\ DOMAIN session' = DOMAIN session
           /\ \A x \in DOMAIN session :
                /\ session'[x].open => session[x].open
                /\ session[x].listed => session'[x].listed
<1> DEFINE e == [session[s] EXCEPT !.refs = r]
<1>1. session' = [session EXCEPT ![s] = e]
  OBVIOUS
<1>2. s \in DOMAIN session => session[s] \in Entry
  BY LenProperties DEF Shape
<1>3. s \in DOMAIN session => /\ e \in Entry
                              /\ e.open => session[s].open
                              /\ session[s].listed => e.listed
  BY <1>2 DEF Entry
<1> HIDE DEF e
<1> QED
  BY <1>1, <1>3, EntryReplaced

(* A handler moves on; the others stay where they are.                     *)
LEMMA CallMoves ==
    ASSUME Shape, NEW h \in Handlers, NEW e \in [pc : Places, sid : Nat, cred : Nat],
           call' = [call EXCEPT ![h] = e]
    PROVE  /\ call' \in [Handlers -> [pc : Places, sid : Nat, cred : Nat]]
           /\ call'[h] = e
           /\ \A x \in Handlers : x # h => call'[x] = call[x]
BY DEF Shape

(* It goes on with the session and the credential it has.                  *)
LEMMA CallGoes ==
    ASSUME Shape, NEW h \in Handlers, NEW pc \in Places, Goes(h, pc)
    PROVE  /\ call' \in [Handlers -> [pc : Places, sid : Nat, cred : Nat]]
           /\ call'[h].pc = pc /\ call'[h].sid = call[h].sid /\ call'[h].cred = call[h].cred
           /\ \A x \in Handlers : x # h => call'[x] = call[x]
BY DEF Shape, Goes

(* It is done.                                                             *)
LEMMA CallDone ==
    ASSUME Shape, NEW h \in Handlers, Done(h)
    PROVE  /\ call' \in [Handlers -> [pc : Places, sid : Nat, cred : Nat]]
           /\ call'[h].pc = "idle"
           /\ \A x \in Handlers : x # h => call'[x] = call[x]
BY DEF Shape, Done, Places

(* It goes on with a credential it made.                                   *)
Creates(h, pc, c) == call' = [call EXCEPT ![h].pc = pc, ![h].cred = c]

LEMMA CallCreates ==
    ASSUME Shape, NEW h \in Handlers, NEW pc \in Places, NEW c \in Nat, Creates(h, pc, c)
    PROVE  /\ call' \in [Handlers -> [pc : Places, sid : Nat, cred : Nat]]
           /\ call'[h].pc = pc /\ call'[h].cred = c
           /\ \A x \in Handlers : x # h => call'[x] = call[x]
BY DEF Shape, Creates

(* Somebody answers for the client of s: the map, the loop, Close or a     *)
(* handler.                                                                *)
Kept(s) == session[s].listed \/ s \in expired \cup drained
Held(h, s) == call[h].sid = s /\ call[h].pc \in Holding

(* A step of handler h forgets no client, when every open one is answered  *)
(* for by the map or by h, or was open before and answered for by others.  *)
LEMMA NoneForgotten ==
    ASSUME NoClientForgotten, NEW h \in Handlers,
           \A x \in Handlers : x # h => call'[x] = call[x],
           \A s \in DOMAIN session' : session'[s].open =>
               \/ Kept(s)' \/ Held(h, s)'
               \/ s \in DOMAIN session /\ session[s].open /\ ~Kept(s) /\ ~Held(h, s)
    PROVE  NoClientForgotten'
<1> SUFFICES ASSUME NEW s \in DOMAIN session', session'[s].open, ~Kept(s)', ~Held(h, s)'
             PROVE  \E x \in Handlers : call'[x].sid = s /\ call'[x].pc \in Holding
  BY DEF NoClientForgotten, Holding, Kept, Held
<1>1. s \in DOMAIN session /\ session[s].open /\ ~Kept(s) /\ ~Held(h, s)
  OBVIOUS
<1>2. PICK x \in Handlers : Held(x, s)
  BY <1>1 DEF NoClientForgotten, Holding, Kept, Held
<1>3. x # h
  BY <1>1, <1>2
<1> QED
  BY <1>2, <1>3 DEF Held

(* A step of a handler that answers for no client, and that changes        *)
(* neither the map nor a client, forgets none.                             *)
LEMMA Quiet ==
    ASSUME NoClientForgotten, NEW h \in Handlers, call[h].pc \notin Holding,
           \A x \in Handlers : x # h => call'[x] = call[x],
           DOMAIN session' = DOMAIN session,
           \A s \in DOMAIN session : /\ session'[s].open => session[s].open
                                     /\ session[s].listed => session'[s].listed,
           UNCHANGED <<expired, drained>>
    PROVE  NoClientForgotten'
<1>1. \A s \in DOMAIN session' : session'[s].open =>
        \/ Kept(s)' \/ Held(h, s)'
        \/ s \in DOMAIN session /\ session[s].open /\ ~Kept(s) /\ ~Held(h, s)
  BY DEF Kept, Held
<1> QED
  BY <1>1, NoneForgotten

-----------------------------------------------------------------------------
(* Credentials.                                                            *)

Fates == {"made", "told", "stored", "unanswered", "unremoved", "abandoned"}

(* The places where a handler answers for a credential just made.          *)
Busy == {"put", "rollback", "reply"}

(* A credential that is replaced keeps its place.                          *)
LEMMA CredReplaced ==
    ASSUME Shape, NEW c, NEW e, c \in DOMAIN creds => e \in Cred,
           NEW q, q = [creds EXCEPT ![c] = e]
    PROVE  /\ q \in Seq(Cred)
           /\ DOMAIN q = DOMAIN creds
           /\ \A x \in DOMAIN creds : x # c => q[x] = creds[x]
           /\ c \in DOMAIN creds => q[c] = e
<1>1. creds \in [1..Len(creds) -> Cred] /\ Len(creds) \in Nat
      /\ DOMAIN creds = 1..Len(creds)
  BY LenProperties DEF Shape
<1>2. q \in [1..Len(creds) -> Cred]
  BY <1>1
<1>3. q \in Seq(Cred)
  BY <1>1, <1>2, SeqDef
<1> QED
  BY <1>1, <1>3

(* A credential that is removed at Graph is not usable, and its fate stays.*)
Removed(q, c) == q = [creds EXCEPT ![c].live = FALSE]

LEMMA CredRemoved ==
    ASSUME Shape, NEW c, NEW q, Removed(q, c)
    PROVE  /\ q \in Seq(Cred)
           /\ DOMAIN q = DOMAIN creds
           /\ \A x \in DOMAIN creds : /\ q[x].live => creds[x].live /\ x # c
                                      /\ q[x].fate = creds[x].fate
<1> DEFINE e == [creds[c] EXCEPT !.live = FALSE]
<1>1. q = [creds EXCEPT ![c] = e]
  BY DEF Removed
<1>2. c \in DOMAIN creds => creds[c] \in Cred
  BY LenProperties DEF Shape
<1>3. c \in DOMAIN creds => e \in Cred /\ ~e.live /\ e.fate = creds[c].fate
  BY <1>2 DEF Cred
<1> HIDE DEF e
<1> QED
  BY <1>1, <1>3, CredReplaced

(* Its copy in the vault is another matter.                                *)
Vaulted(q, c, v) == q = [creds EXCEPT ![c].vault = v]

LEMMA CredVaulted ==
    ASSUME Shape, NEW c, NEW v \in {"none", "enabled", "disabled"},
           NEW q, Vaulted(q, c, v)
    PROVE  /\ q \in Seq(Cred)
           /\ DOMAIN q = DOMAIN creds
           /\ \A x \in DOMAIN creds : /\ q[x].live => creds[x].live
                                      /\ q[x].fate = creds[x].fate
<1> DEFINE e == [creds[c] EXCEPT !.vault = v]
<1>1. q = [creds EXCEPT ![c] = e]
  BY DEF Vaulted
<1>2. c \in DOMAIN creds => creds[c] \in Cred
  BY LenProperties DEF Shape
<1>3. c \in DOMAIN creds => /\ e \in Cred
                            /\ e.live => creds[c].live
                            /\ e.fate = creds[c].fate
  BY <1>2 DEF Cred
<1> HIDE DEF e
<1> QED
  BY <1>1, <1>3, CredReplaced

(* The fate of a credential is decided.                                    *)
Decided(q, c, f) == q = [creds EXCEPT ![c].fate = f]

LEMMA CredDecided ==
    ASSUME Shape, NEW c, NEW f \in Fates, NEW q, Decided(q, c, f)
    PROVE  /\ q \in Seq(Cred)
           /\ DOMAIN q = DOMAIN creds
           /\ \A x \in DOMAIN creds : /\ q[x].live => creds[x].live
                                      /\ x # c => q[x].fate = creds[x].fate
           /\ c \in DOMAIN creds => q[c].fate = f
<1> DEFINE e == [creds[c] EXCEPT !.fate = f]
<1>1. q = [creds EXCEPT ![c] = e]
  BY DEF Decided
<1>2. c \in DOMAIN creds => creds[c] \in Cred
  BY LenProperties DEF Shape
<1>3. c \in DOMAIN creds => e \in Cred /\ (e.live => creds[c].live) /\ e.fate = f
  BY <1>2 DEF Cred, Fates
<1> HIDE DEF e
<1> QED
  BY <1>1, <1>3, CredReplaced

(* It is stored.                                                           *)
LEMMA CredStored ==
    ASSUME Shape, NEW c, NEW q,
           q = [creds EXCEPT ![c].vault = "enabled", ![c].fate = "stored"]
    PROVE  /\ q \in Seq(Cred)
           /\ DOMAIN q = DOMAIN creds
           /\ \A x \in DOMAIN creds : /\ q[x].live => creds[x].live
                                      /\ x # c => q[x].fate = creds[x].fate
           /\ c \in DOMAIN creds => q[c].fate = "stored"
<1> DEFINE e == [creds[c] EXCEPT !.vault = "enabled", !.fate = "stored"]
<1>2. c \in DOMAIN creds => creds[c] \in Cred
  BY LenProperties DEF Shape
<1>1. q = [creds EXCEPT ![c] = e]
  <2>1. creds \in [1..Len(creds) -> Cred] /\ DOMAIN creds = 1..Len(creds)
    BY LenProperties DEF Shape
  <2> QED BY <1>2, <2>1 DEF Cred
<1>3. c \in DOMAIN creds => e \in Cred /\ (e.live => creds[c].live) /\ e.fate = "stored"
  BY <1>2 DEF Cred
<1> HIDE DEF e
<1> QED
  BY <1>1, <1>3, CredReplaced

(* A step of handler h leaves no credential behind that was not, when h    *)
(* goes on answering for the one it has, or this is decided or removed.    *)
LEMMA KnownKept ==
    ASSUME NoneLeftBehind, NEW h \in Handlers, mgr' = mgr,
           \A x \in Handlers : x # h => call'[x] = call[x],
           \A c \in DOMAIN creds' : creds'[c].live /\ creds'[c].fate = "made" =>
               /\ c \in DOMAIN creds /\ creds[c].live /\ creds[c].fate = "made"
               /\ call[h].pc \in Busy /\ call[h].cred = c =>
                    call'[h].pc \in Busy /\ call'[h].cred = c
    PROVE  NoneLeftBehind'
BY DEF NoneLeftBehind, Busy

-----------------------------------------------------------------------------
(* The steps.                                                              *)

Inv == Shape /\ NoClientForgotten /\ NoneLeftBehind

(* A client is made for a connection, and its handler answers for it.      *)
LEMMA AllowInv ==
    ASSUME Inv, NEW h \in Handlers, NEW k, allowConnection(h, k)
    PROVE  Inv'
<1>1. /\ call[h].pc = "idle"
      /\ UNCHANGED <<creds, expired, drained, mgr>>
  BY DEF allowConnection, ending
<1>2. CASE UNCHANGED <<session, call>>
  BY <1>1, <1>2 DEF Inv, Shape, NoClientForgotten, NoneLeftBehind
<1>3. CASE \E v \in VaultChoices :
              /\ session' = Append(session, [left |-> Ttl, vault |-> v, open |-> TRUE,
                                             listed |-> FALSE, refs |-> {}])
              /\ call' = [call EXCEPT ![h] = [pc |-> "verify", sid |-> Len(session) + 1,
                                              cred |-> 0]]
  <2> PICK v \in VaultChoices :
           session' = Append(session, [left |-> Ttl, vault |-> v, open |-> TRUE,
                                       listed |-> FALSE, refs |-> {}])
    BY <1>3
  <2> DEFINE e == [left |-> Ttl, vault |-> v, open |-> TRUE, listed |-> FALSE, refs |-> {}]
  <2> DEFINE d == [pc |-> "verify", sid |-> Len(session) + 1, cred |-> 0]
  <2>1. e \in Entry
    BY IntegrationAssumption DEF Entry
  <2>2. session \in Seq(Entry) /\ Len(session) \in Nat /\ DOMAIN session = 1..Len(session)
    BY LenProperties DEF Inv, Shape
  <2>3. /\ session' \in Seq(Entry)
        /\ DOMAIN session' = DOMAIN session \cup {Len(session) + 1}
        /\ \A s \in DOMAIN session : session'[s] = session[s]
    <3>1. session' = Append(session, e)
      OBVIOUS
    <3> HIDE DEF e
    <3>2. /\ session' \in Seq(Entry)
          /\ Len(session') = Len(session) + 1
          /\ \A s \in 1..Len(session) : session'[s] = session[s]
      BY <2>1, <2>2, <3>1, AppendProperties
    <3>3. DOMAIN session' = 1..(Len(session) + 1)
      BY <3>2, LenProperties
    <3> QED BY <2>2, <3>2, <3>3
  <2>4. d \in [pc : Places, sid : Nat, cred : Nat] /\ call' = [call EXCEPT ![h] = d]
    BY <1>3, <2>2 DEF Places
  <2>5. /\ call' \in [Handlers -> [pc : Places, sid : Nat, cred : Nat]]
        /\ call'[h].pc = "verify" /\ call'[h].sid = Len(session) + 1
        /\ \A x \in Handlers : x # h => call'[x] = call[x]
    <3> HIDE DEF d
    <3>1. call' \in [Handlers -> [pc : Places, sid : Nat, cred : Nat]]
          /\ call'[h] = d
          /\ \A x \in Handlers : x # h => call'[x] = call[x]
      BY <2>4, CallMoves DEF Inv
    <3> QED BY <3>1 DEF d
  <2>6. Shape'
    BY <1>1, <2>3, <2>5 DEF Inv, Shape
  <2>7. NoneLeftBehind'
    BY <1>1, <2>5, KnownKept DEF Inv, Busy
  <2>8. NoClientForgotten'
    <3> HIDE DEF e, d
    <3>1. \A s \in DOMAIN session' : session'[s].open =>
          \/ Kept(s)' \/ Held(h, s)'
          \/ s \in DOMAIN session /\ session[s].open /\ ~Kept(s) /\ ~Held(h, s)
      BY <1>1, <2>2, <2>3, <2>5 DEF Kept, Held, Holding
    <3> QED BY <3>1, <1>1, <2>2, <2>3, <2>5, NoneForgotten DEF Inv
  <2> QED
    BY <2>6, <2>7, <2>8 DEF Inv
<1> QED
  BY <1>2, <1>3 DEF allowConnection

(* Connecting: the handler goes on, closes the client or lists the session.*)
LEMMA ConnectInv ==
    ASSUME Inv, NEW h \in Handlers, Verify(h) \/ Connect(h) \/ CloseClient(h)
    PROVE  Inv'
<1>1. /\ call[h].pc \in Holding
      /\ UNCHANGED <<creds, expired, drained, mgr>>
  BY DEF Verify, Connect, CloseClient, ending, Holding
<1>2. CASE Goes(h, "store") /\ UNCHANGED session
  <2>1. /\ call' \in [Handlers -> [pc : Places, sid : Nat, cred : Nat]]
        /\ call'[h].pc = "store" /\ call'[h].sid = call[h].sid
        /\ \A x \in Handlers : x # h => call'[x] = call[x]
    BY <1>2, CallGoes DEF Inv, Places
  <2>2. Shape'
    BY <1>1, <1>2, <2>1 DEF Inv, Shape
  <2>3. NoneLeftBehind'
    BY <1>1, <2>1, KnownKept DEF Inv, Busy, Holding
  <2>4. NoClientForgotten'
    <3>1. \A s \in DOMAIN session' : session'[s].open =>
          \/ Kept(s)' \/ Held(h, s)'
          \/ s \in DOMAIN session /\ session[s].open /\ ~Kept(s) /\ ~Held(h, s)
      BY <1>1, <1>2, <2>1 DEF Kept, Held, Holding
    <3> QED BY <3>1, <1>1, <1>2, <2>1, NoneForgotten DEF Inv
  <2> QED
    BY <2>2, <2>3, <2>4 DEF Inv
<1>3. CASE Done(h) /\ session' = Close(call[h].sid)
  <2>1. /\ call' \in [Handlers -> [pc : Places, sid : Nat, cred : Nat]]
        /\ \A x \in Handlers : x # h => call'[x] = call[x]
    BY <1>3, CallDone DEF Inv
  <2>2. /\ session' \in Seq(Entry)
        /\ DOMAIN session' = DOMAIN session
        /\ \A x \in DOMAIN session :
             /\ session'[x].open => session[x].open /\ x # call[h].sid
             /\ session[x].listed => session'[x].listed
    BY <1>3, ClientClosed DEF Inv
  <2>3. Shape'
    BY <1>1, <2>1, <2>2 DEF Inv, Shape
  <2>4. NoneLeftBehind'
    BY <1>1, <2>1, KnownKept DEF Inv, Busy, Holding
  <2>5. NoClientForgotten'
    <3>1. \A s \in DOMAIN session' : session'[s].open =>
          \/ Kept(s)' \/ Held(h, s)'
          \/ s \in DOMAIN session /\ session[s].open /\ ~Kept(s) /\ ~Held(h, s)
      BY <1>1, <2>1, <2>2 DEF Kept, Held, Holding
    <3> QED BY <3>1, <1>1, <2>1, <2>2, NoneForgotten DEF Inv
  <2> QED
    BY <2>3, <2>4, <2>5 DEF Inv
<1>4. CASE Done(h) /\ session' = [session EXCEPT ![call[h].sid].listed = TRUE]
  <2>1. /\ call' \in [Handlers -> [pc : Places, sid : Nat, cred : Nat]]
        /\ \A x \in Handlers : x # h => call'[x] = call[x]
    BY <1>4, CallDone DEF Inv
  <2>2. /\ session' \in Seq(Entry)
        /\ DOMAIN session' = DOMAIN session
        /\ \A x \in DOMAIN session :
             /\ session'[x].open => session[x].open
             /\ x # call[h].sid /\ session[x].listed => session'[x].listed
        /\ call[h].sid \in DOMAIN session => session'[call[h].sid].listed
    BY <1>4, ListedChanged DEF Inv
  <2>3. Shape'
    BY <1>1, <2>1, <2>2 DEF Inv, Shape
  <2>4. NoneLeftBehind'
    BY <1>1, <2>1, KnownKept DEF Inv, Busy, Holding
  <2>5. NoClientForgotten'
    <3>1. \A s \in DOMAIN session' : session'[s].open =>
          \/ Kept(s)' \/ Held(h, s)'
          \/ s \in DOMAIN session /\ session[s].open /\ ~Kept(s) /\ ~Held(h, s)
      BY <1>1, <2>1, <2>2 DEF Kept, Held, Holding
    <3> QED BY <3>1, <1>1, <2>1, <2>2, NoneForgotten DEF Inv
  <2> QED
    BY <2>3, <2>4, <2>5 DEF Inv
<1> QED
  BY <1>2, <1>3, <1>4 DEF Verify, Connect, CloseClient

(* A session taken out of the map by a handler, which answers for it.      *)
LEMMA TakenOutInv ==
    ASSUME Inv, NEW h \in Handlers, NEW s \in DOMAIN session, call[h].pc = "idle",
           session' = [session EXCEPT ![s].listed = FALSE], CloseAt(h, s),
           UNCHANGED <<creds, expired, drained, mgr>>
    PROVE  Inv'
<1> DEFINE d == [pc |-> "close", sid |-> s, cred |-> 0]
<1>1. s \in Nat
  BY LenProperties DEF Inv, Shape
<1>2. d \in [pc : Places, sid : Nat, cred : Nat] /\ call' = [call EXCEPT ![h] = d]
  BY <1>1 DEF CloseAt, Places
<1>3. /\ call' \in [Handlers -> [pc : Places, sid : Nat, cred : Nat]]
      /\ call'[h].pc = "close" /\ call'[h].sid = s
      /\ \A x \in Handlers : x # h => call'[x] = call[x]
  <2> HIDE DEF d
  <2>1. call' \in [Handlers -> [pc : Places, sid : Nat, cred : Nat]]
        /\ call'[h] = d
        /\ \A x \in Handlers : x # h => call'[x] = call[x]
    BY <1>2, CallMoves DEF Inv
  <2> QED BY <2>1 DEF d
<1>4. /\ session' \in Seq(Entry)
      /\ DOMAIN session' = DOMAIN session
      /\ \A x \in DOMAIN session :
           /\ session'[x].open => session[x].open
           /\ x # s /\ session[x].listed => session'[x].listed
  BY ListedChanged DEF Inv
<1>5. Shape'
  BY <1>3, <1>4 DEF Inv, Shape
<1>6. NoneLeftBehind'
  BY <1>3, KnownKept DEF Inv, Busy
<1>7. NoClientForgotten'
  <2> HIDE DEF d
  <2>1. \A x \in DOMAIN session' : session'[x].open =>
        \/ Kept(x)' \/ Held(h, x)'
        \/ x \in DOMAIN session /\ session[x].open /\ ~Kept(x) /\ ~Held(h, x)
    BY <1>3, <1>4 DEF Kept, Held, Holding
  <2> QED BY <2>1, <1>3, <1>4, NoneForgotten DEF Inv
<1> QED
  BY <1>5, <1>6, <1>7 DEF Inv

(* A request begins with a session it finds in the map.                    *)
LEMMA BeginInv ==
    ASSUME Inv, NEW h \in Handlers, NEW s \in DOMAIN session,
           NEW pc \in {"add", "read", "remove", "removeVersion"}, NEW c \in Nat, Begin(h, s, pc, c)
    PROVE  Inv'
<1>1. /\ call[h].pc = "idle"
      /\ UNCHANGED <<creds, expired, drained, mgr>>
  BY DEF Begin, ending
<1>2. CASE Expired(h, s)
  BY <1>1, <1>2, TakenOutInv DEF Expired
<1>3. CASE UNCHANGED session /\ call' = [call EXCEPT ![h] = [pc |-> pc, sid |-> s, cred |-> c]]
  <2> DEFINE d == [pc |-> pc, sid |-> s, cred |-> c]
  <2>1. s \in Nat
    BY LenProperties DEF Inv, Shape
  <2>2. d \in [pc : Places, sid : Nat, cred : Nat]
    BY <2>1 DEF Places
  <2>3. call' = [call EXCEPT ![h] = d]
    BY <1>3
  <2> HIDE DEF d
  <2>4. /\ call' \in [Handlers -> [pc : Places, sid : Nat, cred : Nat]]
        /\ \A x \in Handlers : x # h => call'[x] = call[x]
    BY <2>2, <2>3, CallMoves DEF Inv
  <2>5. Shape'
    BY <1>1, <1>3, <2>4 DEF Inv, Shape
  <2>6. NoneLeftBehind'
    BY <1>1, <2>4, KnownKept DEF Inv, Busy
  <2>7. NoClientForgotten'
    BY <1>1, <1>3, <2>4, Quiet DEF Inv, Holding
  <2> QED
    BY <2>5, <2>6, <2>7 DEF Inv
<1> QED
  BY <1>2, <1>3 DEF Begin

(* A step of a handler on its credential: the sessions are as they were,   *)
(* and a credential that is still usable and made is one it goes on with   *)
(* or never had.                                                           *)
LEMMA CredentialInv ==
    ASSUME Inv, NEW h \in Handlers, call[h].pc \notin Holding,
           call' \in [Handlers -> [pc : Places, sid : Nat, cred : Nat]],
           \A x \in Handlers : x # h => call'[x] = call[x],
           UNCHANGED <<session, expired, drained, mgr>>,
           creds' \in Seq(Cred),
           \A c \in DOMAIN creds' : creds'[c].live /\ creds'[c].fate = "made" =>
               /\ c \in DOMAIN creds /\ creds[c].live /\ creds[c].fate = "made"
               /\ call[h].pc \in Busy /\ call[h].cred = c =>
                    call'[h].pc \in Busy /\ call'[h].cred = c
    PROVE  Inv'
<1>1. Shape'
  BY DEF Inv, Shape
<1>2. NoneLeftBehind'
  BY KnownKept DEF Inv
<1>3. NoClientForgotten'
  BY Quiet DEF Inv
<1> QED
  BY <1>1, <1>2, <1>3 DEF Inv

(* A credential made at Graph: the handler that made it answers for it.    *)
LEMMA AddInv ==
    ASSUME Inv, NEW h \in Handlers, addPassword(h)
    PROVE  Inv'
<1>1. /\ call[h].pc = "add"
      /\ UNCHANGED <<session, expired, drained, mgr>>
  BY DEF addPassword, ending
<1>2. creds \in Seq(Cred) /\ Len(creds) \in Nat /\ DOMAIN creds = 1..Len(creds)
  BY LenProperties DEF Inv, Shape
<1>3. ASSUME NEW f \in Fates, creds' = Append(creds, Password(f))
      PROVE  /\ creds' \in Seq(Cred)
             /\ DOMAIN creds' = DOMAIN creds \cup {Len(creds) + 1}
             /\ \A c \in DOMAIN creds : creds'[c] = creds[c]
             /\ creds'[Len(creds) + 1].fate = f
  <2> DEFINE e == Password(f)
  <2>1. e \in Cred /\ e.fate = f
    BY DEF Password, Cred, Fates
  <2>2. creds' = Append(creds, e)
    BY <1>3
  <2> HIDE DEF e
  <2>3. /\ creds' \in Seq(Cred)
        /\ Len(creds') = Len(creds) + 1
        /\ \A c \in 1..Len(creds) : creds'[c] = creds[c]
        /\ creds'[Len(creds) + 1] = e
    BY <1>2, <2>1, <2>2, AppendProperties
  <2>4. DOMAIN creds' = 1..(Len(creds) + 1)
    BY <2>3, LenProperties
  <2> QED
    BY <1>2, <2>1, <2>3, <2>4
<1>4. CASE \E pc \in Busy :
             /\ Creates(h, pc, Len(creds) + 1)
             /\ creds' = Append(creds, Password("made"))
  <2> PICK pc \in Busy : Creates(h, pc, Len(creds) + 1)
    BY <1>4
  <2>4. /\ call' \in [Handlers -> [pc : Places, sid : Nat, cred : Nat]]
        /\ call'[h].pc \in Busy /\ call'[h].cred = Len(creds) + 1
        /\ \A x \in Handlers : x # h => call'[x] = call[x]
    BY <1>2, CallCreates DEF Inv, Busy, Places
  <2>5. /\ creds' \in Seq(Cred)
        /\ DOMAIN creds' = DOMAIN creds \cup {Len(creds) + 1}
        /\ \A c \in DOMAIN creds : creds'[c] = creds[c]
    BY <1>3, <1>4 DEF Fates
  <2>6. Shape'
    BY <1>1, <2>4, <2>5 DEF Inv, Shape
  <2>7. NoClientForgotten'
    BY <1>1, <2>4, Quiet DEF Inv, Holding
  <2>8. NoneLeftBehind'
    <3> SUFFICES ASSUME NEW c \in DOMAIN creds', creds'[c].live, creds'[c].fate = "made",
                        mgr' # "gone"
                 PROVE  \E x \in Handlers : call'[x].cred = c /\ call'[x].pc \in Busy
      BY DEF NoneLeftBehind, Busy
    <3>1. CASE c = Len(creds) + 1
      BY <2>4, <3>1
    <3>2. CASE c \in DOMAIN creds
      <4>1. PICK x \in Handlers : call[x].cred = c /\ call[x].pc \in Busy
        BY <1>1, <2>5, <3>2 DEF Inv, NoneLeftBehind, Busy
      <4>2. x # h
        BY <1>1, <4>1 DEF Busy
      <4> QED
        BY <2>4, <4>1, <4>2
    <3> QED
      BY <2>5, <3>1, <3>2
  <2> QED
    BY <2>6, <2>7, <2>8 DEF Inv
<1>5. CASE Done(h) /\ (creds' = Append(creds, Password("unanswered")) \/ UNCHANGED creds)
  <2>1. /\ call' \in [Handlers -> [pc : Places, sid : Nat, cred : Nat]]
        /\ \A x \in Handlers : x # h => call'[x] = call[x]
    BY <1>5, CallDone DEF Inv
  <2>2. /\ creds' \in Seq(Cred)
        /\ \A c \in DOMAIN creds' : creds'[c].fate = "made" =>
             c \in DOMAIN creds /\ creds'[c] = creds[c]
    <3>1. CASE creds' = Append(creds, Password("unanswered"))
      BY <1>3, <3>1 DEF Fates
    <3> QED
      BY <1>2, <1>5, <3>1
  <2> QED
    BY <1>1, <2>1, <2>2, CredentialInv DEF Holding, Busy
<1> QED
  BY <1>4, <1>5 DEF addPassword, Busy, Creates

(* The vault write decides the fate of the credential, or leaves it to the *)
(* same handler's rollback.                                                *)
LEMMA StoreInv ==
    ASSUME Inv, NEW h \in Handlers, Store(h)
    PROVE  Inv'
<1> DEFINE c == call[h].cred
<1>1. /\ call[h].pc = "put"
      /\ UNCHANGED <<session, expired, drained, mgr>>
  BY DEF Store, ending
<1>2. CASE Decided(creds', c, "abandoned") /\ Done(h)
  <2>1. /\ call' \in [Handlers -> [pc : Places, sid : Nat, cred : Nat]]
        /\ \A x \in Handlers : x # h => call'[x] = call[x]
    BY <1>2, CallDone DEF Inv
  <2>2. /\ creds' \in Seq(Cred)
        /\ DOMAIN creds' = DOMAIN creds
        /\ \A x \in DOMAIN creds : /\ creds'[x].live => creds[x].live
                                   /\ x # c => creds'[x].fate = creds[x].fate
        /\ c \in DOMAIN creds => creds'[c].fate = "abandoned"
    BY <1>2, CredDecided DEF Inv, Fates
  <2>3. call[h].pc \notin Holding
    BY <1>1 DEF Holding
  <2> QED
    BY <1>1, <2>1, <2>2, <2>3, CredentialInv
<1>3. CASE creds' = [creds EXCEPT ![c].vault = "enabled", ![c].fate = "stored"]
           /\ Goes(h, "refer")
  <2>1. /\ call' \in [Handlers -> [pc : Places, sid : Nat, cred : Nat]]
        /\ \A x \in Handlers : x # h => call'[x] = call[x]
    BY <1>3, CallGoes DEF Inv, Places
  <2>2. /\ creds' \in Seq(Cred)
        /\ DOMAIN creds' = DOMAIN creds
        /\ \A x \in DOMAIN creds : /\ creds'[x].live => creds[x].live
                                   /\ x # c => creds'[x].fate = creds[x].fate
        /\ c \in DOMAIN creds => creds'[c].fate = "stored"
    BY <1>3, CredStored DEF Inv
  <2>3. call[h].pc \notin Holding
    BY <1>1 DEF Holding
  <2> QED
    BY <1>1, <2>1, <2>2, <2>3, CredentialInv
<1>4. CASE (creds' = creds \/ Vaulted(creds', c, "enabled")) /\ Goes(h, "rollback")
  <2>1. /\ call' \in [Handlers -> [pc : Places, sid : Nat, cred : Nat]]
        /\ call'[h].pc = "rollback" /\ call'[h].cred = call[h].cred
        /\ \A x \in Handlers : x # h => call'[x] = call[x]
    BY <1>4, CallGoes DEF Inv, Places
  <2>2. /\ creds' \in Seq(Cred)
        /\ DOMAIN creds' = DOMAIN creds
        /\ \A x \in DOMAIN creds : /\ creds'[x].live => creds[x].live
                                   /\ creds'[x].fate = creds[x].fate
    <3>1. CASE creds' = creds
      BY <3>1 DEF Inv, Shape
    <3>2. CASE Vaulted(creds', c, "enabled")
      BY <3>2, CredVaulted DEF Inv
    <3> QED
      BY <1>4, <3>1, <3>2
  <2> QED
    BY <1>1, <2>1, <2>2, CredentialInv DEF Holding, Busy
<1> QED
  BY <1>2, <1>3, <1>4 DEF Store, StoreFails, Decided, Vaulted

(* The rollback removes the credential, or decides that it stays.          *)
LEMMA RemoveSecretInv ==
    ASSUME Inv, NEW h \in Handlers, RemoveSecret(h)
    PROVE  Inv'
<1> DEFINE c == call[h].cred
<1>1. /\ call[h].pc = "rollback"
      /\ UNCHANGED <<session, expired, drained, mgr>>
      /\ Done(h)
  BY DEF RemoveSecret, ending
<1>2. /\ call' \in [Handlers -> [pc : Places, sid : Nat, cred : Nat]]
      /\ \A x \in Handlers : x # h => call'[x] = call[x]
  BY <1>1, CallDone DEF Inv
<1>3. CASE \E f \in {"abandoned", "unremoved"} : Decided(creds', c, f)
  <2> PICK f \in {"abandoned", "unremoved"} : Decided(creds', c, f)
    BY <1>3
  <2>1. f \in Fates /\ f # "made"
    BY DEF Fates
  <2>2. /\ creds' \in Seq(Cred)
        /\ DOMAIN creds' = DOMAIN creds
        /\ \A x \in DOMAIN creds : /\ creds'[x].live => creds[x].live
                                   /\ x # c => creds'[x].fate = creds[x].fate
        /\ c \in DOMAIN creds => creds'[c].fate = f
    <3>1. Shape
      BY DEF Inv
    <3> QED
      BY <2>1, <3>1, CredDecided
  <2>3. call[h].pc \notin Holding
    BY <1>1 DEF Holding
  <2>4. \A x \in DOMAIN creds' : creds'[x].live /\ creds'[x].fate = "made" =>
            x \in DOMAIN creds /\ creds[x].live /\ creds[x].fate = "made" /\ x # c
    BY <2>1, <2>2
  <2> QED
    BY <1>1, <1>2, <2>2, <2>3, <2>4, CredentialInv
<1>4. CASE Removed(creds', c)
  <2>1. /\ creds' \in Seq(Cred)
        /\ DOMAIN creds' = DOMAIN creds
        /\ \A x \in DOMAIN creds : /\ creds'[x].live => creds[x].live /\ x # c
                                   /\ creds'[x].fate = creds[x].fate
    BY <1>4, CredRemoved DEF Inv
  <2> QED
    BY <1>1, <1>2, <2>1, CredentialInv DEF Holding
<1> QED
  BY <1>3, <1>4 DEF RemoveSecret, Decided, Removed

(* The answer tells it.                                                    *)
LEMMA ReplyInv ==
    ASSUME Inv, NEW h \in Handlers, Reply(h)
    PROVE  Inv'
<1> DEFINE c == call[h].cred
<1>1. /\ call[h].pc = "reply"
      /\ UNCHANGED <<session, expired, drained, mgr>>
  BY DEF Reply, ending
<1>2. /\ call' \in [Handlers -> [pc : Places, sid : Nat, cred : Nat]]
      /\ \A x \in Handlers : x # h => call'[x] = call[x]
  BY CallDone DEF Inv, Reply
<1>3. /\ creds' \in Seq(Cred)
      /\ DOMAIN creds' = DOMAIN creds
      /\ \A x \in DOMAIN creds : /\ creds'[x].live => creds[x].live
                                 /\ x # c => creds'[x].fate = creds[x].fate
      /\ c \in DOMAIN creds => creds'[c].fate = "told"
  <2>1. Decided(creds', c, "told")
    BY DEF Reply, Decided
  <2> QED
    BY <2>1, CredDecided DEF Inv, Fates
<1>4. call[h].pc \notin Holding
  BY <1>1 DEF Holding
<1> QED
  BY <1>1, <1>2, <1>3, <1>4, CredentialInv

(* Reading, invalidating and disabling: the handler answers for no         *)
(* credential just made, and makes none usable.                            *)
LEMMA InvalidateInv ==
    ASSUME Inv, NEW h \in Handlers, Read(h) \/ InvalidateSecret(h) \/ Disable(h)
    PROVE  Inv'
<1> DEFINE c == call[h].cred
<1>1. /\ call[h].pc \notin Holding /\ call[h].pc \notin Busy
      /\ UNCHANGED <<session, expired, drained, mgr>>
  BY DEF Read, InvalidateSecret, Disable, ending, Holding, Busy
<1>2. /\ call' \in [Handlers -> [pc : Places, sid : Nat, cred : Nat]]
      /\ \A x \in Handlers : x # h => call'[x] = call[x]
  <2>1. Done(h) \/ \E pc \in {"rerefer", "disable", "disableVersion", "unrefer"} : Goes(h, pc)
    BY DEF Read, InvalidateSecret, Disable
  <2> QED
    BY <2>1, CallDone, CallGoes DEF Inv, Places
<1>3. /\ creds' \in Seq(Cred)
      /\ DOMAIN creds' = DOMAIN creds
      /\ \A x \in DOMAIN creds : /\ creds'[x].live => creds[x].live
                                 /\ creds'[x].fate = creds[x].fate
  <2>1. CASE creds' = creds
    BY <2>1 DEF Inv, Shape
  <2>2. CASE Removed(creds', c)
    BY <2>2, CredRemoved DEF Inv
  <2>3. CASE Vaulted(creds', c, "disabled")
    BY <2>3, CredVaulted DEF Inv
  <2> QED
    BY <2>1, <2>2, <2>3 DEF Read, InvalidateSecret, Disable, Removed, Vaulted
<1> QED
  BY <1>1, <1>2, <1>3, CredentialInv

(* The vault references of a session.                                      *)
LEMMA ReferInv ==
    ASSUME Inv, NEW h \in Handlers, Refer(h) \/ Unrefer(h)
    PROVE  Inv'
<1> DEFINE s == call[h].sid
<1>1. /\ call[h].pc \notin Holding /\ call[h].pc \notin Busy
      /\ UNCHANGED <<creds, expired, drained, mgr>>
      /\ Done(h)
  BY DEF Refer, Unrefer, ending, Holding, Busy
<1>2. /\ call' \in [Handlers -> [pc : Places, sid : Nat, cred : Nat]]
      /\ \A x \in Handlers : x # h => call'[x] = call[x]
  BY <1>1, CallDone DEF Inv
<1>3. /\ session' \in Seq(Entry)
      /\ DOMAIN session' = DOMAIN session
      /\ \A x \in DOMAIN session : /\ session'[x].open => session[x].open
                                   /\ session[x].listed => session'[x].listed
  <2>1. call[h].cred \in Nat
    BY DEF Inv, Shape
  <2>2. s \in DOMAIN session => session[s].refs \in SUBSET Nat
    <3>1. s \in DOMAIN session => session[s] \in Entry
      BY LenProperties DEF Inv, Shape
    <3> QED
      BY <3>1 DEF Entry
  <2>3. PICK r \in {session[s].refs \cup {call[h].cred}, session[s].refs \ {call[h].cred}} :
             session' = [session EXCEPT ![s].refs = r]
    BY DEF Refer, Unrefer
  <2>4. s \in DOMAIN session => r \in SUBSET Nat
    BY <2>1, <2>2
  <2> QED
    BY <2>3, <2>4, RefsChanged DEF Inv
<1>4. Shape'
  BY <1>1, <1>2, <1>3 DEF Inv, Shape
<1>5. NoneLeftBehind'
  BY <1>1, <1>2, KnownKept DEF Inv
<1>6. NoClientForgotten'
  BY <1>1, <1>2, <1>3, Quiet DEF Inv
<1> QED
  BY <1>4, <1>5, <1>6 DEF Inv

(* A step of the cleanup loop, of the manager or of time: no handler       *)
(* moves, no client is opened, and one that is open stays answered for.    *)
LEMMA BackgroundInv ==
    ASSUME Inv, UNCHANGED <<creds, call>>,
           session' \in Seq(Entry), DOMAIN session' = DOMAIN session,
           mgr' \in {"up", "stop"} => drained' = {},
           mgr = "gone" => mgr' = "gone",
           \A s \in DOMAIN session : session'[s].open =>
               session[s].open /\ (Kept(s) => Kept(s)')
    PROVE  Inv'
<1>1. Shape'
  BY DEF Inv, Shape
<1>2. NoneLeftBehind'
  BY DEF Inv, NoneLeftBehind
<1>3. NoClientForgotten'
  BY DEF Inv, NoClientForgotten, Kept
<1> QED
  BY <1>1, <1>2, <1>3 DEF Inv

(* A tick of the loop: what it takes out of the map it has yet to close.   *)
LEMMA ExpireInv ==
    ASSUME Inv, expireSessions
    PROVE  Inv'
<1> DEFINE late == {s \in DOMAIN session : Overdue(s)}
<1> DEFINE e(s) == IF s \in late THEN [session[s] EXCEPT !.listed = FALSE] ELSE session[s]
<1>1. /\ expired = {} /\ expired' = late
      /\ session' = [s \in DOMAIN session |-> e(s)]
      /\ UNCHANGED <<creds, call, mgr, drained>>
  BY DEF expireSessions
<1>2. \A s \in DOMAIN session : session[s] \in Entry
  BY LenProperties DEF Inv, Shape
<1>3. \A s \in DOMAIN session : /\ e(s) \in Entry
                                /\ e(s).open = session[s].open
                                /\ s \notin late => e(s).listed = session[s].listed
  BY <1>2 DEF Entry
<1> HIDE DEF e, late
<1>4. session' \in [DOMAIN session -> Entry]
  BY <1>1, <1>3
<1>5. session' \in Seq(Entry) /\ DOMAIN session' = DOMAIN session
  BY <1>4, EntriesRewritten DEF Inv
<1>6. \A s \in DOMAIN session : session'[s].open =>
        session[s].open /\ (Kept(s) => Kept(s)')
  BY <1>1, <1>3 DEF Kept
<1> QED
  BY <1>1, <1>5, <1>6, BackgroundInv DEF Inv, Shape

(* A client that was taken out of the map is closed, by the loop or Close. *)
LEMMA ClosedInv ==
    ASSUME Inv, NEW s, session' = Close(s), UNCHANGED <<creds, call, mgr>>,
           expired' \in {expired, expired \ {s}}, drained' \in {drained, drained \ {s}}
    PROVE  Inv'
<1>1. /\ session' \in Seq(Entry)
      /\ DOMAIN session' = DOMAIN session
      /\ \A x \in DOMAIN session :
           /\ session'[x].open => session[x].open /\ x # s
           /\ session[x].listed => session'[x].listed
  BY ClientClosed DEF Inv
<1>2. \A x \in DOMAIN session : session'[x].open =>
        session[x].open /\ (Kept(x) => Kept(x)')
  BY <1>1 DEF Kept
<1>3. mgr' \in {"up", "stop"} => drained' = {}
  BY DEF Inv, Shape
<1> QED
  BY <1>1, <1>2, <1>3, BackgroundInv

(* Close drains the map once, and the process exits.                       *)
LEMMA CloseManagerInv ==
    ASSUME Inv, CloseManager
    PROVE  Inv'
<1>1. \A s \in DOMAIN session : session[s] \in Entry
  BY LenProperties DEF Inv, Shape
<1>2. CASE /\ mgr = "stop" /\ mgr' = "close"
           /\ drained' = Listed
           /\ session' = [s \in DOMAIN session |-> [session[s] EXCEPT !.listed = FALSE]]
           /\ UNCHANGED <<creds, call, expired>>
  <2> DEFINE e(s) == [session[s] EXCEPT !.listed = FALSE]
  <2>1. \A s \in DOMAIN session : e(s) \in Entry /\ e(s).open = session[s].open
    BY <1>1 DEF Entry
  <2>2. session' = [s \in DOMAIN session |-> e(s)]
    BY <1>2
  <2> HIDE DEF e
  <2>3. session' \in [DOMAIN session -> Entry]
    BY <2>1, <2>2
  <2>4. session' \in Seq(Entry) /\ DOMAIN session' = DOMAIN session
    BY <2>3, EntriesRewritten DEF Inv
  <2>5. drained = {}
    BY <1>2 DEF Inv, Shape
  <2>6. \A s \in DOMAIN session : session'[s].open =>
          session[s].open /\ (Kept(s) => Kept(s)')
    BY <1>2, <2>1, <2>2, <2>5 DEF Kept, Listed
  <2> QED
    BY <1>2, <2>4, <2>6, BackgroundInv
<1>3. CASE \E s \in drained : /\ session' = Close(s) /\ drained' = drained \ {s}
                              /\ UNCHANGED <<creds, call, expired, mgr>>
  BY <1>3, ClosedInv
<1>4. CASE /\ mgr' = "gone"
           /\ session' = [s \in DOMAIN session |->
                            [session[s] EXCEPT !.open = FALSE, !.listed = FALSE]]
           /\ call' = [h \in Handlers |-> [pc |-> "idle", sid |-> 0, cred |-> 0]]
           /\ UNCHANGED creds
  <2> DEFINE e(s) == [session[s] EXCEPT !.open = FALSE, !.listed = FALSE]
  <2>1. \A s \in DOMAIN session : e(s) \in Entry /\ ~e(s).open
    BY <1>1 DEF Entry
  <2>2. session' = [s \in DOMAIN session |-> e(s)]
    BY <1>4
  <2> HIDE DEF e
  <2>3. session' \in [DOMAIN session -> Entry]
    BY <2>1, <2>2
  <2>4. session' \in Seq(Entry) /\ DOMAIN session' = DOMAIN session
    BY <2>3, EntriesRewritten DEF Inv
  <2>5. call' \in [Handlers -> [pc : Places, sid : Nat, cred : Nat]]
    BY <1>4 DEF Places
  <2>6. Shape'
    BY <1>4, <2>4, <2>5 DEF Inv, Shape
  <2>7. NoClientForgotten'
    BY <2>1, <2>2, <2>4 DEF NoClientForgotten
  <2>8. NoneLeftBehind'
    BY <1>4 DEF NoneLeftBehind
  <2> QED
    BY <2>6, <2>7, <2>8 DEF Inv
<1> QED
  BY <1>2, <1>3, <1>4 DEF CloseManager

(* Time passes.                                                            *)
LEMMA ElapseInv ==
    ASSUME Inv, Elapse
    PROVE  Inv'
<1> DEFINE e(s) == [session[s] EXCEPT !.left = IF @ > 0 THEN @ - 1 ELSE 0]
<1>1. \A s \in DOMAIN session : session[s] \in Entry
  BY LenProperties DEF Inv, Shape
<1>2. \A s \in DOMAIN session : /\ e(s) \in Entry
                                /\ e(s).open = session[s].open
                                /\ e(s).listed = session[s].listed
  BY <1>1 DEF Entry
<1>3. /\ session' = [s \in DOMAIN session |-> e(s)]
      /\ UNCHANGED <<creds, call, expired, mgr, drained>>
  BY DEF Elapse, ending
<1> HIDE DEF e
<1>4. session' \in [DOMAIN session -> Entry]
  BY <1>2, <1>3
<1>5. session' \in Seq(Entry) /\ DOMAIN session' = DOMAIN session
  BY <1>4, EntriesRewritten DEF Inv
<1>6. \A s \in DOMAIN session : session'[s].open =>
        session[s].open /\ (Kept(s) => Kept(s)')
  BY <1>2, <1>3 DEF Kept
<1> QED
  BY <1>3, <1>5, <1>6, BackgroundInv DEF Inv, Shape

-----------------------------------------------------------------------------
(* The theorems.                                                           *)

(* At the start there is no session and no credential.                    *)
LEMMA InitInv == Init => Inv
<1> SUFFICES ASSUME Init PROVE Inv
  OBVIOUS
<1>1. session = <<>> /\ creds = <<>> /\ drained = {}
  BY DEF Init
<1>2. call \in [Handlers -> [pc : Places, sid : Nat, cred : Nat]]
  BY DEF Init, Places
<1>3. session \in Seq(Entry) /\ creds \in Seq(Cred)
      /\ DOMAIN session = {} /\ DOMAIN creds = {}
  BY <1>1, EmptySeq
<1> QED
  BY <1>1, <1>2, <1>3 DEF Inv, Shape, NoClientForgotten, NoneLeftBehind

(* A step of a handler.                                                    *)
LEMMA HandlerInv ==
    ASSUME Inv, NEW h \in Handlers, handle(h) \/ request(h)
    PROVE  Inv'
<1>1. CASE handle(h)
  BY <1>1, ConnectInv, AddInv, StoreInv, RemoveSecretInv, ReplyInv, InvalidateInv, ReferInv
     DEF handle
<1>2. CASE \E k \in Visitors : allowConnection(h, k)
  BY <1>2, AllowInv
<1>3. CASE \E s \in DOMAIN session : Disconnect(h, s)
  BY <1>3, TakenOutInv DEF Disconnect, ending
<1>4. CASE \E s \in DOMAIN session : Begin(h, s, "add", 0)
  BY <1>4, BeginInv
<1>5. CASE \E s \in DOMAIN session : \E c \in DOMAIN creds :
             Begin(h, s, "read", c) \/ beginInvalidate(h, s, c)
  <2>1. DOMAIN creds \subseteq Nat
    BY LenProperties DEF Inv, Shape
  <2> QED
    BY <1>5, <2>1, BeginInv DEF beginInvalidate
<1> QED
  BY <1>1, <1>2, <1>3, <1>4, <1>5 DEF request

(* Every step of the system keeps the invariant.                           *)
LEMMA NextInv == Inv /\ [Next]_vars => Inv'
<1> SUFFICES ASSUME Inv, [Next]_vars PROVE Inv'
  OBVIOUS
<1>1. CASE \E h \in Handlers : handle(h) \/ request(h)
  BY <1>1, HandlerInv
<1>2. CASE expireSessions
  BY <1>2, ExpireInv
<1>3. CASE \E s \in expired : closeExpired(s)
  BY <1>3, ClosedInv DEF closeExpired
<1>4. CASE loopStops \/ Shutdown
  <2>1. UNCHANGED <<creds, call, session, expired, drained>> /\ mgr \in {"up", "stop"}
    BY <1>4 DEF loopStops, Shutdown
  <2>2. \A s \in DOMAIN session : session'[s].open =>
          session[s].open /\ (Kept(s) => Kept(s)')
    BY <2>1 DEF Kept
  <2> QED
    BY <2>1, <2>2, BackgroundInv DEF Inv, Shape
<1>5. CASE CloseManager
  BY <1>5, CloseManagerInv
<1>6. CASE Elapse
  BY <1>6, ElapseInv
<1>7. CASE UNCHANGED vars
  BY <1>7 DEF vars, ending, Inv, Shape, NoClientForgotten, NoneLeftBehind
<1> QED
  BY <1>1, <1>2, <1>3, <1>4, <1>5, <1>6, <1>7 DEF Next, cleanupLoop

(* The client of a session, with the secret of its tenant, is never        *)
(* forgotten while it is open: for any number of handlers, sessions and    *)
(* visitors, it is in the map, being connected, or about to be closed by   *)
(* whoever took it out (Connect, Disconnect, session, expireSessions,      *)
(* Close).                                                                 *)
THEOREM ClientNeverForgotten == Spec => []NoClientForgotten
<1>1. Inv => NoClientForgotten
  BY DEF Inv
<1> QED
  BY <1>1, InitInv, NextInv, PTL DEF Spec

(* CreateSecret leaves no usable credential behind that nobody knows of,   *)
(* other than by a failure of Graph, of the rollback, by the close of the  *)
(* session or the exit of the process.                                     *)
THEOREM NoneEverLeftBehind == Spec => []NoneLeftBehind
<1>1. Inv => NoneLeftBehind
  BY DEF Inv
<1> QED
  BY <1>1, InitInv, NextInv, PTL DEF Spec
-----------------------------------------------------------------------------
(* Types and limits.  TypeOK in parts, with what its proof needs: a        *)
(* visitor has finitely many attempts, and a handler that works on a       *)
(* credential has one.                                                     *)

Attempted ==
    /\ attempts = [k \in Visitors |-> attempts[k]]
    /\ \A k \in Visitors : /\ IsFiniteSet(DOMAIN attempts[k])
                           /\ attempts[k] \in [DOMAIN attempts[k] -> 0..Window]
                           /\ Cardinality(DOMAIN attempts[k]) <= MaxConnections

Sessions ==
    /\ session \in Seq(Session)
    /\ Len(session) <= MaxConnects
    /\ Cardinality(Listed) <= MaxSessions

Credentials == creds \in Seq(Cred) /\ Len(creds) <= MaxCreds

Using == {"put", "rollback", "refer", "reply", "read", "rerefer", "remove", "removeVersion",
          "disable", "disableVersion", "unrefer"}

Calls ==
    /\ call \in [Handlers -> [pc : Places, sid : 0..Len(session), cred : 0..Len(creds)]]
    /\ \A h \in Handlers : call[h].pc \in Using => call[h].cred # 0

Ends ==
    /\ loop \in {"wait", "stopped"}
    /\ expired \subseteq DOMAIN session
    /\ mgr \in {"up", "stop", "close", "gone"}
    /\ drained \subseteq DOMAIN session

TypeInv == Attempted /\ Sessions /\ Credentials /\ Calls /\ Ends

(* The attempts that still count are attempts that were made, ...          *)
LEMMA KeptAttempts ==
    ASSUME Attempted, NEW k \in Visitors
    PROVE  /\ kept(k) \in [DOMAIN kept(k) -> 0..Window]
           /\ IsFiniteSet(DOMAIN kept(k))
           /\ Attempts(k) \in Nat
           /\ Attempts(k) <= MaxConnections
<1>1. /\ DOMAIN kept(k) \subseteq DOMAIN attempts[k]
      /\ \A n \in DOMAIN kept(k) : kept(k)[n] = attempts[k][n]
      /\ kept(k) = [n \in DOMAIN kept(k) |-> attempts[k][n]]
  BY DEF kept, RestrictValues, Restrict
<1>2. IsFiniteSet(DOMAIN kept(k)) /\ Attempts(k) \in Nat
      /\ Cardinality(DOMAIN attempts[k]) \in Nat
      /\ Attempts(k) <= Cardinality(DOMAIN attempts[k])
  BY <1>1, FS_Subset, FS_CardinalityType DEF Attempted, Attempts
<1>3. MaxConnections \in Nat
  BY IntegrationAssumption
<1>4. Attempts(k) <= MaxConnections
  BY <1>2, <1>3 DEF Attempted
<1> QED
  BY <1>1, <1>2, <1>4 DEF Attempted

(* ... and one made now is one more, under a number of its own.            *)
LEMMA CountedAttempts ==
    ASSUME Attempted, NEW k \in Visitors, Attempts(k) < MaxConnections
    PROVE  /\ counted(k) \in [DOMAIN counted(k) -> 0..Window]
           /\ IsFiniteSet(DOMAIN counted(k))
           /\ Cardinality(DOMAIN counted(k)) <= MaxConnections
<1> DEFINE D == DOMAIN kept(k)
           numbers == 1..Cardinality(D) + 1
           unused == CHOOSE n \in numbers : n \notin D
<1>1. IsFiniteSet(D) /\ Cardinality(D) \in Nat /\ kept(k) \in [D -> 0..Window]
  BY KeptAttempts DEF Attempts
<1>2. \E n \in numbers : n \notin D
  <2>1. Cardinality(numbers) = Cardinality(D) + 1
    BY <1>1, FS_Interval
  <2>2. numbers \subseteq D => Cardinality(numbers) <= Cardinality(D)
    BY <1>1, FS_Subset
  <2> QED
    BY <1>1, <2>1, <2>2
<1>3. unused \in numbers /\ unused \notin D
  BY <1>2
<1>4. counted(k) = [n \in D \cup {unused} |-> IF n = unused THEN Window ELSE kept(k)[n]]
  BY DEF counted
<1> HIDE DEF unused, numbers
<1>5. IsFiniteSet(D \cup {unused}) /\ Cardinality(D \cup {unused}) = Cardinality(D) + 1
  BY <1>1, <1>3, FS_AddElement
<1>6. Cardinality(D) + 1 <= MaxConnections
  BY <1>1, IntegrationAssumption DEF Attempts
<1>7. Window \in 0..Window
  BY IntegrationAssumption
<1> QED
  BY <1>1, <1>4, <1>5, <1>6, <1>7

LEMMA AllowAttempted ==
    ASSUME Attempted, NEW h \in Handlers, NEW k \in Visitors, allowConnection(h, k)
    PROVE  Attempted'
<1>1. CASE attempts' = [attempts EXCEPT ![k] = kept(k)]
  BY <1>1, KeptAttempts DEF Attempted, Attempts
<1>2. CASE Attempts(k) < MaxConnections /\ attempts' = [attempts EXCEPT ![k] = counted(k)]
  BY <1>2, CountedAttempts DEF Attempted
<1> QED
  BY <1>1, <1>2 DEF allowConnection

LEMMA ElapseAttempted ==
    ASSUME Attempted, Elapse
    PROVE  Attempted'
<1> SUFFICES ASSUME NEW k \in Visitors
             PROVE  /\ IsFiniteSet(DOMAIN attempts[k])'
                    /\ (attempts[k] \in [DOMAIN attempts[k] -> 0..Window])'
                    /\ (Cardinality(DOMAIN attempts[k]) <= MaxConnections)'
  BY DEF Attempted, Elapse
<1>1. attempts'[k] = [n \in DOMAIN attempts[k] |->
                        IF attempts[k][n] > 0 THEN attempts[k][n] - 1 ELSE 0]
  BY DEF Elapse
<1>2. \A n \in DOMAIN attempts[k] : attempts[k][n] \in 0..Window
  BY DEF Attempted
<1>3. DOMAIN attempts'[k] = DOMAIN attempts[k]
  BY <1>1
<1>4. \A n \in DOMAIN attempts[k] : attempts'[k][n] \in 0..Window
  BY <1>1, <1>2, IntegrationAssumption
<1>5. attempts'[k] \in [DOMAIN attempts[k] -> 0..Window]
  BY <1>1, <1>4
<1> QED
  BY <1>3, <1>5 DEF Attempted

(* Sessions that are rewritten, none of them entering the map, are as many *)
(* as before, in the map and in all.                                       *)
LEMMA SessionsRewritten ==
    ASSUME Sessions, session' \in [DOMAIN session -> Session],
           \A s \in DOMAIN session : session'[s].listed => session[s].listed
    PROVE  Sessions' /\ DOMAIN session' = DOMAIN session /\ Len(session') = Len(session)
<1>1. DOMAIN session = 1..Len(session) /\ Len(session) \in Nat
  BY LenProperties DEF Sessions
<1>2. session' \in Seq(Session) /\ Len(session') = Len(session)
      /\ DOMAIN session' = DOMAIN session
  <2>1. session' \in Seq(Session)
    BY <1>1, SeqDef
  <2> QED
    BY <1>1, <2>1, LenProperties
<1>3. IsFiniteSet(Listed) /\ Cardinality(Listed) \in Nat
  <2>1. IsFiniteSet(1..Len(session))
    BY <1>1, FS_Interval
  <2> QED
    BY <1>1, <2>1, FS_Subset, FS_CardinalityType DEF Listed
<1>4. Listed' \subseteq Listed
  BY <1>2 DEF Listed
<1>5. Cardinality(Listed') <= Cardinality(Listed) /\ Cardinality(Listed') \in Nat
  BY <1>3, <1>4, FS_Subset, FS_CardinalityType
<1>6. Cardinality(Listed') <= MaxSessions
  BY <1>3, <1>5, IntegrationAssumption DEF Sessions
<1> QED
  BY <1>2, <1>6 DEF Sessions

(* One session is rewritten.                                               *)
LEMMA SessionReplaced ==
    ASSUME Sessions, NEW s, NEW e, session' = [session EXCEPT ![s] = e],
           s \in DOMAIN session => e \in Session /\ (e.listed => session[s].listed)
    PROVE  Sessions' /\ DOMAIN session' = DOMAIN session /\ Len(session') = Len(session)
<1>1. session \in [DOMAIN session -> Session]
  BY LenProperties DEF Sessions
<1>2. session' \in [DOMAIN session -> Session]
  BY <1>1
<1>3. \A x \in DOMAIN session : session'[x].listed => session[x].listed
  BY <1>1
<1> QED
  BY <1>2, <1>3, SessionsRewritten

LEMMA SessionClosed ==
    ASSUME Sessions, NEW s, session' = Close(s)
    PROVE  Sessions' /\ DOMAIN session' = DOMAIN session /\ Len(session') = Len(session)
<1> DEFINE e == [session[s] EXCEPT !.open = FALSE]
<1>1. session' = [session EXCEPT ![s] = e]
  BY DEF Close
<1>2. s \in DOMAIN session => session[s] \in Session
  BY LenProperties DEF Sessions
<1>3. s \in DOMAIN session => e \in Session /\ (e.listed => session[s].listed)
  BY <1>2 DEF Session
<1> HIDE DEF e
<1> QED
  BY <1>1, <1>3, SessionReplaced

LEMMA SessionTakenOut ==
    ASSUME Sessions, NEW s, session' = [session EXCEPT ![s].listed = FALSE]
    PROVE  Sessions' /\ DOMAIN session' = DOMAIN session /\ Len(session') = Len(session)
<1> DEFINE e == [session[s] EXCEPT !.listed = FALSE]
<1>1. session' = [session EXCEPT ![s] = e]
  OBVIOUS
<1>2. s \in DOMAIN session => session[s] \in Session
  BY LenProperties DEF Sessions
<1>3. s \in DOMAIN session => e \in Session /\ (e.listed => session[s].listed)
  BY <1>2 DEF Session
<1> HIDE DEF e
<1> QED
  BY <1>1, <1>3, SessionReplaced

LEMMA SessionRefers ==
    ASSUME Sessions, NEW s, NEW r,
           s \in DOMAIN session => r \in SUBSET (1..MaxCreds),
           session' = [session EXCEPT ![s].refs = r]
    PROVE  Sessions' /\ DOMAIN session' = DOMAIN session /\ Len(session') = Len(session)
<1> DEFINE e == [session[s] EXCEPT !.refs = r]
<1>1. session' = [session EXCEPT ![s] = e]
  OBVIOUS
<1>2. s \in DOMAIN session => session[s] \in Session
  BY LenProperties DEF Sessions
<1>3. s \in DOMAIN session => e \in Session /\ (e.listed => session[s].listed)
  BY <1>2 DEF Session
<1> HIDE DEF e
<1> QED
  BY <1>1, <1>3, SessionReplaced

(* A session enters the map when there is room (Connect).                  *)
LEMMA SessionEnters ==
    ASSUME Sessions, NEW s, Room, session' = [session EXCEPT ![s].listed = TRUE]
    PROVE  Sessions' /\ DOMAIN session' = DOMAIN session /\ Len(session') = Len(session)
<1> DEFINE e == [session[s] EXCEPT !.listed = TRUE]
<1>1. DOMAIN session = 1..Len(session) /\ Len(session) \in Nat
      /\ session \in [DOMAIN session -> Session]
  BY LenProperties DEF Sessions
<1>2. session' = [session EXCEPT ![s] = e]
  OBVIOUS
<1>3. s \in DOMAIN session => e \in Session
  BY <1>1 DEF Session
<1> HIDE DEF e
<1>4. session' \in [DOMAIN session -> Session]
  BY <1>1, <1>2, <1>3
<1>5. session' \in Seq(Session) /\ Len(session') = Len(session)
      /\ DOMAIN session' = DOMAIN session
  <2>1. session' \in Seq(Session)
    BY <1>1, <1>4, SeqDef
  <2> QED
    BY <1>1, <1>4, <2>1, LenProperties
<1>6. IsFiniteSet(Listed) /\ Cardinality(Listed) \in Nat
  <2>1. IsFiniteSet(1..Len(session))
    BY <1>1, FS_Interval
  <2> QED
    BY <1>1, <2>1, FS_Subset, FS_CardinalityType DEF Listed
<1>7. Listed' \subseteq Listed \cup {s}
  BY <1>1, <1>2, <1>5 DEF Listed
<1>8. IsFiniteSet(Listed \cup {s}) /\ Cardinality(Listed \cup {s}) <= Cardinality(Listed) + 1
      /\ Cardinality(Listed \cup {s}) \in Nat
  <2>1. IsFiniteSet(Listed \cup {s})
        /\ Cardinality(Listed \cup {s}) =
             IF s \in Listed THEN Cardinality(Listed) ELSE Cardinality(Listed) + 1
    BY <1>6, FS_AddElement
  <2> QED
    BY <1>6, <2>1
<1>9. Cardinality(Listed') <= Cardinality(Listed \cup {s}) /\ Cardinality(Listed') \in Nat
  BY <1>7, <1>8, FS_Subset, FS_CardinalityType
<1>10. Cardinality(Listed') <= MaxSessions
  BY <1>6, <1>8, <1>9, IntegrationAssumption DEF Room
<1> QED
  BY <1>5, <1>10 DEF Sessions

(* A new one is in no map (allowConnection).                               *)
LEMMA SessionMade ==
    ASSUME Sessions, Len(session) < MaxConnects, NEW e \in Session, ~e.listed,
           session' = Append(session, e)
    PROVE  Sessions' /\ DOMAIN session \subseteq DOMAIN session'
           /\ Len(session') = Len(session) + 1
<1>1. DOMAIN session = 1..Len(session) /\ Len(session) \in Nat
  BY LenProperties DEF Sessions
<1>2. session' \in Seq(Session) /\ Len(session') = Len(session) + 1
      /\ session'[Len(session) + 1] = e
      /\ \A x \in 1..Len(session) : session'[x] = session[x]
  BY AppendProperties DEF Sessions
<1>3. DOMAIN session' = 1..Len(session) + 1
  BY <1>2, LenProperties
<1>4. Listed' = Listed
  BY <1>1, <1>2, <1>3 DEF Listed
<1>5. Len(session') <= MaxConnects
  BY <1>1, <1>2, IntegrationAssumption
<1> QED
  BY <1>1, <1>2, <1>3, <1>4, <1>5 DEF Sessions

(* A handler moves on; sessions and credentials are only added.            *)
LEMMA CallSet ==
    ASSUME Calls, NEW h \in Handlers, NEW e, call' = [call EXCEPT ![h] = e],
           Len(session) \in Nat, Len(creds) \in Nat,
           Len(session') \in Nat, Len(creds') \in Nat,
           Len(session) <= Len(session'), Len(creds) <= Len(creds'),
           e \in [pc : Places, sid : 0..Len(session'), cred : 0..Len(creds')],
           e.pc \in Using => e.cred # 0
    PROVE  Calls'
<1>1. \A x \in Handlers :
        call[x] \in [pc : Places, sid : 0..Len(session'), cred : 0..Len(creds')]
  BY DEF Calls
<1>2. call' \in [Handlers -> [pc : Places, sid : 0..Len(session'), cred : 0..Len(creds')]]
  BY <1>1 DEF Calls
<1>3. \A x \in Handlers : call'[x].pc \in Using => call'[x].cred # 0
  BY DEF Calls
<1> QED
  BY <1>2, <1>3 DEF Calls

(* What a step of a handler leaves behind when it adds nothing.            *)
SameSize == Len(session') = Len(session) /\ Len(creds') = Len(creds)

LEMMA Lengths ==
    ASSUME Sessions, Credentials
    PROVE  /\ Len(session) \in Nat /\ DOMAIN session = 1..Len(session)
           /\ Len(creds) \in Nat /\ DOMAIN creds = 1..Len(creds)
BY LenProperties DEF Sessions, Credentials

LEMMA CallSetHere ==
    ASSUME Calls, Sessions, Credentials, SameSize, NEW h \in Handlers, NEW e,
           call' = [call EXCEPT ![h] = e],
           e \in [pc : Places, sid : 0..Len(session'), cred : 0..Len(creds')],
           e.pc \in Using => e.cred # 0
    PROVE  Calls'
<1>1. /\ Len(session) \in Nat /\ Len(creds) \in Nat
      /\ Len(session') \in Nat /\ Len(creds') \in Nat
      /\ Len(session) <= Len(session') /\ Len(creds) <= Len(creds')
  BY Lengths DEF SameSize
<1> QED
  BY <1>1, CallSet

LEMMA CallGoesOn ==
    ASSUME Calls, Sessions, Credentials, SameSize, NEW h \in Handlers, NEW pc \in Places,
           Goes(h, pc), pc \in Using => call[h].pc \in Using
    PROVE  Calls'
<1> DEFINE e == [call[h] EXCEPT !.pc = pc]
<1>1. /\ e \in [pc : Places, sid : 0..Len(session'), cred : 0..Len(creds')]
      /\ e.pc \in Using => e.cred # 0
  BY DEF Calls, SameSize
<1>2. call' = [call EXCEPT ![h] = e]
  BY DEF Goes
<1> HIDE DEF e
<1> QED
  BY <1>1, <1>2, CallSetHere

LEMMA CallEnds ==
    ASSUME Calls, Sessions, Credentials, NEW h \in Handlers, Done(h),
           Len(session') \in Nat, Len(creds') \in Nat,
           Len(session) <= Len(session'), Len(creds) <= Len(creds')
    PROVE  Calls'
<1> DEFINE e == [pc |-> "idle", sid |-> 0, cred |-> 0]
<1>1. /\ e \in [pc : Places, sid : 0..Len(session'), cred : 0..Len(creds')]
      /\ e.pc \notin Using
  BY DEF Places, Using
<1>2. call' = [call EXCEPT ![h] = e]
  BY DEF Done
<1> HIDE DEF e
<1> QED
  BY <1>1, <1>2, Lengths, CallSet

(* The same where nothing is added.                                        *)
LEMMA CallEndsHere ==
    ASSUME Calls, Sessions, Credentials, SameSize, NEW h \in Handlers, Done(h)
    PROVE  Calls'
BY Lengths, CallEnds DEF SameSize

(* A credential is rewritten.                                              *)
LEMMA CredentialsKept ==
    ASSUME Credentials, creds' \in Seq(Cred), DOMAIN creds' = DOMAIN creds
    PROVE  Credentials' /\ Len(creds') = Len(creds)
<1>1. Len(creds') = Len(creds)
  BY LenProperties DEF Credentials
<1> QED
  BY <1>1 DEF Credentials

(* The ends of sessions look no further than there are sessions.           *)
LEMMA EndsKept ==
    ASSUME Ends, UNCHANGED ending, DOMAIN session \subseteq DOMAIN session'
    PROVE  Ends'
BY DEF Ends, ending

-----------------------------------------------------------------------------
(* The steps of a handler.                                                 *)

LEMMA AllowTypes ==
    ASSUME TypeInv, NEW h \in Handlers, NEW k \in Visitors, allowConnection(h, k)
    PROVE  TypeInv'
<1> USE DEF TypeInv
<1>1. Attempted' /\ UNCHANGED <<creds, ending>>
  BY AllowAttempted DEF allowConnection
<1>2. Credentials'
  BY <1>1 DEF Credentials
<1>3. CASE UNCHANGED <<session, call>>
  BY <1>1, <1>2, <1>3 DEF Sessions, Listed, Calls, Ends, ending
<1>4. CASE /\ Len(session) < MaxConnects
           /\ \E v \in VaultChoices :
                session' = Append(session, [left |-> Ttl, vault |-> v, open |-> TRUE,
                                            listed |-> FALSE, refs |-> {}])
           /\ call' = [call EXCEPT ![h] = [pc |-> "verify", sid |-> Len(session) + 1,
                                           cred |-> 0]]
  <2> PICK v \in VaultChoices :
         session' = Append(session, [left |-> Ttl, vault |-> v, open |-> TRUE,
                                     listed |-> FALSE, refs |-> {}])
    BY <1>4
  <2> DEFINE e == [left |-> Ttl, vault |-> v, open |-> TRUE, listed |-> FALSE, refs |-> {}]
             d == [pc |-> "verify", sid |-> Len(session) + 1, cred |-> 0]
  <2>1. e \in Session /\ ~e.listed
    BY IntegrationAssumption DEF Session
  <2>2. session' = Append(session, e) /\ call' = [call EXCEPT ![h] = d]
    BY <1>4
  <2> HIDE DEF e
  <2>3. Sessions' /\ DOMAIN session \subseteq DOMAIN session'
        /\ Len(session') = Len(session) + 1
    BY <1>4, <2>1, <2>2, SessionMade
  <2>4. Len(session) \in Nat /\ Len(creds) \in Nat
    BY Lengths
  <2>5. d \in [pc : Places, sid : 0..Len(session'), cred : 0..Len(creds')] /\ d.pc \notin Using
    <3>1. Len(session) + 1 \in 0..Len(session') /\ 0 \in 0..Len(creds')
      BY <1>1, <2>3, <2>4
    <3>2. "verify" \in Places /\ "verify" \notin Using
      BY DEF Places, Using
    <3> QED
      BY <3>1, <3>2
  <2> HIDE DEF d
  <2>6. Calls'
    <3>1. /\ Len(session') \in Nat /\ Len(creds') \in Nat
          /\ Len(session) <= Len(session') /\ Len(creds) <= Len(creds')
      BY <1>1, <2>3, <2>4
    <3>2. Calls /\ (d.pc \in Using => d.cred # 0)
      BY <2>5
    <3> QED
      BY <2>2, <2>4, <2>5, <3>1, <3>2, CallSet
  <2>7. Ends'
    BY <1>1, <2>3, EndsKept
  <2> QED
    BY <1>1, <1>2, <2>3, <2>6, <2>7
<1> QED
  BY <1>3, <1>4 DEF allowConnection

(* A session that is taken out, and a handler that closes its client.      *)
LEMMA TakenOutTypes ==
    ASSUME TypeInv, NEW h \in Handlers, NEW s \in DOMAIN session,
           session' = [session EXCEPT ![s].listed = FALSE], CloseAt(h, s),
           UNCHANGED <<attempts, creds, ending>>
    PROVE  TypeInv'
<1> USE DEF TypeInv
<1> DEFINE d == [pc |-> "close", sid |-> s, cred |-> 0]
<1>1. Sessions' /\ DOMAIN session' = DOMAIN session /\ Len(session') = Len(session)
  BY SessionTakenOut
<1>2. d \in [pc : Places, sid : 0..Len(session'), cred : 0..Len(creds')] /\ d.pc \notin Using
  <2>1. s \in 0..Len(session') /\ 0 \in 0..Len(creds')
    BY <1>1, Lengths
  <2>2. "close" \in Places /\ "close" \notin Using
    BY DEF Places, Using
  <2> QED
    BY <2>1, <2>2
<1>3. call' = [call EXCEPT ![h] = d]
  BY DEF CloseAt
<1> HIDE DEF d
<1>4. Calls'
  BY <1>1, <1>2, <1>3, CallSetHere DEF SameSize
<1> QED
  BY <1>1, <1>4, EndsKept DEF Attempted, Credentials

LEMMA BeginTypes ==
    ASSUME TypeInv, NEW h \in Handlers, NEW s \in DOMAIN session, NEW pc \in Places,
           NEW c \in 0..Len(creds), pc \in Using => c # 0, Begin(h, s, pc, c)
    PROVE  TypeInv'
<1> USE DEF TypeInv
<1> DEFINE d == [pc |-> pc, sid |-> s, cred |-> c]
<1>1. UNCHANGED <<attempts, creds, ending>>
  BY DEF Begin
<1>2. CASE Expired(h, s)
  BY <1>1, <1>2, TakenOutTypes DEF Expired
<1>3. CASE UNCHANGED session /\ call' = [call EXCEPT ![h] = d]
  <2>1. d \in [pc : Places, sid : 0..Len(session'), cred : 0..Len(creds')]
        /\ (d.pc \in Using => d.cred # 0)
    <3>1. s \in 0..Len(session') /\ c \in 0..Len(creds')
      BY <1>1, <1>3, Lengths
    <3> QED
      BY <3>1
  <2> HIDE DEF d
  <2>2. Calls'
    BY <1>1, <1>3, <2>1, CallSetHere DEF SameSize
  <2>3. Ends'
    BY <1>1, <1>3, EndsKept
  <2> QED
    BY <1>1, <1>3, <2>2, <2>3 DEF Attempted, Credentials, Sessions, Listed
<1> QED
  BY <1>2, <1>3 DEF Begin

(* A handler ends, or goes on, with a credential if it needs one.          *)
Moves(h) ==
    \/ Done(h)
    \/ \E pc \in Places : Goes(h, pc) /\ (pc \in Using => call[h].pc \in Using)

LEMMA CallMovesOn ==
    ASSUME Calls, Sessions, Credentials, SameSize, NEW h \in Handlers, Moves(h)
    PROVE  Calls'
<1>1. CASE Done(h)
  BY <1>1, CallEndsHere
<1>2. ASSUME NEW pc \in Places, Goes(h, pc), pc \in Using => call[h].pc \in Using
      PROVE  Calls'
  BY <1>2, CallGoesOn
<1> QED
  BY <1>1, <1>2 DEF Moves

(* A step of a handler that rewrites sessions, or credentials.             *)
LEMMA SessionStepTypes ==
    ASSUME TypeInv, NEW h \in Handlers, Moves(h), UNCHANGED <<attempts, creds, ending>>,
           Sessions', DOMAIN session' = DOMAIN session, Len(session') = Len(session)
    PROVE  TypeInv'
<1> USE DEF TypeInv
<1>1. Calls'
  BY CallMovesOn DEF SameSize
<1>2. Ends'
  BY EndsKept
<1> QED
  BY <1>1, <1>2 DEF Attempted, Credentials

LEMMA CredentialStepTypes ==
    ASSUME TypeInv, NEW h \in Handlers, Moves(h), UNCHANGED <<attempts, session, ending>>,
           creds' \in Seq(Cred), DOMAIN creds' = DOMAIN creds
    PROVE  TypeInv'
<1> USE DEF TypeInv
<1>1. Credentials' /\ Len(creds') = Len(creds)
  BY CredentialsKept
<1>2. Calls'
  BY <1>1, CallMovesOn DEF SameSize
<1>3. Ends'
  BY EndsKept
<1> QED
  BY <1>1, <1>2, <1>3 DEF Attempted, Sessions, Listed

(* Verify, Connect, the close of a client and the vault references.        *)
LEMMA ConnectTypes ==
    ASSUME TypeInv, NEW h \in Handlers, Verify(h) \/ Connect(h) \/ CloseClient(h)
    PROVE  TypeInv'
<1> DEFINE s == call[h].sid
<1>1. Sessions
  BY DEF TypeInv
<1>2. Moves(h) /\ UNCHANGED <<attempts, creds, ending>>
  BY DEF Verify, Connect, CloseClient, Moves, Places, Using
<1>3. \/ UNCHANGED session
      \/ session' = Close(s)
      \/ Room /\ session' = [session EXCEPT ![s].listed = TRUE]
  BY DEF Verify, Connect, CloseClient
<1>4. CASE UNCHANGED session
  <2>1. Sessions'
    BY <1>1, <1>4 DEF Sessions, Listed
  <2> QED
    BY <1>2, <1>4, <2>1, SessionStepTypes
<1>5. CASE session' = Close(s)
  BY <1>1, <1>2, <1>5, SessionClosed, SessionStepTypes
<1>6. CASE Room /\ session' = [session EXCEPT ![s].listed = TRUE]
  BY <1>1, <1>2, <1>6, SessionEnters, SessionStepTypes
<1> QED
  BY <1>3, <1>4, <1>5, <1>6

LEMMA ReferTypes ==
    ASSUME TypeInv, NEW h \in Handlers, Refer(h) \/ Unrefer(h)
    PROVE  TypeInv'
<1> DEFINE s == call[h].sid
           c == call[h].cred
<1>1. Sessions /\ Credentials /\ Calls
  BY DEF TypeInv
<1>2. Moves(h) /\ UNCHANGED <<attempts, creds, ending>>
  BY DEF Refer, Unrefer, Moves
<1>3. c \in 1..MaxCreds
  <2>1. c \in 0..Len(creds) /\ c # 0 /\ Len(creds) <= MaxCreds
    BY <1>1 DEF Refer, Unrefer, Calls, Using, Credentials
  <2> QED
    BY <1>1, <2>1, Lengths, IntegrationAssumption
<1>4. s \in DOMAIN session => session[s].refs \in SUBSET (1..MaxCreds)
  <2>1. s \in DOMAIN session => session[s] \in Session
    BY <1>1, LenProperties DEF Sessions
  <2> QED
    BY <2>1 DEF Session
<1>5. CASE Refer(h)
  <2> DEFINE r == session[s].refs \cup {c}
  <2>1. session' = [session EXCEPT ![s].refs = r]
    BY <1>5 DEF Refer
  <2>2. s \in DOMAIN session => r \in SUBSET (1..MaxCreds)
    BY <1>3, <1>4
  <2> HIDE DEF r
  <2> QED
    BY <1>1, <1>2, <2>1, <2>2, SessionRefers, SessionStepTypes
<1>6. CASE Unrefer(h)
  <2> DEFINE r == session[s].refs \ {c}
  <2>1. session' = [session EXCEPT ![s].refs = r]
    BY <1>6 DEF Unrefer
  <2>2. s \in DOMAIN session => r \in SUBSET (1..MaxCreds)
    BY <1>4
  <2> HIDE DEF r
  <2> QED
    BY <1>1, <1>2, <2>1, <2>2, SessionRefers, SessionStepTypes
<1> QED
  BY <1>5, <1>6

(* addPassword makes a credential, if there is one more.                   *)
LEMMA AddTypes ==
    ASSUME TypeInv, NEW h \in Handlers, addPassword(h)
    PROVE  TypeInv'
<1> USE DEF TypeInv
<1>1. UNCHANGED <<attempts, session, ending>>
  BY DEF addPassword
<1>2. Sessions' /\ Ends'
  BY <1>1, EndsKept DEF Sessions, Listed
<1>3. CASE Done(h) /\ UNCHANGED creds
  <2>1. creds' \in Seq(Cred)
    BY <1>3 DEF Credentials
  <2> QED
    BY <1>1, <1>3, <2>1, CredentialStepTypes DEF Moves
<1>4. ASSUME Len(creds) < MaxCreds, NEW f \in {"made", "unanswered"},
             creds' = Append(creds, Password(f))
      PROVE  Credentials' /\ Len(creds') = Len(creds) + 1
  <2>1. Password(f) \in Cred
    BY DEF Password, Cred
  <2>2. creds' \in Seq(Cred) /\ Len(creds') = Len(creds) + 1
    BY <1>4, <2>1, AppendProperties DEF Credentials
  <2> QED
    BY <1>4, <2>2, Lengths, IntegrationAssumption DEF Credentials
<1>5. CASE Done(h) /\ Len(creds) < MaxCreds /\ creds' = Append(creds, Password("unanswered"))
  <2>1. Credentials' /\ Len(creds') = Len(creds) + 1
    BY <1>4, <1>5
  <2>2. Calls'
    BY <1>1, <1>5, <2>1, Lengths, CallEnds
  <2> QED
    BY <1>1, <1>2, <2>1, <2>2 DEF Attempted
<1>6. CASE /\ Len(creds) < MaxCreds /\ creds' = Append(creds, Password("made"))
           /\ \E pc \in {"reply", "put", "rollback"} : Creates(h, pc, Len(creds) + 1)
  <2>1. Credentials' /\ Len(creds') = Len(creds) + 1
    BY <1>4, <1>6
  <2> PICK pc \in {"reply", "put", "rollback"} : Creates(h, pc, Len(creds) + 1)
    BY <1>6
  <2> DEFINE d == [call[h] EXCEPT !.pc = pc, !.cred = Len(creds) + 1]
  <2>2. /\ Len(session) \in Nat /\ Len(creds) \in Nat
        /\ Len(session') = Len(session) /\ Len(creds') \in Nat
        /\ Len(creds) <= Len(creds')
        /\ Len(creds) + 1 \in 0..Len(creds') /\ Len(creds) + 1 # 0
    BY <1>1, <2>1, Lengths
  <2>3. call[h] \in [pc : Places, sid : 0..Len(session), cred : 0..Len(creds)]
    BY DEF Calls
  <2>4. d \in [pc : Places, sid : 0..Len(session'), cred : 0..Len(creds')] /\ d.cred # 0
    BY <2>2, <2>3 DEF Places
  <2>5. call' = [call EXCEPT ![h] = d]
    BY <2>3 DEF Creates, Calls
  <2> HIDE DEF d
  <2>6. Calls'
    <3>1. Calls /\ Len(session) <= Len(session') /\ Len(session') \in Nat
      BY <2>2
    <3> QED
      BY <2>2, <2>4, <2>5, <3>1, CallSet
  <2> QED
    BY <1>1, <1>2, <2>1, <2>6 DEF Attempted
<1> QED
  BY <1>3, <1>5, <1>6 DEF addPassword, Creates

(* The later steps of a request rewrite the credential it has, or none.    *)
LEMMA UseTypes ==
    ASSUME TypeInv, Shape, NEW h \in Handlers,
           \/ Store(h) \/ RemoveSecret(h) \/ Reply(h)
           \/ Read(h) \/ InvalidateSecret(h) \/ Disable(h)
    PROVE  TypeInv'
<1> DEFINE c == call[h].cred
<1>1. Moves(h) /\ UNCHANGED <<attempts, session, ending>>
  BY DEF Store, StoreFails, RemoveSecret, Reply, Read, InvalidateSecret, Disable,
         Moves, Places, Using
<1>2. \/ UNCHANGED creds
      \/ \E f \in Fates : Decided(creds', c, f)
      \/ creds' = [creds EXCEPT ![c].vault = "enabled", ![c].fate = "stored"]
      \/ Vaulted(creds', c, "enabled") \/ Vaulted(creds', c, "disabled")
      \/ Removed(creds', c)
  <2>1. CASE Store(h)
    BY <2>1 DEF Store, Decided, Vaulted, Fates
  <2>2. CASE RemoveSecret(h) \/ Reply(h)
    BY <2>2 DEF RemoveSecret, Reply, Decided, Removed, Fates
  <2>3. CASE Read(h) \/ InvalidateSecret(h)
    BY <2>3 DEF Read, InvalidateSecret, Removed
  <2>4. CASE Disable(h)
    BY <2>4 DEF Disable, Vaulted
  <2> QED
    BY <2>1, <2>2, <2>3, <2>4
<1>3. creds' \in Seq(Cred) /\ DOMAIN creds' = DOMAIN creds
  <2>1. ASSUME NEW f \in Fates, Decided(creds', c, f)
        PROVE  creds' \in Seq(Cred) /\ DOMAIN creds' = DOMAIN creds
    BY <2>1, CredDecided
  <2>2. CASE Vaulted(creds', c, "enabled") \/ Vaulted(creds', c, "disabled")
    <3>1. CASE Vaulted(creds', c, "enabled")
      BY <3>1, CredVaulted
    <3>2. CASE Vaulted(creds', c, "disabled")
      BY <3>2, CredVaulted
    <3> QED
      BY <2>2, <3>1, <3>2
  <2>3. CASE creds' = [creds EXCEPT ![c].vault = "enabled", ![c].fate = "stored"]
    BY <2>3, CredStored
  <2>4. CASE Removed(creds', c)
    BY <2>4, CredRemoved
  <2>5. CASE UNCHANGED creds
    BY <2>5 DEF Shape
  <2> QED
    BY <1>2, <2>1, <2>2, <2>3, <2>4, <2>5
<1> QED
  BY <1>1, <1>3, CredentialStepTypes

LEMMA HandlerTypes ==
    ASSUME TypeInv, Shape, NEW h \in Handlers, handle(h) \/ request(h)
    PROVE  TypeInv'
<1>1. CASE handle(h)
  BY <1>1, ConnectTypes, AddTypes, UseTypes, ReferTypes DEF handle
<1>2. CASE \E k \in Visitors : allowConnection(h, k)
  BY <1>2, AllowTypes
<1>3. ASSUME NEW s \in DOMAIN session, Disconnect(h, s) PROVE TypeInv'
  BY <1>3, TakenOutTypes DEF Disconnect
<1>4. ASSUME NEW s \in DOMAIN session, Begin(h, s, "add", 0) PROVE TypeInv'
  <2>1. "add" \in Places /\ "add" \notin Using /\ 0 \in 0..Len(creds)
    BY Lengths DEF TypeInv, Places, Using
  <2> QED
    BY <1>4, <2>1, BeginTypes
<1>5. ASSUME NEW s \in DOMAIN session, NEW c \in DOMAIN creds,
             NEW pc \in {"read", "remove", "removeVersion"}, Begin(h, s, pc, c)
      PROVE  TypeInv'
  <2>1. pc \in Places /\ c \in 0..Len(creds) /\ c # 0
    BY Lengths DEF TypeInv, Places
  <2> QED
    BY <1>5, <2>1, BeginTypes
<1> QED
  BY <1>1, <1>2, <1>3, <1>4, <1>5 DEF request, beginInvalidate

-----------------------------------------------------------------------------
(* The steps of the loop, of the manager and of time.                      *)

(* What the others do to the sessions and to the lists of those to close.  *)
LEMMA BackgroundTypes ==
    ASSUME TypeInv, UNCHANGED <<attempts, creds>>, call' = call,
           Sessions', DOMAIN session' = DOMAIN session, Len(session') = Len(session),
           expired' \subseteq DOMAIN session, drained' \subseteq DOMAIN session,
           loop' \in {"wait", "stopped"}, mgr' \in {"up", "stop", "close", "gone"}
    PROVE  TypeInv'
BY DEF TypeInv, Attempted, Credentials, Calls, Ends

LEMMA LoopTypes ==
    ASSUME TypeInv, cleanupLoop \/ Shutdown
    PROVE  TypeInv'
<1> USE DEF TypeInv
<1>1. \A s \in DOMAIN session : session[s] \in Session
  BY LenProperties DEF Sessions
<1>2. CASE expireSessions
  <2> DEFINE late == {s \in DOMAIN session : Overdue(s)}
  <2>1. /\ expired' = late /\ late \subseteq DOMAIN session
        /\ session' = [s \in DOMAIN session |->
                         IF s \in late THEN [session[s] EXCEPT !.listed = FALSE]
                         ELSE session[s]]
        /\ UNCHANGED <<attempts, creds, call, loop, mgr, drained>>
    BY <1>2 DEF expireSessions
  <2> HIDE DEF late
  <2>2. \A s \in DOMAIN session :
          session'[s] \in Session /\ (session'[s].listed => session[s].listed)
    BY <1>1, <2>1 DEF Session
  <2>3. session' \in [DOMAIN session -> Session]
    BY <2>1, <2>2
  <2>4. Sessions' /\ DOMAIN session' = DOMAIN session /\ Len(session') = Len(session)
    BY <2>2, <2>3, SessionsRewritten
  <2> QED
    BY <2>1, <2>4, BackgroundTypes DEF Ends
<1>3. ASSUME NEW s \in expired, closeExpired(s) PROVE TypeInv'
  <2>1. Sessions' /\ DOMAIN session' = DOMAIN session /\ Len(session') = Len(session)
    BY <1>3, SessionClosed DEF closeExpired
  <2> QED
    BY <1>3, <2>1, BackgroundTypes DEF closeExpired, Ends
<1>4. CASE loopStops \/ Shutdown
  <2>1. UNCHANGED <<attempts, session, creds, call, expired, drained>>
        /\ loop' \in {loop, "stopped"} /\ mgr' \in {mgr, "stop"}
    BY <1>4 DEF loopStops, Shutdown
  <2>2. Sessions'
    BY <2>1 DEF Sessions, Listed
  <2> QED
    BY <2>1, <2>2, BackgroundTypes DEF Ends
<1> QED
  BY <1>2, <1>3, <1>4 DEF cleanupLoop

LEMMA CloseManagerTypes ==
    ASSUME TypeInv, CloseManager
    PROVE  TypeInv'
<1> USE DEF TypeInv
<1>1. \A s \in DOMAIN session : session[s] \in Session
  BY LenProperties DEF Sessions
<1>2. CASE /\ drained' = Listed /\ mgr' = "close"
           /\ session' = [s \in DOMAIN session |-> [session[s] EXCEPT !.listed = FALSE]]
           /\ UNCHANGED <<attempts, creds, call, loop, expired>>
  <2>1. \A s \in DOMAIN session :
          session'[s] \in Session /\ (session'[s].listed => session[s].listed)
    BY <1>1, <1>2 DEF Session
  <2>2. session' \in [DOMAIN session -> Session]
    BY <1>2, <2>1
  <2>3. Sessions' /\ DOMAIN session' = DOMAIN session /\ Len(session') = Len(session)
    BY <2>1, <2>2, SessionsRewritten
  <2> QED
    BY <1>2, <2>3, BackgroundTypes DEF Ends, Listed
<1>3. ASSUME NEW s \in drained, session' = Close(s), drained' = drained \ {s},
             UNCHANGED <<attempts, creds, call, loop, expired, mgr>>
      PROVE  TypeInv'
  <2>1. Sessions' /\ DOMAIN session' = DOMAIN session /\ Len(session') = Len(session)
    BY <1>3, SessionClosed
  <2> QED
    BY <1>3, <2>1, BackgroundTypes DEF Ends
<1>4. CASE /\ mgr' = "gone"
           /\ session' = [s \in DOMAIN session |->
                            [session[s] EXCEPT !.open = FALSE, !.listed = FALSE]]
           /\ call' = [h \in Handlers |-> [pc |-> "idle", sid |-> 0, cred |-> 0]]
           /\ UNCHANGED <<attempts, creds, loop, expired, drained>>
  <2>1. \A s \in DOMAIN session :
          session'[s] \in Session /\ (session'[s].listed => session[s].listed)
    BY <1>1, <1>4 DEF Session
  <2>2. session' \in [DOMAIN session -> Session]
    BY <1>4, <2>1
  <2>3. Sessions' /\ DOMAIN session' = DOMAIN session /\ Len(session') = Len(session)
    BY <2>1, <2>2, SessionsRewritten
  <2>4. 0 \in 0..Len(session') /\ 0 \in 0..Len(creds')
    <3>1. creds' = creds /\ Len(session) \in Nat /\ Len(creds) \in Nat
      BY <1>4, Lengths
    <3> QED
      BY <2>3, <3>1
  <2>5. Calls'
    BY <1>4, <2>4 DEF Calls, Places, Using
  <2> QED
    BY <1>4, <2>3, <2>5 DEF Attempted, Credentials, Ends
<1> QED
  BY <1>2, <1>3, <1>4 DEF CloseManager

LEMMA ElapseTypes ==
    ASSUME TypeInv, Elapse
    PROVE  TypeInv'
<1> USE DEF TypeInv
<1>1. Attempted' /\ UNCHANGED <<creds, call, ending>>
  BY ElapseAttempted DEF Elapse
<1>2. \A s \in DOMAIN session :
        session'[s] \in Session /\ (session'[s].listed => session[s].listed)
  <2> SUFFICES ASSUME NEW s \in DOMAIN session
               PROVE  session'[s] \in Session /\ (session'[s].listed => session[s].listed)
    OBVIOUS
  <2> DEFINE left == IF session[s].left > 0 THEN session[s].left - 1 ELSE 0
  <2>1. session[s] \in Session
    BY LenProperties DEF Sessions
  <2>2. left \in 0..Ttl
    BY <2>1, IntegrationAssumption DEF Session
  <2>3. session'[s] = [session[s] EXCEPT !.left = left]
    BY DEF Elapse
  <2> HIDE DEF left
  <2> QED
    BY <2>1, <2>2, <2>3 DEF Session
<1>3. session' \in [DOMAIN session -> Session]
  BY <1>2 DEF Elapse
<1>4. Sessions' /\ DOMAIN session' = DOMAIN session /\ Len(session') = Len(session)
  BY <1>2, <1>3, SessionsRewritten
<1>5. Calls' /\ Ends'
  BY <1>1, <1>4 DEF Calls, Ends, ending
<1> QED
  BY <1>1, <1>4, <1>5 DEF Credentials

LEMMA TypeStep == TypeInv /\ Shape /\ [Next]_vars => TypeInv'
<1> SUFFICES ASSUME TypeInv, Shape, [Next]_vars PROVE TypeInv'
  OBVIOUS
<1>1. CASE UNCHANGED vars
  BY <1>1 DEF vars, ending, TypeInv, Attempted, Sessions, Listed, Credentials, Calls, Ends
<1>2. CASE Next
  BY <1>2, HandlerTypes, LoopTypes, CloseManagerTypes, ElapseTypes DEF Next
<1> QED
  BY <1>1, <1>2

LEMMA TypeInit == Init => TypeInv
<1> SUFFICES ASSUME Init PROVE TypeInv
  OBVIOUS
<1>1. Attempted
  <2>1. \A k \in Visitors : attempts[k] = <<>> /\ DOMAIN attempts[k] = {}
    BY DEF Init
  <2>2. IsFiniteSet({}) /\ Cardinality({}) = 0
    BY FS_EmptySet
  <2> QED
    BY <2>1, <2>2, IntegrationAssumption DEF Init, Attempted
<1>2. Sessions
  <2>1. session \in Seq(Session) /\ Len(session) = 0 /\ Listed = {}
    BY DEF Init, Listed
  <2>2. Cardinality({}) = 0
    BY FS_EmptySet
  <2> QED
    BY <2>1, <2>2, IntegrationAssumption DEF Sessions
<1>3. Credentials
  BY IntegrationAssumption DEF Init, Credentials
<1>4. Calls
  BY DEF Init, Calls, Places, Using
<1>5. Ends
  BY DEF Init, Ends
<1> QED
  BY <1>1, <1>2, <1>3, <1>4, <1>5 DEF TypeInv

(* Every variable keeps its shape, the map its cap and the attempts of a   *)
(* visitor their limit, for any number of handlers that connect at the     *)
(* same time (allowConnection, Connect, expireSessions, Close).            *)
THEOREM IntegrationTypeCorrect == Spec => []TypeOK
<1>1. Inv => Shape
  BY DEF Inv
<1>2. TypeInv => TypeOK
  BY DEF TypeInv, Attempted, Sessions, Credentials, Calls, Ends, TypeOK
<1> QED
  BY <1>1, <1>2, InitInv, NextInv, TypeInit, TypeStep, PTL DEF Spec
=============================================================================
