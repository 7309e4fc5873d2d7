---------------------------- MODULE Integration -----------------------------
(***************************************************************************)
(* The interactive Azure sessions (internal/lifecycle/integration.go) with *)
(* the client of each (internal/provider/azure.go, keyvault.go): connect,  *)
(* expiry, disconnect, shutdown, and the credentials that handlers create, *)
(* read and invalidate through a session that may be closed under them.    *)
(*                                                                         *)
(* Session ids are random and fresh; sessions and credentials are numbered *)
(* in the order of their creation.  A client that is closed gets no token, *)
(* so every later call through it fails; a call is made while it is open   *)
(* and answers, or fails before or after it took effect.                   *)
(***************************************************************************)
EXTENDS Naturals, Sequences, FiniteSets, Functions

CONSTANTS
    Handlers,       \* goroutines: requests served at the same time
    Visitors,       \* rate keys
    MaxSessions,    \* sessions kept: 50
    MaxConnections, \* connection attempts of a visitor in a Window: 5
    Window,         \* one hour, in units of time
    Ttl,            \* life of a session, in units of time
    VaultChoices,   \* whether visitors configure a Key Vault
    MaxConnects,    \* bound: clients created
    MaxCreds        \* bound: credentials created

ASSUME IntegrationAssumption ==
    /\ IsFiniteSet(Handlers)
    /\ MaxSessions \in Nat \ {0} /\ MaxConnections \in Nat \ {0}
    /\ VaultChoices \subseteq BOOLEAN
    /\ Window \in Nat \ {0} /\ Ttl \in Nat \ {0}
    /\ MaxConnects \in Nat /\ MaxCreds \in Nat

VARIABLES
    attempts,   \* attempts[k]: for each attempt of k, numbered, the time it still counts
    session,    \* session[s]: the session, in the map or not, with its client
    creds,      \* creds[c]: the password at Graph and its copy in Key Vault
    call,       \* call[h]: where a request is, its session and its credential
    loop,       \* cleanupLoop: "wait" or "stopped"
    expired,    \* sessions the loop took out of the map and has yet to close
    mgr,        \* the manager: "up", "stop", "close" or "gone"
    drained     \* sessions Close took out of the map and has yet to close

ending == <<loop, expired, mgr, drained>>
vars == <<attempts, session, creds, call, ending>>

Session ==
    [left : 0..Ttl, vault : BOOLEAN, open : BOOLEAN, listed : BOOLEAN,
     refs : SUBSET (1..MaxCreds)]

(* What became of a credential is history the code does not keep: made,    *)
(* told to the caller, stored in the vault, its creation unanswered, its   *)
(* rollback failed, or the session closed before it was stored or removed. *)
Cred ==
    [live : BOOLEAN, vault : {"none", "enabled", "disabled"},
     fate : {"made", "told", "stored", "unanswered", "unremoved", "abandoned"}]

Places == {"idle", "verify", "store", "close", "add", "put", "rollback", "refer", "reply",
           "read", "rerefer", "remove", "removeVersion", "disable", "disableVersion",
           "unrefer"}

Listed == {s \in DOMAIN session : session[s].listed}

Open(h) == session[call[h].sid].open

(* The manager takes requests until the server shuts down, and the         *)
(* requests it has taken go on until the process is gone.                  *)
Serving == mgr = "up"
Running == mgr # "gone"

(* The request goes on at pc; it is answered.                              *)
Goes(h, pc) == call' = [call EXCEPT ![h].pc = pc]
Done(h) == call' = [call EXCEPT ![h] = [pc |-> "idle", sid |-> 0, cred |-> 0]]

(* The client is closed: its secret, tokens and vault client are gone.     *)
Close(s) == [session EXCEPT ![s].open = FALSE]

-----------------------------------------------------------------------------
(* Connect.                                                                *)

(* The attempts of k that still count, and with them one made now.         *)
kept(k) == RestrictValues(attempts[k], LAMBDA left : left > 0)

counted(k) ==
    LET unused == CHOOSE n \in 1..Cardinality(DOMAIN kept(k)) + 1 : n \notin DOMAIN kept(k)
    IN  [n \in DOMAIN kept(k) \cup {unused} |-> IF n = unused THEN Window ELSE kept(k)[n]]

Attempts(k) == Cardinality(DOMAIN kept(k))

(* A visitor over the limit is refused.  An invalid request counts as well *)
(* as one for which a client is made, open and in no map.  The session's   *)
(* life counts from here.                                                  *)
allowConnection(h, k) ==
    /\ Serving
    /\ call[h].pc = "idle"
    /\ \/ /\ Attempts(k) >= MaxConnections
          /\ attempts' = [attempts EXCEPT ![k] = kept(k)]
          /\ UNCHANGED <<session, call>>
       \/ /\ Attempts(k) < MaxConnections
          /\ attempts' = [attempts EXCEPT ![k] = counted(k)]
          /\ \/ UNCHANGED <<session, call>>
             \/ /\ Len(session) < MaxConnects
                /\ \E v \in VaultChoices :
                     session' = Append(session, [left |-> Ttl, vault |-> v, open |-> TRUE,
                                                 listed |-> FALSE, refs |-> {}])
                /\ call' = [call EXCEPT ![h] = [pc |-> "verify", sid |-> Len(session) + 1,
                                                cred |-> 0]]
    /\ UNCHANGED <<creds, ending>>

(* Verify asks Graph; when it fails the client is closed.                  *)
Verify(h) ==
    /\ Running
    /\ call[h].pc = "verify"
    /\ \/ Goes(h, "store") /\ UNCHANGED session
       \/ Done(h) /\ session' = Close(call[h].sid)
    /\ UNCHANGED <<attempts, creds, ending>>

(* Fault: there is always room for one more session.                       *)
RoomAlways == TRUE

Room == Cardinality(Listed) < MaxSessions

(* The cap is checked and the session stored under the mutex.              *)
Connect(h) ==
    /\ Running
    /\ call[h].pc = "store"
    /\ \/ Room /\ session' = [session EXCEPT ![call[h].sid].listed = TRUE]
       \/ ~Room /\ session' = Close(call[h].sid)
    /\ Done(h)
    /\ UNCHANGED <<attempts, creds, ending>>

-----------------------------------------------------------------------------
(* The ends of a session.  It is taken out of the map under the mutex, and *)
(* its client is closed afterwards.                                        *)

(* Fault: the session is dropped and its client left to itself.            *)
ForgetAt(h, s) == call' = call

(* The handler has yet to close the client of s.                           *)
CloseAt(h, s) == call' = [call EXCEPT ![h] = [pc |-> "close", sid |-> s, cred |-> 0]]

Disconnect(h, s) ==
    /\ Serving
    /\ call[h].pc = "idle"
    /\ s \in Listed
    /\ session' = [session EXCEPT ![s].listed = FALSE]
    /\ CloseAt(h, s)
    /\ UNCHANGED <<attempts, creds, ending>>

(* A request that finds its session expired takes it out.                  *)
Expired(h, s) ==
    /\ session[s].left = 0
    /\ session' = [session EXCEPT ![s].listed = FALSE]
    /\ CloseAt(h, s)

CloseClient(h) ==
    /\ Running
    /\ call[h].pc = "close"
    /\ session' = Close(call[h].sid)
    /\ Done(h)
    /\ UNCHANGED <<attempts, creds, ending>>

(* Fault: the expiry is compared the wrong way round.                      *)
OverdueNever(s) == session[s].listed /\ session[s].left < 0

Overdue(s) == session[s].listed /\ session[s].left = 0

(* A tick of cleanupLoop, after it has closed the clients of the last one. *)
expireSessions ==
    /\ Running
    /\ loop = "wait"
    /\ expired = {}
    /\ LET late == {s \in DOMAIN session : Overdue(s)}
       IN  /\ late # {}
           /\ expired' = late
           /\ session' = [s \in DOMAIN session |->
                            IF s \in late THEN [session[s] EXCEPT !.listed = FALSE]
                            ELSE session[s]]
    /\ UNCHANGED <<attempts, creds, call, loop, mgr, drained>>

closeExpired(s) ==
    /\ Running
    /\ s \in expired
    /\ session' = Close(s)
    /\ expired' = expired \ {s}
    /\ UNCHANGED <<attempts, creds, call, loop, mgr, drained>>

(* Fault: the loop sees the stop only at a tick that expires something.    *)
loopStopsLate ==
    /\ mgr = "stop" /\ loop = "wait" /\ expired # {}
    /\ loop' = "stopped"
    /\ UNCHANGED <<attempts, session, creds, call, expired, mgr, drained>>

(* The loop stops between two ticks.                                       *)
loopStops ==
    /\ mgr = "stop" /\ loop = "wait" /\ expired = {}
    /\ loop' = "stopped"
    /\ UNCHANGED <<attempts, session, creds, call, expired, mgr, drained>>

(* The server stops taking requests and the manager's Close asks the loop  *)
(* to stop; requests that outlive the server's grace period go on.         *)
Shutdown ==
    /\ mgr = "up"
    /\ mgr' = "stop"
    /\ UNCHANGED <<attempts, session, creds, call, loop, expired, drained>>

(* Close waits for the loop, takes all sessions out of the map, closes     *)
(* their clients; the process exits, and with it what is left.             *)
CloseManager ==
    \/ /\ mgr = "stop" /\ loop = "stopped"
       /\ mgr' = "close"
       /\ drained' = Listed
       /\ session' = [s \in DOMAIN session |-> [session[s] EXCEPT !.listed = FALSE]]
       /\ UNCHANGED <<attempts, creds, call, loop, expired>>
    \/ /\ mgr = "close"
       /\ \E s \in drained : session' = Close(s) /\ drained' = drained \ {s}
       /\ UNCHANGED <<attempts, creds, call, loop, expired, mgr>>
    \/ /\ mgr = "close" /\ drained = {}
       /\ mgr' = "gone"
       /\ session' = [s \in DOMAIN session |->
                        [session[s] EXCEPT !.open = FALSE, !.listed = FALSE]]
       /\ call' = [h \in Handlers |-> [pc |-> "idle", sid |-> 0, cred |-> 0]]
       /\ UNCHANGED <<attempts, creds, loop, expired, drained>>

-----------------------------------------------------------------------------
(* Operations on credentials.  Each begins with session(): the request is  *)
(* refused without a session, ends an expired one, and works on with the   *)
(* session it found, whatever becomes of it in the map.                    *)

Begin(h, s, pc, c) ==
    /\ Serving
    /\ call[h].pc = "idle"
    /\ s \in Listed
    /\ \/ Expired(h, s)
       \/ /\ session[s].left > 0
          /\ call' = [call EXCEPT ![h] = [pc |-> pc, sid |-> s, cred |-> c]]
          /\ UNCHANGED session
    /\ UNCHANGED <<attempts, creds, ending>>

(* A new password.                                                         *)
Password(fate) == [live |-> TRUE, vault |-> "none", fate |-> fate]

(* CreateSecret: addPassword.  The caller wants the secret in the vault,   *)
(* or handed over; a password that comes without its text is rolled back.  *)
addPassword(h) ==
    /\ Running
    /\ call[h].pc = "add"
    /\ \/ /\ Open(h)
          /\ Len(creds) < MaxCreds
          /\ \/ /\ \E pc \in {"reply", "put", "rollback"} :
                    /\ pc = "put" => session[call[h].sid].vault
                    /\ call' = [call EXCEPT ![h].pc = pc, ![h].cred = Len(creds) + 1]
                /\ creds' = Append(creds, Password("made"))
             \/ Done(h) /\ creds' = Append(creds, Password("unanswered"))
       \/ Done(h) /\ UNCHANGED creds
    /\ UNCHANGED <<attempts, session, ending>>

(* Fault: a failed vault write is reported and nothing else.               *)
StoreReported(h) == Done(h)

(* A failed vault write is rolled back.                                    *)
StoreFails(h) == Goes(h, "rollback")

(* KeyVaultClient.Store.  The vault client is gone when the session was    *)
(* closed meanwhile, and then nothing is rolled back.                      *)
Store(h) ==
    LET c == call[h].cred
    IN  /\ Running
        /\ call[h].pc = "put"
        /\ \/ /\ ~Open(h)
              /\ creds' = [creds EXCEPT ![c].fate = "abandoned"]
              /\ Done(h)
           \/ /\ Open(h)
              /\ creds' = [creds EXCEPT ![c].vault = "enabled", ![c].fate = "stored"]
              /\ Goes(h, "refer")
           \/ /\ Open(h)
              /\ creds' \in {creds, [creds EXCEPT ![c].vault = "enabled"]}
              /\ StoreFails(h)
        /\ UNCHANGED <<attempts, session, ending>>

(* The rollback: RemoveSecret, whose failure is ignored.                   *)
RemoveSecret(h) ==
    LET c == call[h].cred
    IN  /\ Running
        /\ call[h].pc = "rollback"
        /\ \/ /\ ~Open(h)
              /\ creds' = [creds EXCEPT ![c].fate = "abandoned"]
           \/ /\ Open(h)
              /\ creds' \in {[creds EXCEPT ![c].live = FALSE],
                            [creds EXCEPT ![c].fate = "unremoved"]}
        /\ Done(h)
        /\ UNCHANGED <<attempts, session, ending>>

(* ReadSecret asks the vault for the secret, which must be enabled.        *)
Read(h) ==
    /\ Running
    /\ call[h].pc = "read"
    /\ \/ /\ Open(h) /\ session[call[h].sid].vault
          /\ creds[call[h].cred].vault = "enabled"
          /\ Goes(h, "rerefer")
       \/ Done(h)
    /\ UNCHANGED <<attempts, session, creds, ending>>

(* CreateSecret and ReadSecret note the vault reference in the session.    *)
Refer(h) ==
    /\ Running
    /\ call[h].pc \in {"refer", "rerefer"}
    /\ session' = [session EXCEPT ![call[h].sid].refs = @ \cup {call[h].cred}]
    /\ Done(h)
    /\ UNCHANGED <<attempts, creds, ending>>

(* The answer with the one-time secret, published or not.                  *)
Reply(h) ==
    /\ Running
    /\ call[h].pc = "reply"
    /\ creds' = [creds EXCEPT ![call[h].cred].fate = "told"]
    /\ Done(h)
    /\ UNCHANGED <<attempts, session, ending>>

(* InvalidateSecret knows the version of the secret from the session, as   *)
(* it is when it begins, or else from the request, which may name none.    *)
beginInvalidate(h, s, c) ==
    \/ c \notin session[s].refs /\ Begin(h, s, "remove", c)
    \/ /\ c \in session[s].refs \/ creds[c].vault # "none"
       /\ Begin(h, s, "removeVersion", c)

(* removePassword at Graph, which refuses a password that is gone.         *)
InvalidateSecret(h) ==
    LET c == call[h].cred
    IN  /\ Running
        /\ call[h].pc \in {"remove", "removeVersion"}
        /\ \/ /\ Open(h) /\ creds[c].live
              /\ creds' = [creds EXCEPT ![c].live = FALSE]
              /\ Goes(h, IF call[h].pc = "remove" THEN "disable" ELSE "disableVersion")
           \/ /\ creds' \in {creds} \cup
                   IF Open(h) THEN {[creds EXCEPT ![c].live = FALSE]} ELSE {}
              /\ Done(h)
        /\ UNCHANGED <<attempts, session, ending>>

(* KeyVaultClient.Disable: by the version that is known, or else by the    *)
(* current one, which the vault does not give when there is none or it is  *)
(* disabled.  Without a vault client the credential counts as invalidated. *)
Disable(h) ==
    LET c == call[h].cred
        s == call[h].sid
        known == creds[c].vault = "enabled" \/ call[h].pc = "disableVersion"
    IN  /\ Running
        /\ call[h].pc \in {"disable", "disableVersion"}
        /\ \/ /\ ~Open(h) \/ ~session[s].vault
              /\ Goes(h, "unrefer")
              /\ UNCHANGED creds
           \/ /\ Open(h) /\ session[s].vault /\ known
              /\ creds' = [creds EXCEPT ![c].vault = "disabled"]
              /\ Goes(h, "unrefer")
           \/ /\ Open(h) /\ session[s].vault
              /\ creds' \in {creds} \cup
                   IF known THEN {[creds EXCEPT ![c].vault = "disabled"]} ELSE {}
              /\ Done(h)
        /\ UNCHANGED <<attempts, session, ending>>

Unrefer(h) ==
    /\ Running
    /\ call[h].pc = "unrefer"
    /\ session' = [session EXCEPT ![call[h].sid].refs = @ \ {call[h].cred}]
    /\ Done(h)
    /\ UNCHANGED <<attempts, creds, ending>>

(* Time passes.                                                            *)
Elapse ==
    /\ Running
    /\ session' = [s \in DOMAIN session |->
                     [session[s] EXCEPT !.left = IF @ > 0 THEN @ - 1 ELSE 0]]
    /\ attempts' = [k \in Visitors |-> [n \in DOMAIN attempts[k] |->
                      IF attempts[k][n] > 0 THEN attempts[k][n] - 1 ELSE 0]]
    /\ UNCHANGED <<creds, call, ending>>

-----------------------------------------------------------------------------
Init ==
    /\ attempts = [k \in Visitors |-> <<>>]
    /\ session = <<>>
    /\ creds = <<>>
    /\ call = [h \in Handlers |-> [pc |-> "idle", sid |-> 0, cred |-> 0]]
    /\ loop = "wait"
    /\ expired = {}
    /\ mgr = "up"
    /\ drained = {}

(* A request that was taken goes on.                                       *)
handle(h) ==
    \/ Verify(h) \/ Connect(h) \/ CloseClient(h)
    \/ addPassword(h) \/ Store(h) \/ RemoveSecret(h) \/ Reply(h)
    \/ Read(h) \/ Refer(h) \/ InvalidateSecret(h) \/ Disable(h) \/ Unrefer(h)

(* A request arrives.                                                      *)
request(h) ==
    \/ \E k \in Visitors : allowConnection(h, k)
    \/ \E s \in DOMAIN session :
         \/ Disconnect(h, s)
         \/ Len(creds) < MaxCreds /\ Begin(h, s, "add", 0)
         \/ \E c \in DOMAIN creds : Begin(h, s, "read", c) \/ beginInvalidate(h, s, c)

cleanupLoop == expireSessions \/ (\E s \in expired : closeExpired(s)) \/ loopStops

Next ==
    \/ \E h \in Handlers : handle(h) \/ request(h)
    \/ cleanupLoop \/ Shutdown \/ CloseManager \/ Elapse

Spec == Init /\ [][Next]_vars

(* Time passes, tickers fire, goroutines run and calls to Azure return.    *)
FairSpec ==
    /\ Spec
    /\ \A h \in Handlers : WF_vars(handle(h))
    /\ WF_vars(cleanupLoop) /\ WF_vars(CloseManager) /\ WF_vars(Elapse)

-----------------------------------------------------------------------------
(* Properties.                                                             *)

(* Every variable keeps its shape, and the map and the attempts of a       *)
(* visitor their limits.                                                   *)
TypeOK ==
    /\ \A k \in Visitors : /\ attempts[k] \in [DOMAIN attempts[k] -> 0..Window]
                            /\ Cardinality(DOMAIN attempts[k]) <= MaxConnections
    /\ session \in Seq(Session)
    /\ Len(session) <= MaxConnects
    /\ Cardinality(Listed) <= MaxSessions
    /\ creds \in Seq(Cred)
    /\ Len(creds) <= MaxCreds
    /\ call \in [Handlers -> [pc : Places, sid : 0..Len(session), cred : 0..Len(creds)]]
    /\ loop \in {"wait", "stopped"}
    /\ expired \subseteq DOMAIN session
    /\ mgr \in {"up", "stop", "close", "gone"}
    /\ drained \subseteq DOMAIN session

(* The secret of a tenant is held by no client that everybody has          *)
(* forgotten: one that is open is in the map, is being connected, or is    *)
(* about to be closed by whoever took it out (Connect, Disconnect,         *)
(* session, expireSessions, Close).                                        *)
NoClientForgotten ==
    \A s \in DOMAIN session : session[s].open =>
        \/ session[s].listed
        \/ s \in expired \cup drained
        \/ \E h \in Handlers : call[h].sid = s /\ call[h].pc \in {"verify", "store", "close"}

(* A usable credential nobody knows of is left behind only when Graph did  *)
(* not answer its creation, when its rollback failed, when the session was *)
(* closed before the vault had it, or when the process exited              *)
(* (CreateSecret).                                                         *)
NoneLeftBehind ==
    \A c \in DOMAIN creds : creds[c].live /\ creds[c].fate = "made" =>
        \/ mgr = "gone"
        \/ \E h \in Handlers : call[h].cred = c /\ call[h].pc \in {"put", "rollback", "reply"}

(* Every client is closed in the end: sessions do not outlive their time.  *)
ClientsClosed ==
    \A s \in 1..MaxConnects :
        s \in DOMAIN session ~> s \in DOMAIN session /\ ~session[s].open

(* A shutdown completes: Close does not wait for ever.                     *)
CloseReturns == mgr = "stop" ~> mgr = "gone"
=============================================================================
