-------------------------------- MODULE Auth --------------------------------
(***************************************************************************)
(* Browser sessions through OIDC (internal/web/auth.go): the login state   *)
(* and the session that a browser keeps in cookies, the callback with its  *)
(* calls to the identity provider, the cached signing keys, the session    *)
(* store, logout.                                                          *)
(*                                                                         *)
(* Logins are numbered in the order in which they begin; state, nonce,     *)
(* verifier, code and session id of a login are its number, random and     *)
(* fresh in the code.  Discovery gives the same document every time, so    *)
(* that only its failure matters.  A refused request that changes nothing  *)
(* is no step.                                                             *)
(***************************************************************************)
EXTENDS Naturals, Sequences

CONSTANTS
    Handlers,       \* goroutines: requests served at the same time
    Browsers,
    StateTtl,       \* life of a login state, in units of time: ten minutes
    SessionTtl,     \* life of a session: eight hours
    KeyTtl,         \* life of the cached keys: ten minutes
    MaxDelay,       \* time an answer of the provider may take: ten seconds
    MaxLogins,      \* bound: logins begun
    MaxKeys         \* bound: signing keys of the provider

ASSUME AuthAssumption ==
    /\ StateTtl \in Nat \ {0} /\ SessionTtl \in Nat \ {0} /\ KeyTtl \in Nat \ {0}
    /\ MaxDelay \in Nat
    /\ MaxLogins \in Nat \ {0} /\ MaxKeys \in Nat \ {0}

VARIABLES
    jar,        \* jar[b]: the login in the state cookie, and in the session cookie
    login,      \* login[n]: its browser, the life left to its state, its code
    session,    \* session[n]: not yet made, stored, expired or ended; its life left
    sign,       \* the key the provider signs with
    published,  \* the keys it publishes
    gone,       \* gone[k]: time since k was withdrawn
    jwks,       \* the cached keys
    fresh,      \* time for which they still count
    call        \* call[h]: where a callback or logout is, and what it works on

provider == <<sign, published, gone>>
cache == <<jwks, fresh>>
vars == <<jar, login, session, provider, cache, call>>

Logins == 1..MaxLogins
Keys == 1..MaxKeys

(* key is the one that signed the ID token, doc the key document on its    *)
(* way, wait the time it has been, forced that the cache is not asked.     *)
Call ==
    [pc : {"idle", "exchange", "verify", "fetch", "doc", "put", "reply", "refused",
           "unknown", "delete", "cleared"},
     login : 0..MaxLogins, key : 0..MaxKeys, doc : SUBSET Keys, wait : 0..MaxDelay,
     forced : BOOLEAN, browser : Browsers]

Idle(b) ==
    [pc |-> "idle", login |-> 0, key |-> 0, doc |-> {}, wait |-> 0, forced |-> FALSE,
     browser |-> b]

(* The request goes on at pc; it has what it needed from the provider, or  *)
(* is refused; it was answered.                                            *)
Goes(h, pc) == call' = [call EXCEPT ![h].pc = pc]
Ends(h, pc) ==
    call' = [call EXCEPT ![h] = [Idle(@.browser) EXCEPT !.pc = pc, !.login = call[h].login]]
Done(h) == call' = [call EXCEPT ![h] = Idle(@.browser)]

-----------------------------------------------------------------------------
(* Login: the browser gets a state cookie in the place of the last one.    *)
Login(b) ==
    /\ Len(login) < MaxLogins
    /\ login' = Append(login, [browser |-> b, left |-> StateTtl, code |-> "none"])
    /\ jar' = [jar EXCEPT ![b].state = Len(login) + 1]
    /\ UNCHANGED <<session, provider, cache, call>>

(* The user authenticates, and the provider sends the browser back.        *)
Authenticate(n) ==
    /\ login[n].code = "none"
    /\ login' = [login EXCEPT ![n].code = "issued"]
    /\ UNCHANGED <<jar, session, provider, cache, call>>

(* The callback, possibly repeated by the browser.  The state cookie is    *)
(* cleared by every answer, whatever the checks say.                       *)
Callback(h, n) ==
    LET b == login[n].browser
        cookie == jar[b].state
    IN  /\ call[h].pc = "idle"
        /\ login[n].code # "none"
        /\ cookie # 0
        /\ call' = [call EXCEPT ![h] = [Idle(b) EXCEPT
                      !.login = n,
                      !.pc = IF cookie = n /\ login[n].left > 0 THEN "exchange"
                             ELSE "refused"]]
        /\ UNCHANGED <<jar, login, session, provider, cache>>

(* The provider takes a code once and signs the token; the call fails      *)
(* before or after that.                                                   *)
Exchange(h) ==
    LET n == call[h].login
    IN  /\ call[h].pc = "exchange"
        /\ \/ /\ login[n].code = "issued"
              /\ login' = [login EXCEPT ![n].code = "used"]
              /\ \/ call' = [call EXCEPT ![h].pc = "verify", ![h].key = sign]
                 \/ Ends(h, "refused")
           \/ Ends(h, "refused") /\ UNCHANGED login
        /\ UNCHANGED <<jar, session, provider, cache>>

(* Fault: the cache counts for ever once it was filled.                    *)
CacheAlwaysFresh == jwks # {}

CacheFresh == jwks # {} /\ fresh > 0

(* Fault: a key that the fresh cache lacks is unknown.                     *)
UnknownAtOnce(h) == Goes(h, "unknown")

(* A key that the fresh cache lacks: the document is fetched by force.     *)
NotCached(h) == call' = [call EXCEPT ![h].pc = "fetch", ![h].forced = TRUE]

(* verifyIDToken looks the key up in the cache, if that is fresh.          *)
VerifyIDToken(h) ==
    /\ call[h].pc = "verify"
    /\ \/ CacheFresh /\ call[h].key \in jwks /\ Ends(h, "put")
       \/ CacheFresh /\ call[h].key \notin jwks /\ NotCached(h)
       \/ ~CacheFresh /\ Goes(h, "fetch")
    /\ UNCHANGED <<jar, login, session, provider, cache>>

(* The provider answers with the keys it publishes now, or not at all.     *)
FetchJWKS(h) ==
    /\ call[h].pc = "fetch"
    /\ \/ call' = [call EXCEPT ![h].pc = "doc", ![h].doc = published, ![h].wait = 0]
       \/ Ends(h, "refused")
    /\ UNCHANGED <<jar, login, session, provider, cache>>

(* Fault: every fetch that lacks the key is followed by another.           *)
FetchAgain(h) == Goes(h, "fetch")

(* A key that the document lacks: fetched once more, by force, or unknown. *)
Missing(h) == IF call[h].forced THEN Goes(h, "unknown") ELSE NotCached(h)

(* The document arrives and is cached, over one that may be newer; or its  *)
(* arrival fails.                                                          *)
Cached(h) ==
    /\ call[h].pc = "doc"
    /\ \/ /\ jwks' = call[h].doc
          /\ fresh' = KeyTtl
          /\ \/ call[h].key \in call[h].doc /\ Ends(h, "put")
             \/ call[h].key \notin call[h].doc /\ Missing(h)
       \/ Ends(h, "refused") /\ UNCHANGED cache
    /\ UNCHANGED <<jar, login, session, provider>>

(* Fault: the error of Put is dropped.                                     *)
PutFailsUnseen(h) == Goes(h, "reply")

PutFails(h) == Ends(h, "refused")

(* Fault: the session lives for as long as a login state besides.          *)
ExpiryLate == SessionTtl + StateTtl

Expiry == SessionTtl

(* The session is stored.  Put fails when the request was cancelled.       *)
Put(h) ==
    /\ call[h].pc = "put"
    /\ \/ /\ session' = [session EXCEPT ![call[h].login] =
                           [is |-> "stored", left |-> Expiry]]
          /\ Goes(h, "reply")
       \/ PutFails(h) /\ UNCHANGED session
    /\ UNCHANGED <<jar, login, provider, cache>>

(* The answers: the browser takes its cookies, or is gone.  They are for   *)
(* the cookies it has by then.                                             *)
Reply(h) ==
    LET b == call[h].browser
        set == CASE call[h].pc = "reply" -> [state |-> 0, session |-> call[h].login]
                 [] call[h].pc \in {"refused", "unknown"} -> [jar[b] EXCEPT !.state = 0]
                 [] call[h].pc = "cleared" -> [jar[b] EXCEPT !.session = 0]
    IN  /\ call[h].pc \in {"reply", "refused", "unknown", "cleared"}
        /\ jar' \in {jar, [jar EXCEPT ![b] = set]}
        /\ Done(h)
        /\ UNCHANGED <<login, session, provider, cache>>

-----------------------------------------------------------------------------
(* A request with the cookie of an expired session removes it.             *)
Get(b) ==
    LET n == jar[b].session
    IN  /\ n # 0
        /\ session[n].is = "stored" /\ session[n].left = 0
        /\ session' = [session EXCEPT ![n].is = "expired"]
        /\ UNCHANGED <<jar, login, provider, cache, call>>

(* Logout reads the session cookie.                                        *)
Logout(h, b) ==
    /\ call[h].pc = "idle"
    /\ jar[b].session # 0
    /\ call' = [call EXCEPT ![h] = [Idle(b) EXCEPT !.pc = "delete",
                                                    !.login = jar[b].session]]
    /\ UNCHANGED <<jar, login, session, provider, cache>>

(* It deletes the session; whether that worked or not, the answer clears   *)
(* the cookie.  The request may also be cancelled without an answer.       *)
Delete(h) ==
    /\ call[h].pc = "delete"
    /\ session' \in {session, [session EXCEPT ![call[h].login].is = "ended"]}
    /\ Goes(h, "cleared") \/ Done(h)
    /\ UNCHANGED <<jar, login, provider, cache>>

-----------------------------------------------------------------------------
(* The provider publishes a key before it signs with it, and withdraws one *)
(* that it does not sign with any more.                                    *)
RotateKey ==
    /\ sign < MaxKeys
    /\ sign' = sign + 1
    /\ published' = published \cup {sign + 1}
    /\ UNCHANGED <<jar, login, session, gone, cache, call>>

Withdraw(k) ==
    /\ k \in published /\ k # sign
    /\ published' = published \ {k}
    /\ UNCHANGED <<jar, login, session, sign, gone, cache, call>>

Least(x, y) == IF x < y THEN x ELSE y
Less(x) == IF x > 0 THEN x - 1 ELSE 0

(* Time passes.  A document on its way is given up after MaxDelay.         *)
Elapse ==
    /\ \A h \in Handlers : call[h].pc = "doc" => call[h].wait < MaxDelay
    /\ login' = [n \in DOMAIN login |-> [login[n] EXCEPT !.left = Less(@)]]
    /\ session' = [n \in Logins |-> [session[n] EXCEPT !.left = Less(@)]]
    /\ gone' = [k \in Keys |-> IF k < sign /\ k \notin published
                               THEN Least(gone[k] + 1, KeyTtl + MaxDelay) ELSE gone[k]]
    /\ fresh' = Less(fresh)
    /\ call' = [h \in Handlers |-> [call[h] EXCEPT !.wait =
                                      IF call[h].pc = "doc" THEN @ + 1 ELSE @]]
    /\ UNCHANGED <<jar, sign, published, jwks>>

-----------------------------------------------------------------------------
Init ==
    /\ jar = [b \in Browsers |-> [state |-> 0, session |-> 0]]
    /\ login = <<>>
    /\ session = [n \in Logins |-> [is |-> "none", left |-> 0]]
    /\ sign = 1
    /\ published = {1}
    /\ gone = [k \in Keys |-> 0]
    /\ jwks = {}
    /\ fresh = 0
    /\ \E b \in Browsers : call = [h \in Handlers |-> Idle(b)]

(* A request that was taken goes on.                                       *)
handle(h) ==
    \/ Exchange(h) \/ VerifyIDToken(h) \/ FetchJWKS(h) \/ Cached(h) \/ Put(h)
    \/ Delete(h) \/ Reply(h)

Next ==
    \/ \E h \in Handlers : handle(h)
    \/ \E b \in Browsers : Login(b) \/ Get(b) \/ \E h \in Handlers : Logout(h, b)
    \/ \E n \in DOMAIN login : Authenticate(n) \/ \E h \in Handlers : Callback(h, n)
    \/ RotateKey \/ (\E k \in Keys : Withdraw(k)) \/ Elapse

Spec == Init /\ [][Next]_vars

(* Goroutines run and calls to the provider return.                        *)
FairSpec == Spec /\ \A h \in Handlers : WF_vars(handle(h))

-----------------------------------------------------------------------------
(* Properties.                                                             *)

(* Every variable keeps its shape.                                         *)
TypeOK ==
    /\ jar \in [Browsers -> [state : 0..Len(login), session : 0..Len(login)]]
    /\ login \in Seq([browser : Browsers, left : 0..StateTtl,
                      code : {"none", "issued", "used"}])
    /\ Len(login) <= MaxLogins
    /\ session \in [Logins -> [is : {"none", "stored", "expired", "ended"},
                            left : 0..SessionTtl]]
    /\ sign \in Keys
    /\ published \subseteq 1..sign
    /\ gone \in [Keys -> 0..(KeyTtl + MaxDelay)]
    /\ jwks \subseteq 1..sign
    /\ fresh \in 0..KeyTtl
    /\ call \in [Handlers -> Call]

(* A token signed by a key that the provider withdrew is accepted for no   *)
(* longer than the cache lives and a document takes to arrive, however     *)
(* fetches overtake each other (fetchJWKS, verifyIDToken).                 *)
WithdrawnKeyExpires ==
    [][\A h \in Handlers : call'[h].pc = "put" /\ call[h].pc # "put" =>
         \/ call[h].key \in published
         \/ gone[call[h].key] < KeyTtl + MaxDelay]_vars

(* Nobody is locked out by a rotation of the signing keys: a token is      *)
(* refused for an unknown key only when the provider has withdrawn it      *)
(* (verifyIDToken).                                                        *)
PublishedKeyKnown ==
    \A h \in Handlers : call[h].pc = "unknown" => call[h].key \notin published

(* A session is known to the store before a browser has a cookie for it,   *)
(* and until a logout ends it or it has expired it stays there, whatever   *)
(* other tabs do meanwhile (callback, logout, Get).                        *)
CookieNamesSession ==
    \A b \in Browsers :
        LET n == jar[b].session
        IN  n # 0 => \/ session[n].is \in {"stored", "ended"}
                     \/ session[n].is = "expired" /\ session[n].left = 0

(* A request is answered: the second fetch is the last (verifyIDToken).    *)
RequestsEnd == \A h \in Handlers : call[h].pc # "idle" ~> call[h].pc = "idle"
=============================================================================
