----------------------------- MODULE AuthProofs -----------------------------
(* Theorems about Auth, for any number of browsers, handlers, logins and   *)
(* signing keys, and any lives of states, sessions and cached keys.        *)
EXTENDS Auth, SequenceTheorems, TLAPS

(* The parts of TypeOK: the browsers' cookies and the logins, the sessions, *)
(* the identity provider, the cached keys.                                 *)
LoginEntry == [browser : Browsers, left : 0..StateTtl, code : {"none", "issued", "used"}]

JarOK == jar \in [Browsers -> [state : 0..Len(login), session : 0..Len(login)]]

LoginOK == login \in Seq(LoginEntry) /\ Len(login) <= MaxLogins

SessionOK ==
    session \in [Logins -> [is : {"none", "stored", "expired", "ended"}, left : 0..SessionTtl]]

ProviderOK ==
    /\ sign \in Keys
    /\ published \subseteq 1..sign
    /\ gone \in [Keys -> 0..(KeyTtl + MaxDelay)]

CacheOK == jwks \subseteq 1..sign /\ fresh \in 0..KeyTtl

CallOK == call \in [Handlers -> Call]

(* The type invariant is the conjunction of the six.                       *)
LEMMA TypeParts ==
    TypeOK <=> JarOK /\ LoginOK /\ SessionOK /\ ProviderOK /\ CacheOK /\ CallOK
BY DEF TypeOK, JarOK, LoginOK, LoginEntry, SessionOK, ProviderOK, CacheOK, CallOK

(* A session that a browser may have a cookie of.                          *)
Named(n) ==
    \/ session[n].is \in {"stored", "ended"}
    \/ session[n].is = "expired" /\ session[n].left = 0

(* What a handler works on is real: its login has begun, its keys were     *)
(* published once, and the session it replies with was stored.             *)
Working(h) ==
    /\ call[h].pc # "idle" => call[h].login \in 1..Len(login)
    /\ call[h].key \in 0..sign
    /\ call[h].doc \subseteq 1..sign
    /\ call[h].pc \in {"reply", "delete", "cleared"} => Named(call[h].login)

(* A key that its document lacks was withdrawn before that was read.       *)
Refusing(h) ==
    /\ call[h].pc = "doc" => call[h].key \in call[h].doc \/ call[h].key \notin published
    /\ call[h].pc = "unknown" => call[h].key \notin published

(* The age of a key document: the keys in it that are withdrawn by now     *)
(* were so after it was read.                                              *)
Aged(h) ==
    call[h].pc = "doc" =>
      \A k \in call[h].doc : k \in published \/ gone[k] <= call[h].wait

(* The signing key is published, and only withdrawn keys have an age.      *)
Publishing ==
    /\ sign \in published
    /\ \A k \in Keys : k \in published \/ k > sign => gone[k] = 0

(* The cache forgets a key before it was withdrawn for too long.           *)
CacheAged == \A k \in jwks : k \in published \/ gone[k] + fresh <= KeyTtl + MaxDelay

CallsInv == \A h \in Handlers : Working(h) /\ Refusing(h) /\ Aged(h)

Inv == TypeOK /\ CallsInv /\ Publishing /\ CacheAged /\ CookieNamesSession

-----------------------------------------------------------------------------
LEMMA InitInv == Init => Inv
<1> SUFFICES ASSUME Init PROVE Inv
  OBVIOUS
<1>1. TypeOK
  BY AuthAssumption DEF Init, TypeOK, Call, Idle, Logins, Keys
<1>2. CallsInv /\ Publishing /\ CacheAged /\ CookieNamesSession
  BY AuthAssumption
     DEF Init, CallsInv, Working, Refusing, Aged, Idle, Publishing, CacheAged,
         CookieNamesSession, Keys
<1> QED
  BY <1>1, <1>2 DEF Inv

(* The logins are numbered from 1.                                         *)
LEMMA LoginCount ==
    ASSUME TypeOK
    PROVE  /\ Len(login) \in 0..MaxLogins
           /\ DOMAIN login = 1..Len(login)
           /\ \A n \in 1..Len(login) : n \in Logins /\ login[n] \in LoginEntry
<1>1. login \in Seq(LoginEntry) /\ Len(login) <= MaxLogins
  BY DEF TypeOK, LoginEntry
<1>2. Len(login) \in Nat /\ DOMAIN login = 1..Len(login)
  BY <1>1, LenProperties
<1>3. \A n \in 1..Len(login) : login[n] \in LoginEntry
  BY <1>1, <1>2, ElementOfSeq
<1> QED
  BY <1>1, <1>2, <1>3, AuthAssumption DEF Logins

(* Sessions that cookies and handlers name stay so.                        *)
NamesKept == \A n \in Logins : Named(n) => Named(n)'

LEMMA SameSessions == ASSUME UNCHANGED session PROVE NamesKept
BY DEF NamesKept, Named

(* A step that leaves the browsers alone keeps the cookies true.           *)
LEMMA SameCookies ==
    ASSUME Inv, NamesKept, UNCHANGED jar
    PROVE  CookieNamesSession'
<1> SUFFICES ASSUME NEW b \in Browsers, jar[b].session # 0
             PROVE  Named(jar[b].session)'
  BY DEF CookieNamesSession, Named
<1>1. jar[b].session \in Logins
  <2>1. jar[b].session \in 0..Len(login)
    BY DEF Inv, TypeOK
  <2> QED
    BY <2>1, LoginCount DEF Inv
<1>2. Named(jar[b].session)
  BY DEF Inv, CookieNamesSession, Named
<1> QED
  BY <1>1, <1>2 DEF NamesKept

(* What the call of a handler must be after its step.                      *)
Fits(c) ==
    /\ c.pc # "idle" => c.login \in 1..Len(login)
    /\ c.key \in 0..sign
    /\ c.doc \subseteq 1..sign
    /\ c.pc = "doc" => /\ c.key \in c.doc \/ c.key \notin published
                       /\ \A k \in c.doc : k \in published \/ gone[k] <= c.wait
    /\ c.pc = "unknown" => c.key \notin published

(* A step of one handler whose own call fits keeps what is known of calls. *)
LEMMA CallStep ==
    ASSUME Inv, NEW h \in Handlers, NEW c \in Call,
           call' = [call EXCEPT ![h] = c],
           UNCHANGED provider, Len(login') = Len(login), NamesKept, Fits(c),
           c.pc \in {"reply", "delete", "cleared"} => Named(c.login)'
    PROVE  CallsInv' /\ CallOK'
<1>1. call'[h] = c /\ \A g \in Handlers : g # h => call'[g] = call[g]
  BY DEF Inv, TypeOK
<1>2. CallOK'
  BY DEF Inv, TypeOK, CallOK
<1>3. ASSUME NEW g \in Handlers
      PROVE  Working(g)' /\ Refusing(g)' /\ Aged(g)'
  <2>1. CASE g = h
    BY <1>1, <2>1 DEF Fits, Working, Refusing, Aged, Named, provider
  <2>2. CASE g # h
    <3>1. Working(g) /\ Refusing(g) /\ Aged(g)
      BY DEF Inv, CallsInv
    <3>2. call[g].pc # "idle" => call[g].login \in Logins
      BY <3>1, LoginCount DEF Working, Inv
    <3>3. call[g].pc \in {"reply", "delete", "cleared"} => Named(call[g].login)'
      BY <1>1, <2>2, <3>1, <3>2 DEF Working, NamesKept
    <3> QED
      BY <1>1, <2>2, <3>1, <3>3 DEF Working, Refusing, Aged, Named, provider
  <2> QED
    BY <2>1, <2>2
<1> QED
  BY <1>2, <1>3 DEF CallsInv

LEMMA CallKnown ==
    ASSUME Inv, NEW h \in Handlers
    PROVE  /\ call[h] \in Call /\ Working(h) /\ Refusing(h) /\ Aged(h)
           /\ call[h].pc # "idle" => call[h].login \in 1..Len(login) /\ call[h].login \in Logins
BY LoginCount DEF Inv, TypeOK, CallsInv, Working

(* Where a step leaves its handler.                                        *)
Stepped(h, pc) ==
    \E c \in Call : call' = [call EXCEPT ![h] = c] /\ c.pc = pc /\ Fits(c) /\
                    (pc # "idle" => c.login = call[h].login)

(* A request that is refused, or has all it needed; one that was answered. *)
LEMMA EndsStep ==
    ASSUME Inv, NEW h \in Handlers, NEW pc \in {"refused", "put"}, Ends(h, pc),
           call[h].pc # "idle"
    PROVE  Stepped(h, pc)
<1> DEFINE r == Idle(call[h].browser)
           c == [r EXCEPT !.pc = pc, !.login = call[h].login]
<1>1. call[h].browser \in Browsers /\ call[h].login \in 0..MaxLogins
  BY CallKnown DEF Call
<1>2. r \in Call /\ r.key = 0 /\ r.doc = {}
  BY <1>1, AuthAssumption DEF Call, Idle
<1>3. c \in Call /\ c.pc = pc /\ c.login = call[h].login /\ c.key = r.key /\ c.doc = r.doc
  <2> HIDE DEF r
  <2> QED BY <1>1, <1>2 DEF Call
<1>4. sign \in Nat
  BY AuthAssumption DEF Inv, TypeOK, Keys
<1>5. Fits(c)
  <2> HIDE DEF c
  <2> QED BY <1>2, <1>3, <1>4, CallKnown DEF Fits
<1>6. call' = [call EXCEPT ![h] = c]
  BY DEF Ends
<1> QED
  BY <1>3, <1>5, <1>6 DEF Stepped

LEMMA DoneStep ==
    ASSUME Inv, NEW h \in Handlers, Done(h)
    PROVE  Stepped(h, "idle")
<1>1. call[h].browser \in Browsers
  BY CallKnown DEF Call
<1>2. sign \in Nat
  BY AuthAssumption DEF Inv, TypeOK, Keys
<1>3. Idle(call[h].browser) \in Call /\ Fits(Idle(call[h].browser))
  BY <1>1, <1>2, AuthAssumption DEF Call, Idle, Fits
<1>4. call' = [call EXCEPT ![h] = Idle(call[h].browser)]
  BY DEF Done
<1> QED
  BY <1>3, <1>4 DEF Stepped, Idle

(* A request that goes on with what it has.                                *)
LEMMA GoesStep ==
    ASSUME Inv, NEW h \in Handlers, call[h].pc # "idle",
           NEW pc \in {"fetch", "unknown", "reply", "cleared"}, Goes(h, pc),
           pc = "unknown" => call[h].key \notin published
    PROVE  Stepped(h, pc)
<1> DEFINE c == [call[h] EXCEPT !.pc = pc]
<1>1. c \in Call /\ c.pc = pc /\ c.login = call[h].login
  BY CallKnown DEF Call
<1>2. Fits(c)
  BY CallKnown DEF Call, Fits, Working
<1>3. call' = [call EXCEPT ![h] = c]
  BY DEF Goes, Inv, TypeOK
<1> QED
  BY <1>1, <1>2, <1>3 DEF Stepped

LEMMA NotCachedStep ==
    ASSUME Inv, NEW h \in Handlers, call[h].pc # "idle", NotCached(h)
    PROVE  Stepped(h, "fetch")
<1> DEFINE c == [call[h] EXCEPT !.pc = "fetch", !.forced = TRUE]
<1>1. c \in Call /\ c.pc = "fetch" /\ c.login = call[h].login
  BY CallKnown DEF Call
<1>2. Fits(c)
  BY CallKnown DEF Call, Fits, Working
<1>3. call' = [call EXCEPT ![h] = c]
  BY DEF NotCached, Inv, TypeOK
<1> QED
  BY <1>1, <1>2, <1>3 DEF Stepped

LEMMA InvNext ==
    ASSUME JarOK', LoginOK', SessionOK', ProviderOK', CacheOK', CallOK',
           CallsInv', Publishing', CacheAged', CookieNamesSession'
    PROVE  Inv'
BY DEF Inv, TypeOK, JarOK, LoginOK, LoginEntry, SessionOK, ProviderOK, CacheOK, CallOK

LEMMA InvParts ==
    ASSUME Inv
    PROVE  /\ JarOK /\ LoginOK /\ SessionOK /\ ProviderOK /\ CacheOK /\ CallOK
           /\ CallsInv /\ Publishing /\ CacheAged /\ CookieNamesSession
BY TypeParts DEF Inv

(* A step of one handler that touches nothing but its call.                *)
LEMMA OnlyCall ==
    ASSUME Inv, NEW h \in Handlers, NEW pc, Stepped(h, pc),
           pc \notin {"reply", "delete", "cleared"},
           UNCHANGED <<jar, login, session, provider, cache>>
    PROVE  Inv'
<1>1. NamesKept /\ CookieNamesSession'
  BY SameSessions, SameCookies
<1>2. CallsInv' /\ CallOK'
  BY <1>1, CallStep DEF Stepped
<1>3. JarOK' /\ LoginOK' /\ SessionOK' /\ ProviderOK' /\ CacheOK'
  BY InvParts DEF JarOK, LoginOK, SessionOK, ProviderOK, CacheOK, provider, cache
<1>4. Publishing' /\ CacheAged'
  BY InvParts DEF Publishing, CacheAged, provider, cache
<1> QED
  BY <1>1, <1>2, <1>3, <1>4, InvNext

(* A login changes and their number does not.                              *)
LEMMA LoginStep ==
    ASSUME Inv, NEW n \in DOMAIN login, NEW code \in {"none", "issued", "used"},
           login' = [login EXCEPT ![n].code = code]
    PROVE  Len(login') = Len(login) /\ LoginOK' /\ (UNCHANGED jar => JarOK')
<1>1. login \in Seq(LoginEntry) /\ Len(login) <= MaxLogins /\ login[n] \in LoginEntry
  BY LoginCount DEF Inv, TypeOK, LoginEntry
<1>2. [login[n] EXCEPT !.code = code] \in LoginEntry
  BY <1>1 DEF LoginEntry
<1>3. login' = [login EXCEPT ![n] = [login[n] EXCEPT !.code = code]]
  OBVIOUS
<1>4. login' \in Seq(LoginEntry) /\ Len(login') = Len(login)
  BY <1>1, <1>2, <1>3, ExceptSeq, LoginCount DEF Inv
<1> QED
  BY <1>1, <1>4 DEF LoginOK, JarOK, Inv, TypeOK

LEMMA ExchangeInv ==
    ASSUME Inv, NEW h \in Handlers, Exchange(h)
    PROVE  Inv'
<1> DEFINE n == call[h].login
<1>1. n \in DOMAIN login /\ call[h].pc # "idle"
  BY CallKnown, LoginCount DEF Exchange, Inv
<1>2. CASE Ends(h, "refused") /\ UNCHANGED login
  BY <1>1, <1>2, EndsStep, OnlyCall DEF Exchange
<1>3. CASE login' = [login EXCEPT ![n].code = "used"]
  <2>1. Len(login') = Len(login) /\ LoginOK' /\ JarOK'
    BY <1>1, <1>3, LoginStep DEF Exchange
  <2>2. NamesKept /\ CookieNamesSession'
    BY SameSessions, SameCookies DEF Exchange
  <2>3. Stepped(h, "refused") \/ Stepped(h, "verify")
    <3>1. CASE Ends(h, "refused")
      BY <1>1, <3>1, EndsStep
    <3>2. CASE call' = [call EXCEPT ![h].pc = "verify", ![h].key = sign]
      <4> DEFINE c == [call[h] EXCEPT !.pc = "verify", !.key = sign]
      <4>1. sign \in 0..MaxKeys /\ sign \in 0..sign
        BY AuthAssumption DEF Inv, TypeOK, Keys
      <4>2. c \in Call /\ c.pc = "verify" /\ c.login = n
        BY <4>1, CallKnown DEF Call
      <4>3. Fits(c)
        BY <1>1, <4>1, CallKnown DEF Fits, Working, Call
      <4>4. call' = [call EXCEPT ![h] = c]
        BY <3>2 DEF Inv, TypeOK
      <4> QED
        BY <4>2, <4>3, <4>4 DEF Stepped
    <3> QED
      BY <1>1, <1>3, <3>1, <3>2 DEF Exchange
  <2>4. CallsInv' /\ CallOK'
    BY <2>1, <2>2, <2>3, CallStep DEF Exchange, Stepped
  <2>5. SessionOK' /\ ProviderOK' /\ CacheOK' /\ Publishing' /\ CacheAged'
    BY InvParts DEF Exchange, SessionOK, ProviderOK, CacheOK, Publishing, CacheAged, provider, cache
  <2> QED
    BY <2>1, <2>2, <2>4, <2>5, InvNext
<1> QED
  BY <1>2, <1>3 DEF Exchange

LEMMA VerifyInv ==
    ASSUME Inv, NEW h \in Handlers, VerifyIDToken(h)
    PROVE  Inv'
<1>1. call[h].pc # "idle"
  BY DEF VerifyIDToken
<1>2. Stepped(h, "put") \/ Stepped(h, "fetch")
  BY <1>1, EndsStep, NotCachedStep, GoesStep DEF VerifyIDToken
<1> QED
  BY <1>2, OnlyCall DEF VerifyIDToken

(* A document that has just been read is new.                              *)
LEMMA FetchInv ==
    ASSUME Inv, NEW h \in Handlers, FetchJWKS(h)
    PROVE  Inv'
<1>1. call[h].pc # "idle"
  BY DEF FetchJWKS
<1>2. CASE Ends(h, "refused")
  BY <1>1, <1>2, EndsStep, OnlyCall DEF FetchJWKS
<1>3. CASE call' = [call EXCEPT ![h].pc = "doc", ![h].doc = published, ![h].wait = 0]
  <2> DEFINE c == [call[h] EXCEPT !.pc = "doc", !.doc = published, !.wait = 0]
  <2>1. published \subseteq 1..sign /\ published \subseteq Keys /\ 0 \in 0..MaxDelay
    BY AuthAssumption DEF Inv, TypeOK, Keys
  <2>2. c \in Call /\ c.pc = "doc" /\ c.doc = published /\ c.login = call[h].login
    BY <2>1, CallKnown DEF Call
  <2>3. Fits(c)
    BY <1>1, <2>1, <2>2, CallKnown DEF Fits, Working, Call
  <2>4. call' = [call EXCEPT ![h] = c]
    BY <1>3 DEF Inv, TypeOK
  <2>5. Stepped(h, "doc")
    BY <2>2, <2>3, <2>4 DEF Stepped
  <2> QED
    BY <2>5, OnlyCall DEF FetchJWKS
<1> QED
  BY <1>2, <1>3 DEF FetchJWKS

(* A document that arrives has been on its way for MaxDelay at most.       *)
LEMMA CachedInv ==
    ASSUME Inv, NEW h \in Handlers, Cached(h)
    PROVE  Inv'
<1>1. call[h].pc = "doc" /\ call[h] \in Call /\ Working(h) /\ Refusing(h) /\ Aged(h)
  BY CallKnown DEF Cached
<1>2. CASE Ends(h, "refused") /\ UNCHANGED cache
  BY <1>1, <1>2, EndsStep, OnlyCall DEF Cached
<1>3. CASE jwks' = call[h].doc /\ fresh' = KeyTtl
  <2>1. NamesKept /\ CookieNamesSession'
    BY SameSessions, SameCookies DEF Cached
  <2>2. Stepped(h, "refused") \/ Stepped(h, "put") \/ Stepped(h, "unknown") \/ Stepped(h, "fetch")
    BY <1>1, EndsStep, GoesStep, NotCachedStep DEF Cached, Missing, Refusing
  <2>3. CallsInv' /\ CallOK'
    BY <2>1, <2>2, CallStep DEF Cached, Stepped
  <2>4. CacheOK'
    BY <1>1, <1>3, AuthAssumption DEF Cached, CacheOK, Working, provider
  <2>5. CacheAged'
    <3> SUFFICES ASSUME NEW k \in call[h].doc, k \notin published
                 PROVE  gone[k] + KeyTtl <= KeyTtl + MaxDelay
      BY <1>3 DEF CacheAged, Cached, provider
    <3>1. gone[k] <= call[h].wait /\ call[h].wait \in 0..MaxDelay /\ k \in Keys
      BY <1>1 DEF Aged, Call
    <3>2. gone[k] \in Nat
      BY <3>1, AuthAssumption DEF Inv, TypeOK
    <3> QED
      BY <3>1, <3>2, AuthAssumption
  <2>6. JarOK' /\ LoginOK' /\ SessionOK' /\ ProviderOK' /\ Publishing'
    BY InvParts DEF Cached, JarOK, LoginOK, SessionOK, ProviderOK, Publishing, provider
  <2> QED
    BY <2>1, <2>3, <2>4, <2>5, <2>6, InvNext
<1> QED
  BY <1>2, <1>3 DEF Cached

-----------------------------------------------------------------------------
(* The session store.                                                      *)

(* Storing, ending and expiring a session keeps the others.                *)
LEMMA SessionStep ==
    ASSUME Inv, NEW n \in Logins,
           NEW s \in [is : {"none", "stored", "expired", "ended"}, left : 0..SessionTtl],
           s.is \in {"stored", "ended"} \/ (s.is = "expired" /\ s.left = 0),
           session' = [session EXCEPT ![n] = s]
    PROVE  SessionOK' /\ NamesKept /\ Named(n)'
<1>1. session'[n] = s /\ \A m \in Logins : m # n => session'[m] = session[m]
  BY DEF Inv, TypeOK
<1>2. SessionOK'
  BY DEF Inv, TypeOK, SessionOK
<1>3. Named(n)'
  BY <1>1 DEF Named
<1>4. ASSUME NEW m \in Logins, Named(m)
      PROVE  Named(m)'
  BY <1>1, <1>4 DEF Named
<1> QED
  BY <1>2, <1>3, <1>4 DEF NamesKept

(* A session is stored before the browser is told its cookie.              *)
LEMMA PutInv ==
    ASSUME Inv, NEW h \in Handlers, Put(h)
    PROVE  Inv'
<1> DEFINE n == call[h].login
<1>1. call[h].pc # "idle" /\ n \in Logins /\ n \in 1..Len(login)
  BY CallKnown DEF Put
<1>2. CASE PutFails(h) /\ UNCHANGED session
  BY <1>1, <1>2, EndsStep, OnlyCall DEF Put, PutFails
<1>3. CASE session' = [session EXCEPT ![n] = [is |-> "stored", left |-> Expiry]] /\ Goes(h, "reply")
  <2> DEFINE s == [is |-> "stored", left |-> Expiry]
  <2>0. s \in [is : {"none", "stored", "expired", "ended"}, left : 0..SessionTtl] /\ s.is = "stored"
       /\ session' = [session EXCEPT ![n] = s]
    BY <1>3, AuthAssumption DEF Expiry
  <2>1. SessionOK' /\ NamesKept /\ \A m : m = n => Named(m)'
    <3> HIDE DEF s
    <3> QED BY <1>1, <2>0, SessionStep
  <2>2. CookieNamesSession'
    BY <2>1, SameCookies DEF Put
  <2>3. PICK c \in Call : call' = [call EXCEPT ![h] = c] /\ c.pc = "reply" /\ Fits(c) /\ c.login = n
    BY <1>1, <1>3, GoesStep DEF Stepped
  <2>4. CallsInv' /\ CallOK'
    BY <2>1, <2>3, CallStep DEF Put
  <2>5. JarOK' /\ LoginOK' /\ ProviderOK' /\ CacheOK' /\ Publishing' /\ CacheAged'
    BY InvParts DEF Put, JarOK, LoginOK, ProviderOK, CacheOK, Publishing, CacheAged, provider, cache
  <2> QED
    BY <2>1, <2>2, <2>4, <2>5, InvNext
<1> QED
  BY <1>2, <1>3 DEF Put

LEMMA DeleteInv ==
    ASSUME Inv, NEW h \in Handlers, Delete(h)
    PROVE  Inv'
<1> DEFINE n == call[h].login
<1>1. call[h].pc # "idle" /\ n \in Logins /\ n \in 1..Len(login)
  BY CallKnown DEF Delete
<1>2. PICK pc \in {"cleared", "idle"} : Stepped(h, pc)
  <2>1. CASE Goes(h, "cleared")
    BY <1>1, <2>1, GoesStep
  <2>2. CASE Done(h)
    BY <2>2, DoneStep
  <2> QED
    BY <2>1, <2>2 DEF Delete
<1>3. SessionOK' /\ NamesKept /\ \A m : m = n => Named(m)'
  <2>1. CASE UNCHANGED session
    <3>1. Named(n)
      BY CallKnown DEF Delete, Working
    <3> QED
      BY <2>1, <3>1, SameSessions, InvParts DEF SessionOK, Named
  <2>2. CASE session' = [session EXCEPT ![n].is = "ended"]
    <3> DEFINE s == [session[n] EXCEPT !.is = "ended"]
    <3>1. /\ s \in [is : {"none", "stored", "expired", "ended"}, left : 0..SessionTtl]
          /\ s.is = "ended"
          /\ session' = [session EXCEPT ![n] = s]
      BY <1>1, <2>2 DEF Inv, TypeOK
    <3> HIDE DEF s
    <3> QED
      BY <1>1, <3>1, SessionStep
  <2> QED
    BY <2>1, <2>2 DEF Delete
<1>4. CookieNamesSession'
  BY <1>3, SameCookies DEF Delete
<1>5. PICK c \in Call : /\ call' = [call EXCEPT ![h] = c] /\ c.pc = pc /\ Fits(c)
                        /\ pc # "idle" => c.login = n
  BY <1>2 DEF Stepped
<1>6. CallsInv' /\ CallOK'
  <2>1. UNCHANGED provider /\ Len(login') = Len(login)
    BY DEF Delete, provider
  <2>2. c.pc \in {"reply", "delete", "cleared"} => Named(c.login)'
    BY <1>3, <1>5
  <2> QED
    BY <1>3, <1>5, <2>1, <2>2, CallStep
<1>7. JarOK' /\ LoginOK' /\ ProviderOK' /\ CacheOK' /\ Publishing' /\ CacheAged'
  BY InvParts DEF Delete, JarOK, LoginOK, ProviderOK, CacheOK, Publishing, CacheAged, provider, cache
<1> QED
  BY <1>3, <1>4, <1>6, <1>7, InvNext

(* A browser takes the cookie of a stored session, or drops one.           *)
LEMMA ReplyInv ==
    ASSUME Inv, NEW h \in Handlers, Reply(h)
    PROVE  Inv'
<1> DEFINE b == call[h].browser
<1>1. call[h].pc # "idle" /\ call[h].login \in 1..Len(login) /\ b \in Browsers /\ Working(h)
  BY CallKnown DEF Reply, Call
<1>2. jar[b] \in [state : 0..Len(login), session : 0..Len(login)]
  BY <1>1 DEF Inv, TypeOK
<1>3. Len(login) \in Nat
  BY LoginCount, AuthAssumption DEF Inv
<1>4. PICK set \in [state : 0..Len(login), session : 0..Len(login)] :
        /\ jar' \in {jar, [jar EXCEPT ![b] = set]}
        /\ set.session \in {0, jar[b].session} \/ (set.session = call[h].login /\ Named(call[h].login))
  <2>1. CASE call[h].pc = "reply"
    BY <1>1, <1>3, <2>1 DEF Reply, Working
  <2>2. CASE call[h].pc \in {"refused", "unknown"}
    <3> DEFINE set == [jar[b] EXCEPT !.state = 0]
    <3>1. set \in [state : 0..Len(login), session : 0..Len(login)] /\ set.session = jar[b].session
      BY <1>2, <1>3
    <3>2. jar' \in {jar, [jar EXCEPT ![b] = set]}
      BY <2>2 DEF Reply
    <3> QED
      BY <3>1, <3>2
  <2>3. CASE call[h].pc = "cleared"
    <3> DEFINE set == [jar[b] EXCEPT !.session = 0]
    <3>1. set \in [state : 0..Len(login), session : 0..Len(login)] /\ set.session = 0
      BY <1>2, <1>3
    <3>2. jar' \in {jar, [jar EXCEPT ![b] = set]}
      BY <2>3 DEF Reply
    <3> QED
      BY <3>1, <3>2
  <2> QED
    BY <2>1, <2>2, <2>3 DEF Reply
<1>5. JarOK'
  BY <1>1, <1>4, InvParts DEF Reply, JarOK
<1>6. CookieNamesSession'
  <2> SUFFICES ASSUME NEW a \in Browsers, jar'[a].session # 0
               PROVE  Named(jar'[a].session)
    BY DEF CookieNamesSession, Named, Reply
  <2>1. CASE jar'[a] = jar[a]
    BY <2>1 DEF Inv, CookieNamesSession, Named
  <2>2. CASE jar'[a] = set /\ a = b
    BY <1>4, <2>2 DEF Inv, CookieNamesSession, Named
  <2> QED
    BY <1>1, <1>4, <2>1, <2>2 DEF Inv, TypeOK
<1>7. NamesKept
  BY SameSessions DEF Reply
<1>8. CallsInv' /\ CallOK'
  BY <1>7, DoneStep, CallStep DEF Reply, Stepped
<1>9. LoginOK' /\ SessionOK' /\ ProviderOK' /\ CacheOK' /\ Publishing' /\ CacheAged'
  BY InvParts DEF Reply, LoginOK, SessionOK, ProviderOK, CacheOK, Publishing, CacheAged, provider, cache
<1> QED
  BY <1>5, <1>6, <1>8, <1>9, InvNext

(* A session that is read when its time is up.                             *)
LEMMA GetInv ==
    ASSUME Inv, NEW b \in Browsers, Get(b)
    PROVE  Inv'
<1> DEFINE n == jar[b].session
           s == [session[n] EXCEPT !.is = "expired"]
<1>1. n \in Logins
  BY LoginCount DEF Get, Inv, TypeOK
<1>2. /\ s \in [is : {"none", "stored", "expired", "ended"}, left : 0..SessionTtl]
      /\ s.is = "expired" /\ s.left = 0
      /\ session' = [session EXCEPT ![n] = s]
  BY <1>1 DEF Get, Inv, TypeOK
<1>3. SessionOK' /\ NamesKept
  <2> HIDE DEF s, n
  <2> QED BY <1>1, <1>2, SessionStep
<1>4. CookieNamesSession'
  BY <1>3, SameCookies DEF Get
<1>5. CallsInv' /\ CallOK'
  <2>1. CallOK'
    BY InvParts DEF Get, CallOK
  <2>2. ASSUME NEW g \in Handlers PROVE Working(g)' /\ Refusing(g)' /\ Aged(g)'
    <3>1. call' = call /\ login' = login /\ UNCHANGED <<sign, published, gone>>
      BY DEF Get, provider
    <3>2. call[g].pc \in {"reply", "delete", "cleared"} => Named(call[g].login)'
      BY <1>3, <3>1, CallKnown DEF NamesKept, Working
    <3> QED
      BY <3>1, <3>2, CallKnown DEF Working, Refusing, Aged
  <2> QED
    BY <2>1, <2>2 DEF CallsInv
<1>6. JarOK' /\ LoginOK' /\ ProviderOK' /\ CacheOK' /\ Publishing' /\ CacheAged'
  BY InvParts DEF Get, JarOK, LoginOK, ProviderOK, CacheOK, Publishing, CacheAged, provider, cache
<1> QED
  BY <1>3, <1>4, <1>5, <1>6, InvNext

LEMMA LogoutInv ==
    ASSUME Inv, NEW h \in Handlers, NEW b \in Browsers, Logout(h, b)
    PROVE  Inv'
<1> DEFINE r == Idle(b)
           c == [r EXCEPT !.pc = "delete", !.login = jar[b].session]
<1>1. jar[b].session \in 1..Len(login) /\ jar[b].session \in 0..MaxLogins /\ Named(jar[b].session)
  <2>1. jar[b].session \in 0..Len(login) /\ jar[b].session # 0
    BY DEF Logout, Inv, TypeOK
  <2>2. Len(login) \in 0..MaxLogins
    BY LoginCount DEF Inv
  <2>3. Named(jar[b].session)
    BY <2>1 DEF Inv, CookieNamesSession, Named
  <2> QED
    BY <2>1, <2>2, <2>3, AuthAssumption
<1>2. r \in Call /\ r.key = 0 /\ r.doc = {}
  BY AuthAssumption DEF Call, Idle
<1>3. c \in Call /\ c.pc = "delete" /\ c.login = jar[b].session /\ c.key = 0 /\ c.doc = {}
  <2> HIDE DEF r
  <2> QED BY <1>1, <1>2 DEF Call
<1>4. sign \in Nat
  BY AuthAssumption DEF Inv, TypeOK, Keys
<1>5. call' = [call EXCEPT ![h] = c]
  BY DEF Logout
<1>6. NamesKept /\ CookieNamesSession'
  BY SameSessions, SameCookies DEF Logout
<1>7. CallsInv' /\ CallOK'
  <2> HIDE DEF c
  <2>1. Fits(c)
    BY <1>1, <1>3, <1>4 DEF Fits
  <2>2. PICK d \in Call : /\ call' = [call EXCEPT ![h] = d]
                          /\ d.pc = "delete" /\ d.login = jar[b].session /\ Fits(d)
    BY <1>3, <1>5, <2>1
  <2>3. Named(d.login)'
    BY <1>1, <2>2 DEF Named, Logout
  <2> QED
    BY <1>6, <2>2, <2>3, CallStep DEF Logout
<1>8. JarOK' /\ LoginOK' /\ SessionOK' /\ ProviderOK' /\ CacheOK' /\ Publishing' /\ CacheAged'
  BY InvParts DEF Logout, JarOK, LoginOK, SessionOK, ProviderOK, CacheOK, Publishing, CacheAged,
                  provider, cache
<1> QED
  BY <1>6, <1>7, <1>8, InvNext

-----------------------------------------------------------------------------
(* The browser and the user.                                               *)

(* What is known of the calls depends on the logins by their number only.  *)
LEMMA CallsKept ==
    ASSUME Inv, UNCHANGED <<call, session, provider>>, Len(login') \in Nat,
           Len(login) <= Len(login')
    PROVE  CallsInv' /\ CallOK'
<1>1. CallOK'
  BY InvParts DEF CallOK
<1>2. Len(login) \in Nat
  BY LoginCount, AuthAssumption DEF Inv
<1>3. ASSUME NEW g \in Handlers PROVE Working(g)' /\ Refusing(g)' /\ Aged(g)'
  <2>1. \A n \in 1..Len(login) : n \in 1..Len(login')
    BY <1>2
  <2> QED
    BY <2>1, CallKnown DEF Working, Refusing, Aged, Named, provider
<1> QED
  BY <1>1, <1>3 DEF CallsInv

LEMMA LoginInv ==
    ASSUME Inv, NEW b \in Browsers, Login(b)
    PROVE  Inv'
<1> DEFINE e == [browser |-> b, left |-> StateTtl, code |-> "none"]
<1>1. e \in LoginEntry
  BY AuthAssumption DEF LoginEntry
<1>2. login \in Seq(LoginEntry) /\ Len(login) \in Nat /\ Len(login) < MaxLogins
  BY LoginCount, AuthAssumption DEF Inv, TypeOK, LoginEntry, Login
<1>3. login' \in Seq(LoginEntry) /\ Len(login') = Len(login) + 1
  BY <1>1, <1>2, AppendProperties DEF Login
<1>4. LoginOK'
  BY <1>2, <1>3, AuthAssumption DEF LoginOK
<1>5. JarOK'
  <2>1. ASSUME NEW a \in Browsers
        PROVE  jar'[a] \in [state : 0..Len(login'), session : 0..Len(login')]
    <3>1. jar[a] \in [state : 0..Len(login), session : 0..Len(login)]
      BY DEF Inv, TypeOK
    <3>2. \A n \in 0..Len(login) : n \in 0..Len(login')
      BY <1>2, <1>3
    <3>3. jar[a] \in [state : 0..Len(login'), session : 0..Len(login')]
      BY <3>1, <3>2
    <3>4. Len(login) + 1 \in 0..Len(login')
      BY <1>2, <1>3
    <3>5. [jar[a] EXCEPT !.state = Len(login) + 1] \in [state : 0..Len(login'), session : 0..Len(login')]
      BY <3>3, <3>4
    <3>6. jar'[a] \in {jar[a], [jar[a] EXCEPT !.state = Len(login) + 1]}
      BY DEF Login, Inv, TypeOK
    <3> QED
      BY <3>3, <3>5, <3>6
  <2>2. DOMAIN jar' = Browsers /\ jar' = [a \in Browsers |-> jar'[a]]
    BY DEF Login, Inv, TypeOK
  <2> QED
    BY <2>1, <2>2 DEF JarOK
<1>6. CallsInv' /\ CallOK'
  BY <1>2, <1>3, CallsKept DEF Login
<1>7. CookieNamesSession'
  <2> SUFFICES ASSUME NEW a \in Browsers, jar'[a].session # 0
               PROVE  Named(jar'[a].session)
    BY DEF CookieNamesSession, Named, Login
  <2>1. jar'[a].session = jar[a].session
    BY DEF Login, Inv, TypeOK
  <2> QED
    BY <2>1 DEF Inv, CookieNamesSession, Named
<1>8. SessionOK' /\ ProviderOK' /\ CacheOK' /\ Publishing' /\ CacheAged'
  BY InvParts DEF Login, SessionOK, ProviderOK, CacheOK, Publishing, CacheAged, provider, cache
<1> QED
  BY <1>4, <1>5, <1>6, <1>7, <1>8, InvNext

LEMMA AuthenticateInv ==
    ASSUME Inv, NEW n \in DOMAIN login, Authenticate(n)
    PROVE  Inv'
<1>1. Len(login') = Len(login) /\ LoginOK' /\ JarOK'
  BY LoginStep DEF Authenticate
<1>2. Len(login) \in Nat
  BY LoginCount, AuthAssumption DEF Inv
<1>3. CallsInv' /\ CallOK'
  BY <1>1, <1>2, CallsKept DEF Authenticate
<1>4. CookieNamesSession'
  BY SameSessions, SameCookies DEF Authenticate
<1>5. SessionOK' /\ ProviderOK' /\ CacheOK' /\ Publishing' /\ CacheAged'
  BY InvParts DEF Authenticate, SessionOK, ProviderOK, CacheOK, Publishing, CacheAged, provider, cache
<1> QED
  BY <1>1, <1>3, <1>4, <1>5, InvNext

LEMMA CallbackInv ==
    ASSUME Inv, NEW h \in Handlers, NEW n \in DOMAIN login, Callback(h, n)
    PROVE  Inv'
<1> DEFINE r == Idle(login[n].browser)
           at == IF jar[login[n].browser].state = n /\ login[n].left > 0 THEN "exchange" ELSE "refused"
           c == [r EXCEPT !.login = n, !.pc = at]
<1>1. n \in 1..Len(login) /\ n \in 0..MaxLogins /\ login[n].browser \in Browsers
  BY LoginCount, AuthAssumption DEF Inv, LoginEntry
<1>2. r \in Call /\ r.key = 0 /\ r.doc = {}
  BY <1>1, AuthAssumption DEF Call, Idle
<1>3. at \in {"exchange", "refused"}
  OBVIOUS
<1>4. c \in Call /\ c.pc = at /\ c.login = n /\ c.key = 0 /\ c.doc = {}
  <2> HIDE DEF r, at
  <2> QED BY <1>1, <1>2, <1>3 DEF Call
<1>5. sign \in Nat
  BY AuthAssumption DEF Inv, TypeOK, Keys
<1>6. call' = [call EXCEPT ![h] = c] /\ UNCHANGED <<jar, login, session, provider, cache>>
  BY DEF Callback
<1>7. NamesKept /\ CookieNamesSession'
  BY <1>6, SameSessions, SameCookies
<1>8. CallsInv' /\ CallOK'
  <2> HIDE DEF c, at
  <2>1. Fits(c)
    BY <1>1, <1>3, <1>4, <1>5 DEF Fits
  <2>2. PICK d \in Call : call' = [call EXCEPT ![h] = d] /\ Fits(d) /\ d.pc \in {"exchange", "refused"}
    BY <1>3, <1>4, <1>6, <2>1
  <2> QED
    BY <1>6, <1>7, <2>2, CallStep
<1>9. JarOK' /\ LoginOK' /\ SessionOK' /\ ProviderOK' /\ CacheOK' /\ Publishing' /\ CacheAged'
  BY <1>6, InvParts DEF JarOK, LoginOK, SessionOK, ProviderOK, CacheOK, Publishing, CacheAged,
                        provider, cache
<1> QED
  BY <1>7, <1>8, <1>9, InvNext

-----------------------------------------------------------------------------
(* The identity provider and time.                                         *)

(* A new key is none that a handler or the cache knows, so that no key     *)
(* once withdrawn is published again.                                      *)
LEMMA RotateKeyInv ==
    ASSUME Inv, RotateKey
    PROVE  Inv'
<1>1. /\ sign \in Nat /\ sign' = sign + 1 /\ sign' \in Keys
      /\ published \subseteq 1..sign /\ published' = published \cup {sign + 1}
      /\ UNCHANGED <<jar, login, session, gone, cache, call>>
  BY AuthAssumption DEF RotateKey, Inv, TypeOK, Keys
<1>2. 1..sign \subseteq 1..sign' /\ 0..sign \subseteq 0..sign' /\ sign + 1 \notin 0..sign
  BY <1>1
<1>3. ProviderOK'
  BY <1>1, <1>2 DEF ProviderOK, Inv, TypeOK
<1>4. CacheOK'
  BY <1>1, <1>2 DEF CacheOK, cache, Inv, TypeOK
<1>5. Publishing'
  <2> SUFFICES ASSUME NEW k \in Keys, k \in published' \/ k > sign'
               PROVE  gone[k] = 0
    BY <1>1 DEF Publishing
  <2>1. k \in published \/ k > sign
    BY <1>1 DEF Keys
  <2> QED
    BY <2>1 DEF Inv, Publishing
<1>6. CacheAged'
  BY <1>1 DEF CacheAged, Inv, cache
<1>7. ASSUME NEW g \in Handlers PROVE Working(g)' /\ Refusing(g)' /\ Aged(g)'
  <2>1. call[g].key # sign + 1
    BY <1>2, CallKnown DEF Working
  <2> QED
    BY <1>1, <1>2, <2>1, CallKnown DEF Working, Refusing, Aged, Named
<1>8. JarOK' /\ LoginOK' /\ SessionOK' /\ CallOK'
  BY <1>1, InvParts DEF JarOK, LoginOK, SessionOK, CallOK
<1>9. CookieNamesSession'
  BY <1>1, SameSessions, SameCookies
<1> QED
  BY <1>3, <1>4, <1>5, <1>6, <1>7, <1>8, <1>9, InvNext DEF CallsInv

(* A key has just been withdrawn: its age is 0.                            *)
LEMMA WithdrawInv ==
    ASSUME Inv, NEW k \in Keys, Withdraw(k)
    PROVE  Inv'
<1>1. /\ k \in published /\ k # sign /\ published' = published \ {k}
      /\ UNCHANGED <<jar, login, session, sign, gone, cache, call>>
  BY DEF Withdraw
<1>2. gone[k] = 0
  BY <1>1 DEF Inv, Publishing
<1>3. ProviderOK' /\ CacheOK' /\ Publishing'
  BY <1>1, InvParts DEF ProviderOK, CacheOK, Publishing, cache
<1>4. CacheAged'
  <2> SUFFICES ASSUME NEW x \in jwks, x \notin published'
               PROVE  gone[x] + fresh <= KeyTtl + MaxDelay
    BY <1>1 DEF CacheAged, cache
  <2>1. CASE x = k
    BY <1>2, <2>1, AuthAssumption DEF Inv, TypeOK
  <2>2. CASE x # k
    BY <1>1, <2>2 DEF Inv, CacheAged
  <2> QED
    BY <2>1, <2>2
<1>5. ASSUME NEW g \in Handlers PROVE Working(g)' /\ Refusing(g)' /\ Aged(g)'
  <2>1. Working(g)' /\ Refusing(g)'
    BY <1>1, CallKnown DEF Working, Refusing, Named
  <2>2. call[g].wait \in Nat
    BY CallKnown, AuthAssumption DEF Call
  <2>3. Aged(g)'
    <3> SUFFICES ASSUME call[g].pc = "doc", NEW x \in call[g].doc, x \notin published'
                 PROVE  gone[x] <= call[g].wait
      BY <1>1 DEF Aged
    <3>1. CASE x = k
      BY <1>2, <2>2, <3>1
    <3>2. CASE x # k
      BY <1>1, <3>2, CallKnown DEF Aged
    <3> QED
      BY <3>1, <3>2
  <2> QED
    BY <2>1, <2>3
<1>6. JarOK' /\ LoginOK' /\ SessionOK' /\ CallOK'
  BY <1>1, InvParts DEF JarOK, LoginOK, SessionOK, CallOK
<1>7. CookieNamesSession'
  BY <1>1, SameSessions, SameCookies
<1> QED
  BY <1>3, <1>4, <1>5, <1>6, <1>7, InvNext DEF CallsInv

(* Time only runs: a session that a cookie names stays named, a withdrawn  *)
(* key ages no faster than its cached copy, or the document it is in.      *)
LEMMA ElapseInv ==
    ASSUME Inv, Elapse
    PROVE  Inv'
<1> DEFINE M == KeyTtl + MaxDelay
<1>1. /\ sign \in Keys /\ sign \in Nat /\ sign \in published
      /\ published \subseteq 1..sign /\ jwks \subseteq 1..sign /\ 1..sign \subseteq Keys
      /\ M \in Nat /\ gone \in [Keys -> 0..M] /\ fresh \in 0..KeyTtl /\ KeyTtl \in Nat
      /\ UNCHANGED <<jar, sign, published, jwks>>
  BY AuthAssumption DEF Inv, TypeOK, Publishing, Keys, Elapse
<1>2. ASSUME NEW k \in Keys
      PROVE  /\ gone'[k] \in 0..M /\ gone'[k] <= gone[k] + 1
             /\ (k \in published \/ k > sign => gone'[k] = gone[k])
  <2>1. gone[k] \in 0..M /\ k \in Nat
    BY <1>1, AuthAssumption DEF Keys
  <2>2. gone'[k] = IF k < sign /\ k \notin published THEN Least(gone[k] + 1, M) ELSE gone[k]
    BY DEF Elapse
  <2>3. \A x \in 0..M : Least(x + 1, M) \in 0..M /\ Least(x + 1, M) <= x + 1
    <3> HIDE DEF M
    <3> QED BY <1>1 DEF Least
  <2> QED
    <3> HIDE DEF M
    <3> QED BY <1>1, <2>1, <2>2, <2>3
<1>3. gone' \in [Keys -> 0..M]
  BY <1>2 DEF Elapse
<1>4. /\ fresh' \in 0..KeyTtl /\ fresh \in Nat /\ fresh' \in Nat
      /\ (fresh > 0 => fresh' + 1 = fresh) /\ (fresh = 0 => fresh' = 0)
  BY <1>1 DEF Elapse, Less
<1>5. ProviderOK' /\ CacheOK'
  BY <1>1, <1>3, <1>4 DEF ProviderOK, CacheOK
<1>6. Publishing'
  BY <1>1, <1>2 DEF Publishing, Inv
<1>7. CacheAged'
  <2> SUFFICES ASSUME NEW k \in jwks, k \notin published
               PROVE  gone'[k] + fresh' <= M
    BY <1>1 DEF CacheAged
  <2>1. k \in Keys /\ gone[k] \in Nat /\ gone'[k] \in 0..M /\ gone'[k] <= gone[k] + 1
    BY <1>1, <1>2
  <2>2. gone[k] + fresh <= M
    BY DEF Inv, CacheAged
  <2>3. ASSUME NEW m \in Nat, NEW x \in Nat, NEW y \in Nat, NEW f \in Nat, NEW g \in Nat,
               y <= m, y <= x + 1, x + f <= m, f > 0 => g + 1 = f, f = 0 => g = 0
        PROVE  y + g <= m
    BY <2>3
  <2>4. M \in Nat /\ gone'[k] \in Nat /\ gone'[k] <= M
    <3> HIDE DEF M
    <3> QED BY <1>1, <2>1
  <2> QED
    <3> HIDE DEF M
    <3> QED BY <1>4, <2>1, <2>2, <2>3, <2>4
<1>8. LoginOK' /\ Len(login') = Len(login)
  <2> DEFINE n == Len(login)
             f(i) == [login[i] EXCEPT !.left = Less(@)]
  <2>1. n \in Nat /\ DOMAIN login = 1..n /\ n <= MaxLogins
    BY LoginCount, AuthAssumption DEF Inv
  <2>2. ASSUME NEW i \in 1..n PROVE f(i) \in LoginEntry
    <3>1. login[i] \in LoginEntry
      BY LoginCount DEF Inv
    <3>2. \A x \in 0..StateTtl : Less(x) \in 0..StateTtl
      BY AuthAssumption DEF Less
    <3> QED
      BY <3>1, <3>2 DEF LoginEntry
  <2>3. login' = [i \in 1..n |-> f(i)]
    BY <2>1 DEF Elapse
  <2>4. login' \in Seq(LoginEntry)
    <3> HIDE DEF n, f
    <3>1. login' \in [1..n -> LoginEntry]
      BY <2>2, <2>3
    <3> QED BY <2>1, <3>1, SeqDef
  <2>5. Len(login') = n
    <3>1. DOMAIN login' = 1..n
      BY <2>3
    <3>2. DOMAIN login' = 1..Len(login') /\ Len(login') \in Nat
      BY <2>4, LenProperties
    <3> HIDE DEF n
    <3> QED
      BY <2>1, <3>1, <3>2
  <2> QED
    BY <2>1, <2>4, <2>5 DEF LoginOK
<1>9. JarOK'
  BY <1>1, <1>8, InvParts DEF JarOK
<1>10. SessionOK' /\ NamesKept
  <2> DEFINE S == [is : {"none", "stored", "expired", "ended"}, left : 0..SessionTtl]
  <2>1. \A x \in 0..SessionTtl : Less(x) \in 0..SessionTtl /\ (x = 0 => Less(x) = 0)
    BY AuthAssumption DEF Less
  <2>2. ASSUME NEW n \in Logins
        PROVE  /\ session'[n] \in S /\ session'[n].is = session[n].is
               /\ session[n].left = 0 => session'[n].left = 0
    <3>1. session[n] \in S
      BY DEF Inv, TypeOK
    <3>2. session'[n] = [session[n] EXCEPT !.left = Less(session[n].left)]
      BY DEF Elapse
    <3> QED
      BY <2>1, <3>1, <3>2
  <2>3. SessionOK'
    BY <2>2 DEF Elapse, SessionOK
  <2>4. NamesKept
    BY <2>2 DEF NamesKept, Named
  <2> QED
    BY <2>3, <2>4
<1>11. CookieNamesSession'
  BY <1>1, <1>10, SameCookies
<1>12. ASSUME NEW g \in Handlers
       PROVE  call'[g] \in Call /\ Working(g)' /\ Refusing(g)' /\ Aged(g)'
  <2> DEFINE w == IF call[g].pc = "doc" THEN call[g].wait + 1 ELSE call[g].wait
  <2>1. /\ call[g] \in Call /\ Working(g) /\ Refusing(g) /\ Aged(g)
        /\ call[g].pc # "idle" => call[g].login \in Logins
    BY CallKnown
  <2>2. call[g].wait \in 0..MaxDelay /\ MaxDelay \in Nat
    BY <2>1, AuthAssumption DEF Call
  <2>3. w \in 0..MaxDelay /\ (call[g].pc = "doc" => w = call[g].wait + 1)
    BY <2>2 DEF Elapse
  <2>4. call'[g] = [call[g] EXCEPT !.wait = w]
    BY DEF Elapse
  <2> HIDE DEF w
  <2>5. /\ call'[g] \in Call /\ call'[g].wait = w /\ call'[g].pc = call[g].pc
        /\ call'[g].login = call[g].login /\ call'[g].key = call[g].key
        /\ call'[g].doc = call[g].doc
    BY <2>1, <2>3, <2>4 DEF Call
  <2>6. call[g].pc \in {"reply", "delete", "cleared"} => Named(call[g].login)'
    <3>1. ASSUME NEW n \in Logins, Named(n) PROVE Named(n)'
      BY <1>10, <3>1 DEF NamesKept
    <3>2. ASSUME NEW n \in Logins, n = call[g].login, call[g].pc \in {"reply", "delete", "cleared"}
          PROVE  \/ session'[n].is \in {"stored", "ended"}
                 \/ session'[n].is = "expired" /\ session'[n].left = 0
      BY <2>1, <3>1, <3>2 DEF Working, Named
    <3> SUFFICES ASSUME call[g].pc \in {"reply", "delete", "cleared"}
                 PROVE  Named(call[g].login)'
      OBVIOUS
    <3>3. call[g].login \in Logins
      BY <2>1
    <3>4. PICK n \in Logins : n = call[g].login
      BY <3>3
    <3>5. \/ session'[n].is \in {"stored", "ended"}
          \/ session'[n].is = "expired" /\ session'[n].left = 0
      BY <3>2, <3>4
    <3> QED
      BY <2>5, <3>4, <3>5 DEF Named
  <2>7. Working(g)' /\ Refusing(g)'
    BY <1>1, <1>8, <2>1, <2>5, <2>6 DEF Working, Refusing, Named
  <2>8. Aged(g)'
    <3> SUFFICES ASSUME call[g].pc = "doc", NEW k \in call[g].doc, k \notin published
                 PROVE  gone'[k] <= w
      BY <1>1, <2>5 DEF Aged
    <3>1. gone[k] <= call[g].wait
      BY <2>1 DEF Aged
    <3>2. k \in Keys /\ gone[k] \in Nat /\ gone'[k] \in Nat /\ gone'[k] <= gone[k] + 1
      BY <1>1, <1>2, <2>1 DEF Working
    <3> QED
      BY <2>2, <2>3, <3>1, <3>2
  <2> QED
    BY <2>5, <2>7, <2>8
<1>13. CallsInv' /\ CallOK'
  BY <1>12 DEF CallsInv, CallOK, Elapse
<1> QED
  BY <1>5, <1>6, <1>7, <1>8, <1>9, <1>10, <1>11, <1>13, InvNext

-----------------------------------------------------------------------------
(* Inv is inductive.                                                       *)
LEMMA NextInv == Inv /\ [Next]_vars => Inv'
<1> SUFFICES ASSUME Inv, [Next]_vars PROVE Inv'
  OBVIOUS
<1>1. ASSUME NEW h \in Handlers, handle(h) PROVE Inv'
  BY <1>1, ExchangeInv, VerifyInv, FetchInv, CachedInv, PutInv, DeleteInv, ReplyInv DEF handle
<1>2. ASSUME NEW b \in Browsers, Login(b) \/ Get(b) \/ \E h \in Handlers : Logout(h, b)
      PROVE  Inv'
  BY <1>2, LoginInv, GetInv, LogoutInv
<1>3. ASSUME NEW n \in DOMAIN login, Authenticate(n) \/ \E h \in Handlers : Callback(h, n)
      PROVE  Inv'
  BY <1>3, AuthenticateInv, CallbackInv
<1>4. CASE RotateKey \/ (\E k \in Keys : Withdraw(k)) \/ Elapse
  BY <1>4, RotateKeyInv, WithdrawInv, ElapseInv
<1>5. CASE UNCHANGED vars
  <2>1. UNCHANGED <<jar, login, session, sign, published, gone, jwks, fresh, call>>
    BY <1>5 DEF vars, provider, cache
  <2>2. CookieNamesSession'
    BY <2>1, SameSessions, SameCookies
  <2>3. CallsInv'
    BY <2>1, InvParts DEF CallsInv, Working, Refusing, Aged, Named
  <2>4. JarOK' /\ LoginOK' /\ SessionOK' /\ ProviderOK' /\ CacheOK' /\ CallOK' /\ Publishing' /\ CacheAged'
    BY <2>1, InvParts
       DEF JarOK, LoginOK, SessionOK, ProviderOK, CacheOK, CallOK, Publishing, CacheAged
  <2> QED
    BY <2>2, <2>3, <2>4, InvNext
<1> QED
  BY <1>1, <1>2, <1>3, <1>4, <1>5 DEF Next

LEMMA Inductive == Spec => []Inv
BY InitInv, NextInv, PTL DEF Spec

(* Every variable of the browser sessions keeps its shape: what a callback *)
(* or a logout works on is a login that was begun and keys that the        *)
(* provider once published.                                                *)
THEOREM AuthTypeCorrect == Spec => []TypeOK
<1>1. Inv => TypeOK
  BY DEF Inv
<1> QED
  BY <1>1, Inductive, PTL

(* A browser has a cookie only of a session that callback has stored, and  *)
(* that is there until logout deletes it or Get finds its time up.         *)
THEOREM CookiesNameSessions == Spec => []CookieNamesSession
<1>1. Inv => CookieNamesSession
  BY DEF Inv
<1> QED
  BY <1>1, Inductive, PTL

(* verifyIDToken refuses a token for an unknown key only when the provider *)
(* has withdrawn that key: the fetch by force has read a document that is  *)
(* newer than the token.                                                   *)
THEOREM NobodyLockedOut == Spec => []PublishedKeyKnown
<1>1. Inv => PublishedKeyKnown
  BY DEF Inv, CallsInv, Refusing, PublishedKeyKnown
<1> QED
  BY <1>1, Inductive, PTL

(* A token that verifyIDToken accepts is signed by a key that is published *)
(* or was so within the life of the cache and the delay of a document,     *)
(* however the fetches of fetchJWKS overtake each other.                   *)
THEOREM WithdrawnKeysExpire == Spec => WithdrawnKeyExpires
<1> DEFINE A == \A h \in Handlers : call'[h].pc = "put" /\ call[h].pc # "put" =>
                  \/ call[h].key \in published
                  \/ gone[call[h].key] < KeyTtl + MaxDelay
<1>1. Inv /\ [Next]_vars => [A]_vars
  <2> SUFFICES ASSUME Inv, Next, NEW h \in Handlers,
                      call'[h].pc = "put", call[h].pc # "put", call[h].key \notin published
               PROVE  gone[call[h].key] < KeyTtl + MaxDelay
    OBVIOUS
  <2>1. call \in [Handlers -> Call] /\ call'[h] # call[h]
    BY DEF Inv, TypeOK
  <2>2. \/ call[h].pc = "verify" /\ CacheFresh /\ call[h].key \in jwks
        \/ call[h].pc = "doc" /\ call[h].key \in call[h].doc
    <3>1. ASSUME NEW g \in Handlers, g # h, NEW c, call' = [call EXCEPT ![g] = c]
          PROVE  FALSE
      BY <2>1, <3>1
    <3>2. ASSUME NEW pc, Stepped(h, pc)
          PROVE  pc = "put"
      BY <2>1, <3>2 DEF Stepped
    <3>3. ASSUME NEW g \in Handlers, handle(g)
          PROVE  \/ call[h].pc = "verify" /\ CacheFresh /\ call[h].key \in jwks
                 \/ call[h].pc = "doc" /\ call[h].key \in call[h].doc
      <4>1. \E c : call' = [call EXCEPT ![g] = c]
        <5>1. CASE Exchange(g)
          BY <5>1 DEF Exchange, Ends
        <5>2. CASE VerifyIDToken(g) \/ FetchJWKS(g) \/ Cached(g)
          BY <5>2 DEF VerifyIDToken, FetchJWKS, Cached, Ends, NotCached, Goes, Missing
        <5>3. CASE Put(g) \/ Delete(g) \/ Reply(g)
          BY <5>3 DEF Put, Delete, Reply, Ends, Goes, Done, PutFails
        <5> QED
          BY <3>3, <5>1, <5>2, <5>3 DEF handle
      <4>2. g = h
        BY <3>1, <4>1
      <4>3. CASE Exchange(h)
        <5>1. CASE Ends(h, "refused")
          BY <3>2, <4>3, <5>1, EndsStep DEF Exchange
        <5>2. CASE call' = [call EXCEPT ![h].pc = "verify", ![h].key = sign]
          <6>1. [call[h] EXCEPT !.pc = "verify", !.key = sign].pc # "put"
            BY <2>1 DEF Call
          <6> QED
            BY <2>1, <5>2, <6>1
        <5> QED
          BY <4>3, <5>1, <5>2 DEF Exchange
      <4>4. CASE VerifyIDToken(h)
        BY <3>2, <4>4, NotCachedStep, GoesStep DEF VerifyIDToken
      <4>5. CASE FetchJWKS(h)
        <5>1. CASE Ends(h, "refused")
          BY <3>2, <4>5, <5>1, EndsStep DEF FetchJWKS
        <5>2. CASE call' = [call EXCEPT ![h].pc = "doc", ![h].doc = published, ![h].wait = 0]
          <6>1. [call[h] EXCEPT !.pc = "doc", !.doc = published, !.wait = 0].pc # "put"
            BY <2>1 DEF Call
          <6> QED
            BY <2>1, <5>2, <6>1
        <5> QED
          BY <4>5, <5>1, <5>2 DEF FetchJWKS
      <4>6. CASE Cached(h)
        <5>1. Refusing(h)
          BY CallKnown
        <5> QED
          BY <3>2, <4>6, <5>1, EndsStep, GoesStep, NotCachedStep DEF Cached, Missing, Refusing
      <4>7. CASE Put(h)
        BY <4>7 DEF Put
      <4>8. CASE Delete(h) \/ Reply(h)
        BY <3>2, <4>8, DoneStep, GoesStep DEF Delete, Reply
      <4> QED
        BY <3>3, <4>2, <4>3, <4>4, <4>5, <4>6, <4>7, <4>8 DEF handle
    <3>4. CASE \E b \in Browsers : Login(b) \/ Get(b) \/ \E g \in Handlers : Logout(g, b)
      <4> SUFFICES ASSUME NEW b \in Browsers, NEW g \in Handlers, Logout(g, b)
                   PROVE  FALSE
        BY <2>1, <3>4 DEF Login, Get
      <4> DEFINE r == Idle(b)
                 c == [r EXCEPT !.pc = "delete", !.login = jar[b].session]
      <4>1. r \in Call
        BY AuthAssumption DEF Call, Idle
      <4>2. c.pc # "put"
        <5> HIDE DEF r
        <5> QED BY <4>1 DEF Call
      <4>3. call' = [call EXCEPT ![g] = c]
        BY DEF Logout
      <4> QED
        <5> HIDE DEF c
        <5> QED BY <2>1, <3>1, <4>2, <4>3
    <3>5. CASE \E n \in DOMAIN login : Authenticate(n) \/ \E g \in Handlers : Callback(g, n)
      <4> SUFFICES ASSUME NEW n \in DOMAIN login, NEW g \in Handlers, Callback(g, n)
                   PROVE  FALSE
        BY <2>1, <3>5 DEF Authenticate
      <4> DEFINE r == Idle(login[n].browser)
                 at == IF jar[login[n].browser].state = n /\ login[n].left > 0
                       THEN "exchange" ELSE "refused"
                 c == [r EXCEPT !.login = n, !.pc = at]
      <4>1. r \in Call /\ at # "put"
        <5>1. login[n].browser \in Browsers
          BY LoginCount DEF Inv, LoginEntry
        <5> QED
          BY <5>1, AuthAssumption DEF Call, Idle
      <4>2. c.pc # "put"
        <5> HIDE DEF r, at
        <5> QED BY <4>1 DEF Call
      <4>3. call' = [call EXCEPT ![g] = c]
        BY DEF Callback
      <4> QED
        <5> HIDE DEF c
        <5> QED BY <2>1, <3>1, <4>2, <4>3
    <3>6. CASE RotateKey \/ (\E k \in Keys : Withdraw(k)) \/ Elapse
      BY <2>1, <3>6 DEF RotateKey, Withdraw, Elapse, Call
    <3> QED
      BY <3>3, <3>4, <3>5, <3>6 DEF Next
  <2>3. CASE CacheFresh /\ call[h].key \in jwks
    <3>1. gone[call[h].key] + fresh <= KeyTtl + MaxDelay
      BY <2>3 DEF Inv, CacheAged
    <3>2. fresh \in Nat /\ fresh > 0
      BY <2>3, AuthAssumption DEF CacheFresh, Inv, TypeOK
    <3>3. call[h].key \in Keys
      <4>1. jwks \subseteq 1..sign /\ sign \in 1..MaxKeys
        BY DEF Inv, TypeOK, Keys
      <4>2. \A k \in 1..sign : k \in 1..MaxKeys
        BY <4>1, AuthAssumption
      <4> QED
        BY <2>3, <4>1, <4>2 DEF Keys
    <3>4. gone[call[h].key] \in Nat
      BY <3>3, AuthAssumption DEF Inv, TypeOK
    <3> QED
      BY <3>1, <3>2, <3>4, AuthAssumption
  <2>4. CASE call[h].pc = "doc" /\ call[h].key \in call[h].doc
    <3>1. gone[call[h].key] <= call[h].wait /\ call[h].wait \in 0..MaxDelay
      BY <2>4, CallKnown DEF Aged, Call
    <3>2. gone[call[h].key] \in Nat
      BY <2>4, CallKnown, AuthAssumption DEF Inv, TypeOK, Keys, Call
    <3> QED
      BY <3>1, <3>2, AuthAssumption
  <2> QED
    BY <2>2, <2>3, <2>4
<1> QED
  BY <1>1, Inductive, PTL DEF Spec, WithdrawnKeyExpires
=============================================================================
