-------------------------- MODULE ServerModeProofs --------------------------
(***************************************************************************)
(* Theorems about ServerMode: types, the honesty of the store, and that    *)
(* server mode implements TokenSource, for all settings and lifetimes and  *)
(* any number of calls, activations and faults.                            *)
(***************************************************************************)
EXTENDS ServerMode, TLAPS

USE LifeAssumption, DelayAssumption, BoundAssumption, SettingsAssumption, NoneAssumption
    DEF Modes, Contexts

(***************************************************************************)
(* TypeOK is inductive. The configuration of every activation so far is    *)
(* part of it because the strategies of a call are read from there.        *)
(***************************************************************************)
LEMMA InitType == Init => TypeOK
  BY DEF Init, TypeOK, Empty, NoFlight, Entries, Fetches

\* A fetch changes its point, or its point and token.
LEMMA FetchMoves ==
    ASSUME TypeOK, NEW m \in Modes, NEW p \in {"fetch", "stored", "failed"},
           p = "stored" => flight[m].token \in Tokens,
           flight' = [flight EXCEPT ![m].at = p]
    PROVE  /\ flight' \in [Modes -> Fetches]
           /\ \A n \in Modes : flight'[n].at \in {"reply", "stored"}
                                => flight'[n].token \in Tokens
<1>1. [flight[m] EXCEPT !.at = p] \in Fetches
  BY DEF TypeOK, Fetches
<1>2. flight' \in [Modes -> Fetches]
  BY <1>1 DEF TypeOK
<1>3. ASSUME NEW n \in Modes, flight'[n].at \in {"reply", "stored"}
      PROVE  flight'[n].token \in Tokens
  <2>1. CASE n = m
    <3>1. flight'[m] = [flight[m] EXCEPT !.at = p]
      BY DEF TypeOK
    <3>2. flight'[m].at = p /\ flight'[m].token = flight[m].token
      BY <3>1 DEF TypeOK, Fetches
    <3> QED BY <2>1, <3>2, <1>3
  <2>2. CASE n # m
    BY <2>2, <1>3 DEF TypeOK
  <2> QED BY <2>1, <2>2
<1> QED BY <1>2, <1>3

LEMMA FetchReplaced ==
    ASSUME TypeOK, NEW m \in Modes, NEW f \in Fetches,
           f.at \in {"reply", "stored"} => f.token \in Tokens,
           flight' = [flight EXCEPT ![m] = f]
    PROVE  /\ flight' \in [Modes -> Fetches]
           /\ \A n \in Modes : flight'[n].at \in {"reply", "stored"}
                                => flight'[n].token \in Tokens
  BY DEF TypeOK

LEMMA NextType == TypeOK /\ [Next]_vars => TypeOK'
<1> SUFFICES ASSUME TypeOK, [Next]_vars PROVE TypeOK'
  OBVIOUS
<1> USE DEF Silent, callVars
<1>1. ASSUME NEW c \in Callers, NEW x \in Contexts, GetToken(c, x) PROVE TypeOK'
  BY <1>1 DEF GetToken, TypeOK
<1>2. ASSUME NEW c \in Callers, NoStrategy(c) PROVE TypeOK'
  BY <1>2 DEF NoStrategy, Return, TypeOK
<1>3. ASSUME NEW c \in Callers, PatFlow(c) PROVE TypeOK'
  <2>1. of[c] \in Modes
    BY <1>3 DEF PatFlow, TypeOK
  <2>2. [mode |-> of[c], got |-> now, expires |-> now + FarFuture] \in Tokens
    BY <2>1 DEF Tokens, TypeOK
  <2> QED BY <1>3, <2>2 DEF PatFlow, Return, TypeOK
<1>4. ASSUME NEW c \in Callers, CachedFlow(c) PROVE TypeOK'
  <2>1. of[c] \in Modes
    BY <1>4 DEF CachedFlow, TypeOK
  <2>2. CASE Has(of[c]) /\ Return(c, store[of[c]].token)
    <3>1. store[of[c]].token \in Tokens
      BY <2>1, <2>2 DEF Has, TypeOK, Entries
    <3> QED BY <1>4, <2>2, <3>1 DEF CachedFlow, Return, TypeOK
  <2>3. CASE Goto(c, "join")
    BY <1>4, <2>3 DEF CachedFlow, Goto, TypeOK
  <2> QED BY <1>4, <2>2, <2>3 DEF CachedFlow, Manager
<1>5. ASSUME NEW c \in Callers, Join(c) PROVE TypeOK'
  <2>1. of[c] \in Modes
    BY <1>5 DEF Join, TypeOK
  <2>2. flight' \in [Modes -> Fetches]
        /\ \A n \in Modes : flight'[n].at \in {"reply", "stored"} => flight'[n].token \in Tokens
    <3>1. CASE flight[of[c]].at = "none"
      <4>1. flight' = [flight EXCEPT ![of[c]].at = "fetch"]
        BY <1>5, <3>1 DEF Join, Manager
      <4> QED BY <2>1, <4>1, FetchMoves
    <3>2. CASE flight[of[c]].at # "none"
      <4>1. flight' = flight
        BY <1>5, <2>1, <3>2 DEF Join, Manager, TypeOK, Fetches
      <4> QED BY <4>1 DEF TypeOK
    <3> QED BY <3>1, <3>2
  <2> QED BY <1>5, <2>2 DEF Join, Goto, TypeOK
<1>6. ASSUME NEW c \in Callers, Cancel(c) PROVE TypeOK'
  BY <1>6 DEF Cancel, Return, TypeOK
<1>7. ASSUME NEW m \in Modes, Reply(m) PROVE TypeOK'
  <2>1. PICK life \in Lives :
          flight' = [flight EXCEPT ![m] =
            [at |-> "reply", token |-> [mode |-> m, got |-> now, expires |-> now + life]]]
    BY <1>7 DEF Reply
  <2>2. [mode |-> m, got |-> now, expires |-> now + life] \in Tokens
    <3>1. life \in Int /\ now \in Nat
      BY DEF TypeOK
    <3> QED BY <3>1 DEF Tokens
  <2> DEFINE f == [at |-> "reply",
                   token |-> [mode |-> m, got |-> now, expires |-> now + life]]
  <2>3. f \in Fetches /\ f.token \in Tokens
    BY <2>2 DEF Fetches
  <2>4. flight' \in [Modes -> Fetches]
        /\ \A n \in Modes : flight'[n].at \in {"reply", "stored"} => flight'[n].token \in Tokens
    BY <2>1, <2>3, FetchReplaced
  <2> QED BY <1>7, <2>4 DEF Reply, TypeOK
<1>8. ASSUME NEW m \in Modes, Fail(m) PROVE TypeOK'
  <2>1. flight' = [flight EXCEPT ![m].at = "failed"]
    BY <1>8 DEF Fail
  <2>2. flight' \in [Modes -> Fetches]
        /\ \A n \in Modes : flight'[n].at \in {"reply", "stored"} => flight'[n].token \in Tokens
    BY <2>1, FetchMoves
  <2> QED BY <1>8, <2>2 DEF Fail, TypeOK
<1>9. ASSUME NEW m \in Modes, Set(m) PROVE TypeOK'
  <2>1. flight[m].token \in Tokens /\ flight' = [flight EXCEPT ![m].at = "stored"]
    BY <1>9 DEF Set, TypeOK
  <2>2. Stored(flight[m].token) \in Entries
    BY <2>1 DEF Stored, Tokens, Entries, TypeOK
  <2> QED BY <1>9, <2>1, <2>2, FetchMoves DEF Set, TypeOK
<1>10. ASSUME NEW m \in Modes, Land(m) PROVE TypeOK'
  <2> DEFINE result == IF flight[m].at = "failed" THEN Error ELSE flight[m].token
  <2>1. result \in Tokens \cup {Error}
    BY <1>10 DEF Land, TypeOK
  <2>2. out' \in [Callers -> Tokens \cup {None, Error}]
    BY <1>10, <2>1 DEF Land
  <2>3. NoFlight \in Fetches /\ NoFlight.at = "none"
    BY DEF NoFlight, Fetches
  <2>4. flight' = [flight EXCEPT ![m] = NoFlight]
    BY <1>10 DEF Land
  <2>5. flight' \in [Modes -> Fetches]
        /\ \A n \in Modes : flight'[n].at \in {"reply", "stored"} => flight'[n].token \in Tokens
    BY <2>3, <2>4, FetchReplaced
  <2> QED BY <1>10, <2>2, <2>5 DEF Land, TypeOK
<1>11. ASSUME NEW setting \in Settings, Activate(setting) PROVE TypeOK'
  <2>1. mode + 1 \in Modes /\ setting # None
    BY <1>11 DEF Activate, TypeOK
  <2> QED BY <1>11, <2>1 DEF Activate, TypeOK
<1>12. CASE Tick
  BY <1>12 DEF Tick, TypeOK
<1>13. CASE UNCHANGED vars
  BY <1>13 DEF vars, TypeOK
<1> QED BY <1>1, <1>2, <1>3, <1>4, <1>5, <1>6, <1>7, <1>8, <1>9, <1>10, <1>11, <1>12, <1>13
        DEF Next, Step, Fetch

(* The types are right at every point of every call and fetch. *)
THEOREM TypeCorrect == Spec => []TypeOK
<1> QED BY InitType, NextType, PTL DEF Spec

-----------------------------------------------------------------------------
(***************************************************************************)
(* The store is honest because a fetched token reaches it soon: FetchInv   *)
(* says which token a fetch carries and how much time may have passed      *)
(* since the lifetime left to it was computed.                             *)
(***************************************************************************)
FetchInv ==
    \A m \in Modes : flight[m].at \in {"reply", "stored"} =>
        /\ flight[m].token.mode = m
        /\ now <= flight[m].token.got + MaxDelay

\* No call began in the future.
SinceInv == \A c \in Callers : since[c] <= now

Inv == TypeOK /\ FetchInv /\ SinceInv /\ StoreHonest

LEMMA InitInv == Init => Inv
<1> SUFFICES ASSUME Init PROVE Inv
  OBVIOUS
<1>1. TypeOK
  BY InitType
<1>2. FetchInv
  BY DEF Init, FetchInv, NoFlight
<1>3. SinceInv
  <2>1. now = 0 /\ \A c \in Callers : since[c] = 0
    BY DEF Init
  <2>2. 0 <= 0
    OBVIOUS
  <2> QED BY <2>1, <2>2, Zenon DEF SinceInv
<1>4. StoreHonest
  BY DEF Init, StoreHonest, Empty
<1> QED BY <1>1, <1>2, <1>3, <1>4 DEF Inv

LEMMA NextFetchInv == TypeOK /\ FetchInv /\ [Next]_vars => FetchInv'
<1> SUFFICES ASSUME TypeOK, FetchInv, [Next]_vars,
                    NEW n \in Modes, flight'[n].at \in {"reply", "stored"}
             PROVE  /\ flight'[n].token.mode = n
                    /\ now' <= flight'[n].token.got + MaxDelay
  BY DEF FetchInv
<1> USE DEF Silent, callVars, TypeOK
<1> DEFINE Goal == /\ flight'[n].token.mode = n
                   /\ now' <= flight'[n].token.got + MaxDelay
<1>0. ASSUME flight'[n] = flight[n], now' = now PROVE Goal
  BY <1>0 DEF FetchInv
<1>1. ASSUME NEW c \in Callers, NEW x \in Contexts, GetToken(c, x) PROVE Goal
  BY <1>0, <1>1 DEF GetToken
<1>2. ASSUME NEW c \in Callers, NoStrategy(c) \/ PatFlow(c) \/ Cancel(c) \/ CachedFlow(c)
      PROVE  Goal
  BY <1>0, <1>2 DEF NoStrategy, PatFlow, Cancel, CachedFlow
<1>4. ASSUME NEW c \in Callers, Join(c) PROVE Goal
  <2>1. of[c] \in Modes /\ now' = now
    BY <1>4 DEF Join
  <2> DEFINE f == flight[of[c]]
  <2>2. flight' = [flight EXCEPT ![of[c]].at = IF f.at = "none" THEN "fetch" ELSE f.at]
    BY <1>4 DEF Join, Manager
  <2>3. CASE n = of[c]
    <3>1. flight'[n].at # "fetch"
      OBVIOUS
    <3>2. flight'[n] = [f EXCEPT !.at = IF f.at = "none" THEN "fetch" ELSE f.at]
      BY <2>1, <2>2, <2>3
    <3>3. f \in Fetches
      BY <2>1
    <3>4. flight'[n] = f
      BY <3>1, <3>2, <3>3 DEF Fetches
    <3> QED BY <1>0, <2>1, <2>3, <3>4
  <2>4. CASE n # of[c]
    BY <1>0, <2>1, <2>2, <2>4
  <2> QED BY <2>3, <2>4
<1>5. ASSUME NEW m \in Modes, Reply(m) PROVE Goal
  <2>1. CASE n # m
    BY <1>0, <1>5, <2>1 DEF Reply
  <2>2. CASE n = m
    <3>1. flight'[n].token.mode = n /\ flight'[n].token.got = now /\ now' = now
      BY <1>5, <2>2 DEF Reply
    <3> QED BY <3>1
  <2> QED BY <2>1, <2>2
<1>6. ASSUME NEW m \in Modes, Fail(m) PROVE Goal
  <2>1. CASE n # m
    BY <1>0, <1>6, <2>1 DEF Fail
  <2>2. CASE n = m
    <3>1. flight'[n] = [flight[n] EXCEPT !.at = "failed"]
      BY <1>6, <2>2 DEF Fail
    <3>2. flight'[n].at = "failed"
      BY <3>1 DEF Fetches
    <3> QED BY <3>2
  <2> QED BY <2>1, <2>2
<1>7. ASSUME NEW m \in Modes, Set(m) PROVE Goal
  <2>1. CASE n # m
    BY <1>0, <1>7, <2>1 DEF Set
  <2>2. CASE n = m
    <3>1. flight'[n] = [flight[n] EXCEPT !.at = "stored"] /\ now' = now
      BY <1>7, <2>2 DEF Set
    <3>2. flight'[n].token = flight[n].token
      BY <3>1 DEF Fetches
    <3> QED BY <1>7, <2>2, <3>1, <3>2 DEF Set, FetchInv
  <2> QED BY <2>1, <2>2
<1>8. ASSUME NEW m \in Modes, Land(m) PROVE Goal
  <2>1. n # m
    BY <1>8 DEF Land, NoFlight
  <2> QED BY <1>0, <1>8, <2>1 DEF Land
<1>9. ASSUME NEW setting \in Settings, Activate(setting) PROVE Goal
  BY <1>0, <1>9 DEF Activate
<1>10. CASE Tick
  <2>1. flight[n].at = "reply" /\ now < flight[n].token.got + MaxDelay
    BY <1>10 DEF Tick
  <2>2. flight[n].token \in Tokens
    BY <2>1
  <2> QED BY <1>10, <2>1, <2>2 DEF Tick, FetchInv, Tokens
<1>11. CASE UNCHANGED vars
  BY <1>0, <1>11 DEF vars
<1> QED BY <1>1, <1>2, <1>4, <1>5, <1>6, <1>7, <1>8, <1>9, <1>10, <1>11 DEF Next, Step, Fetch

LEMMA NextSinceInv == TypeOK /\ SinceInv /\ [Next]_vars => SinceInv'
<1> SUFFICES ASSUME TypeOK, SinceInv, [Next]_vars, NEW d \in Callers
             PROVE  since'[d] <= now'
  BY DEF SinceInv
<1> USE DEF Silent, callVars, TypeOK, SinceInv
<1>1. ASSUME NEW c \in Callers, NEW x \in Contexts, GetToken(c, x) PROVE since'[d] <= now'
  BY <1>1 DEF GetToken
<1>2. ASSUME NEW c \in Callers,
             NoStrategy(c) \/ PatFlow(c) \/ Cancel(c) \/ CachedFlow(c) \/ Join(c)
      PROVE  since'[d] <= now'
  BY <1>2 DEF NoStrategy, PatFlow, Cancel, CachedFlow, Join, Return, Goto
<1>3. ASSUME NEW m \in Modes, Fetch(m) PROVE since'[d] <= now'
  <2>1. CASE Reply(m) \/ Fail(m) \/ Set(m)
    BY <2>1 DEF Reply, Fail, Set
  <2>2. CASE Land(m)
    <3>1. now' = now /\ now \in Nat
          /\ since'[d] = IF d \in Waiting(m) THEN 0 ELSE since[d]
      BY <2>2 DEF Land
    <3> QED BY <3>1
  <2> QED BY <1>3, <2>1, <2>2 DEF Fetch
<1>4. ASSUME NEW setting \in Settings, Activate(setting) PROVE since'[d] <= now'
  BY <1>4 DEF Activate
<1>5. CASE Tick
  BY <1>5 DEF Tick
<1>6. CASE UNCHANGED vars
  BY <1>6 DEF vars
<1> QED BY <1>1, <1>2, <1>3, <1>4, <1>5, <1>6 DEF Next, Step

LEMMA NextStoreHonest == TypeOK /\ FetchInv /\ StoreHonest /\ [Next]_vars => StoreHonest'
<1> SUFFICES ASSUME TypeOK, FetchInv, StoreHonest, [Next]_vars PROVE StoreHonest'
  OBVIOUS
<1>1. CASE store' = store
  BY <1>1 DEF StoreHonest
<1>2. ASSUME NEW m \in Modes, Set(m) PROVE StoreHonest'
  <2> DEFINE t == flight[m].token
  <2>1. /\ t \in Tokens /\ t.mode = m /\ now <= t.got + MaxDelay
        /\ store' = [store EXCEPT ![m] = Stored(t)]
    BY <1>2 DEF Set, TypeOK, FetchInv
  <2>2. store'[m] = Stored(t)
    BY <2>1 DEF TypeOK
  <2>0. t.expires \in Int /\ t.got \in Nat /\ now \in Nat
    BY <2>1 DEF Tokens, TypeOK
  <2>3. Stored(t).expiresAt <= t.expires + MaxDelay
    <3>1. Stored(t).expiresAt = now + (t.expires - t.got)
      BY DEF Stored
    <3> QED BY <2>0, <2>1, <3>1
  <2>4. Stored(t).forever => t.expires = t.got
    <3>1. Stored(t).forever => t.expires - t.got = 0
      BY Zenon DEF Stored
    <3> QED BY <2>0, <3>1
  <2>5. Stored(t).token = t
    BY DEF Stored
  <2> SUFFICES ASSUME NEW n \in Modes, store'[n].token # None
               PROVE  /\ store'[n].token.mode = n
                      /\ IF store'[n].forever
                         THEN store'[n].token.expires = store'[n].token.got
                         ELSE store'[n].expiresAt <= store'[n].token.expires + MaxDelay
    BY DEF StoreHonest
  <2>6. CASE n = m
    BY <2>1, <2>2, <2>3, <2>4, <2>5, <2>6
  <2>7. CASE n # m
    BY <2>1, <2>7 DEF StoreHonest, TypeOK
  <2> QED BY <2>6, <2>7
<1>3. ASSUME NEW c \in Callers, NEW x \in Contexts, GetToken(c, x) PROVE store' = store
  BY <1>3 DEF GetToken
<1>4. ASSUME NEW c \in Callers, Step(c) \/ Cancel(c) PROVE store' = store
  BY <1>4 DEF Step, NoStrategy, PatFlow, CachedFlow, Join, Cancel
<1>5. ASSUME NEW m \in Modes, Reply(m) \/ Fail(m) \/ Land(m) PROVE store' = store
  BY <1>5 DEF Reply, Fail, Land
<1>6. ASSUME NEW setting \in Settings, Activate(setting) PROVE store' = store
  BY <1>6 DEF Activate
<1>7. Tick \/ UNCHANGED vars => store' = store
  BY DEF Tick, vars
<1> QED BY <1>1, <1>2, <1>3, <1>4, <1>5, <1>6, <1>7 DEF Next, Fetch

LEMMA Invariance == Spec => []Inv
<1>1. Inv /\ [Next]_vars => Inv'
  BY NextType, NextFetchInv, NextSinceInv, NextStoreHonest DEF Inv
<1> QED BY <1>1, InitInv, PTL DEF Spec

(* What the store takes for the end of a token is never later than the     *)
(* real end by more than MaxDelay, and it keeps no other mode's token.     *)
THEOREM StoreHonestCorrect == Spec => []StoreHonest
<1>1. Inv => StoreHonest
  BY DEF Inv
<1> QED BY <1>1, Invariance, PTL

-----------------------------------------------------------------------------
(* Server mode implements TokenSource: every step is one of its steps.     *)

LEMMA RefineInit == Init => Source!Init
  BY DEF Init, Source!Init

\* Steps that answer nobody and begin no call.
LEMMA RefineQuiet ==
    ASSUME TypeOK, Silent, UNCHANGED <<now, mode, of, since>>
    PROVE  Source!Answer({})
  BY DEF TypeOK, Silent, Source!Answer

\* Steps that answer one call.
LEMMA RefineReturn ==
    ASSUME TypeOK, NEW c \in Callers, pc[c] # "idle",
           NEW answer, Return(c, answer), UNCHANGED <<now, mode>>,
           answer = Error \/ (answer \in Tokens /\ Source!Honest(answer, c))
    PROVE  Source!Answer({c})
<1>1. of[c] # 0
  BY DEF TypeOK
<1>2. out' = [d \in Callers |-> IF d = c THEN answer ELSE None]
  BY DEF Return
<1>3. out'[c] = answer
  BY <1>2
<1>4. \A d \in Callers \ {c} : out'[d] = None
  BY <1>2
<1>5. of' = [d \in Callers |-> IF d \in {c} THEN 0 ELSE of[d]]
  BY DEF Return, TypeOK
<1>6. since' = [d \in Callers |-> IF d \in {c} THEN 0 ELSE since[d]]
  BY DEF Return, TypeOK
<1>7. out' = [d \in Callers |-> out'[d]]
  BY <1>2
<1> QED BY <1>1, <1>3, <1>4, <1>5, <1>6, <1>7 DEF Source!Answer, Source!Tokens, Tokens

LEMMA RefineLand ==
    ASSUME Inv, NEW m \in Modes, Land(m)
    PROVE  Source!Answer(Waiting(m))
<1> DEFINE result == IF flight[m].at = "failed" THEN Error ELSE flight[m].token
<1>1. out' = [c \in Callers |-> IF c \in Waiting(m) THEN result ELSE None]
  BY DEF Land
<1>2. ASSUME NEW c \in Waiting(m)
      PROVE  /\ of[c] # 0
             /\ out'[c] = Error \/ (out'[c] \in Tokens /\ Source!Honest(out'[c], c))
  <2>1. c \in Callers /\ of[c] = m /\ out'[c] = result
    BY <1>1 DEF Waiting, Manager
  <2>2. CASE flight[m].at = "failed"
    BY <2>1, <2>2
  <2>3. CASE flight[m].at = "stored"
    <3>1. /\ flight[m].token \in Tokens
          /\ flight[m].token.mode = m
          /\ now <= flight[m].token.got + MaxDelay
      BY <2>3 DEF Inv, TypeOK, FetchInv
    <3>2. since[c] <= flight[m].token.got + MaxDelay
      BY <2>1, <3>1 DEF Inv, SinceInv, TypeOK, Tokens
    <3> QED BY <2>1, <2>3, <3>1, <3>2 DEF Source!Honest
  <2> QED BY <2>1, <2>2, <2>3 DEF Land
<1>3. \A c \in Callers \ Waiting(m) : out'[c] = None
  BY <1>1
<1>4. out' = [c \in Callers |-> out'[c]]
  BY <1>1
<1>5. UNCHANGED <<now, mode>>
      /\ of' = [c \in Callers |-> IF c \in Waiting(m) THEN 0 ELSE of[c]]
      /\ since' = [c \in Callers |-> IF c \in Waiting(m) THEN 0 ELSE since[c]]
  BY DEF Land
<1> QED BY <1>2, <1>3, <1>4, <1>5 DEF Source!Answer, Source!Tokens, Tokens

LEMMA RefineNext == Inv /\ Inv' /\ [Next]_vars => [Source!Next]_Source!vars
<1> SUFFICES ASSUME Inv, [Next]_vars PROVE Source!Next \/ UNCHANGED Source!vars
  BY DEF Source!vars
<1> USE DEF callVars
<1>0. {} \in SUBSET Callers
  OBVIOUS
<1>t. TypeOK
  BY DEF Inv
<1>1. ASSUME NEW c \in Callers, NEW x \in Contexts, GetToken(c, x) PROVE Source!Ask(c)
  BY <1>t, <1>1 DEF GetToken, Silent, Source!Ask, Source!Silent, TypeOK
<1>2. ASSUME NEW c \in Callers, NoStrategy(c) \/ Cancel(c) PROVE Source!Answer({c})
  BY <1>t, <1>2, RefineReturn DEF NoStrategy, Cancel
<1>3. ASSUME NEW c \in Callers, PatFlow(c) PROVE Source!Answer({c})
  <2> DEFINE t == [mode |-> of[c], got |-> now, expires |-> now + FarFuture]
  <2>1. of[c] \in Modes /\ now \in Nat /\ since[c] \in Nat /\ since[c] <= now
    BY <1>t, <1>3 DEF PatFlow, TypeOK, Inv, SinceInv
  <2>2. t \in Tokens
    BY <2>1 DEF Tokens
  <2>3. since[c] <= t.got + MaxDelay
    BY <2>1
  <2>4. Source!Honest(t, c)
    BY <2>3 DEF Source!Honest
  <2>5. pc[c] # "idle" /\ Return(c, t) /\ UNCHANGED <<now, mode>>
    BY <1>3 DEF PatFlow
  <2> HIDE DEF t
  <2> QED BY <1>t, <2>2, <2>4, <2>5, RefineReturn
<1>4. ASSUME NEW c \in Callers, CachedFlow(c)
      PROVE  Source!Answer({c}) \/ Source!Answer({})
  <2>1. of[c] \in Modes /\ pc[c] # "idle" /\ UNCHANGED <<now, mode>>
    BY <1>t, <1>4 DEF CachedFlow, TypeOK
  <2>2. CASE Has(of[c]) /\ Return(c, store[of[c]].token)
    <3> DEFINE t == store[of[c]].token
    <3>1. t \in Tokens /\ t.mode = of[c]
      BY <1>t, <2>1, <2>2 DEF Has, TypeOK, Entries, Inv, StoreHonest
    <3>2. store[of[c]].forever \in BOOLEAN /\ store[of[c]].expiresAt \in Int /\ now \in Nat
      BY <1>t, <2>1 DEF TypeOK, Entries
    <3>3. CASE store[of[c]].forever
      <4>1. t.expires = t.got
        BY <2>1, <2>2, <3>3 DEF Has, Inv, StoreHonest
      <4> QED BY <1>t, <2>1, <2>2, <3>1, <4>1, RefineReturn DEF Source!Honest
    <3>4. CASE ~store[of[c]].forever
      <4>1. now <= store[of[c]].expiresAt - Buffer
        BY <2>2, <3>4 DEF Has
      <4>2. store[of[c]].expiresAt <= t.expires + MaxDelay
        BY <2>1, <2>2, <3>4 DEF Has, Inv, StoreHonest
      <4>3. t.expires \in Int
        BY <3>1 DEF Tokens
      <4>4. now < t.expires
        BY <3>2, <4>1, <4>2, <4>3
      <4> QED BY <1>t, <2>1, <2>2, <3>1, <4>4, RefineReturn DEF Source!Honest
    <3> QED BY <3>3, <3>4
  <2>3. CASE Goto(c, "join")
    <3>1. Silent /\ UNCHANGED <<now, mode, of, since>>
      BY <2>1, <2>3 DEF Goto
    <3> QED BY <1>t, <3>1, RefineQuiet
  <2> QED BY <1>4, <2>2, <2>3 DEF CachedFlow, Manager
<1>5. ASSUME NEW c \in Callers, Join(c) PROVE Source!Answer({})
  <2>1. Silent /\ UNCHANGED <<now, mode, of, since>>
    BY <1>5 DEF Join, Goto
  <2> QED BY <1>t, <2>1, RefineQuiet
<1>6. ASSUME NEW m \in Modes, Reply(m) \/ Fail(m) \/ Set(m) PROVE Source!Answer({})
  <2>1. Silent /\ UNCHANGED <<now, mode, of, since>>
    BY <1>6 DEF Reply, Fail, Set
  <2> QED BY <1>t, <2>1, RefineQuiet
<1>7. ASSUME NEW m \in Modes, Land(m) PROVE Waiting(m) \in SUBSET Callers /\ Source!Answer(Waiting(m))
  BY <1>7, RefineLand DEF Waiting
<1>8. ASSUME NEW setting \in Settings, Activate(setting) PROVE Source!Switch
  BY <1>t, <1>8 DEF Activate, Silent, Source!Switch, Source!Silent, TypeOK
<1>9. CASE Tick
  BY <1>9 DEF Tick, Silent, Source!Tick, Source!Silent, Source!Next
<1>10. CASE UNCHANGED vars
  BY <1>10 DEF vars, Source!vars
<1> QED BY <1>0, <1>1, <1>2, <1>3, <1>4, <1>5, <1>6, <1>7, <1>8, <1>9, <1>10
        DEF Next, Step, Fetch, Source!Next

(* Nobody gets a token of another activation's credential, nor an expired  *)
(* one from the store: GetToken in server mode implements TokenSource.     *)
THEOREM PromiseKept == Spec => Promise
<1> QED BY RefineInit, RefineNext, Invariance, PTL DEF Spec, Promise, Source!Spec
=============================================================================
