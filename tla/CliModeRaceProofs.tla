------------------------- MODULE CliModeRaceProofs -------------------------
(***************************************************************************)
(* What calls of CliMode that interleave, fail and die in any way keep of  *)
(* the tokens they share, proved for every set of callers, sessions and    *)
(* personal access tokens and every bound.                                 *)
(***************************************************************************)
EXTENDS CliModeProofs

-----------------------------------------------------------------------------
(***************************************************************************)
(* Personal access tokens and logins.                                      *)
(***************************************************************************)

\* The entry of the PATs holds a PAT; the entry and the secret of the logins
\* do not.
EntriesApart ==
    /\ cache["pat"] # None => cache["pat"].token.owner \in Pats
    /\ cache["host"] # None => cache["host"].token.owner \notin Pats
    /\ access # None => access.owner \notin Pats

\* No call is about to store a PAT as the token of a login.
HeldApart(c) == pc[c] \in WithAccess => reg[c].access.owner \notin Pats

\* An answer that has a PAT just when its process has one.
ApartAnswer(a) == a.kind = "token" => (a.entry.token.owner \in Pats <=> a.pat # None)

CallApart(c) == HeldApart(c) /\ ApartAnswer(out[c])

\* The inductive invariant: PatsApart, and what makes a step keep it.
ApartInv == EntriesApart /\ \A c \in Callers : CallApart(c)

\* What holds after the step of c.
CallApartAfter(c) == CallApart(c)'
StepApart(c)      == EntriesApart' /\ CallApartAfter(c)

\* A step of c is a step of no other call.
Only(c) == \A d \in Callers \ {c} : /\ pc'[d] = pc[d] /\ reg'[d] = reg[d]
                                    /\ out'[d] = out[d]

\* A call returns, and a call moves on.
LEMMA ApartEnd ==
    ASSUME TypeOK, NEW c \in Callers, NEW a, Return(c, a), ApartAnswer(a)
    PROVE  CallApartAfter(c)
  BY DEF TypeOK, Return, CallApartAfter, CallApart, HeldApart, WithAccess, Storing

LEMMA ApartMove ==
    ASSUME TypeOK, NEW c \in Callers, CallApart(c), NEW l, Goto(c, l) \/ Begin(c, l),
           l \in WithAccess => reg'[c].access.owner \notin Pats
    PROVE  CallApartAfter(c)
  BY DEF TypeOK, Goto, Begin, Nothing, CallApartAfter, CallApart, HeldApart, ApartAnswer

LEMMA ApartAnswers ==
    /\ ApartAnswer(Nothing) /\ ApartAnswer(Done) /\ ApartAnswer(Error)
    /\ \A a, x, u : ApartAnswer(StatusAnswer(a, x, u))
    /\ \A e, p : (e.token.owner \in Pats <=> p # None) => ApartAnswer(TokenAnswer(e, p))
  BY DEF ApartAnswer, Nothing, Done, Error, StatusAnswer, TokenAnswer

\* A step that writes neither the cache nor the access token.
LEMMA EntriesKept ==
    ASSUME EntriesApart, UNCHANGED <<access, cache>>
    PROVE  EntriesApart'
  BY DEF EntriesApart

\* Calls begin.
LEMMA ApartCall ==
    ASSUME TypeOK, EntriesApart, NEW c \in Callers, CallApart(c), Call(c)
    PROVE  StepApart(c)
<1>1. UNCHANGED <<access, cache>> /\ reg[c] \in Registers
  BY DEF TypeOK, Call, GetToken, Login, GetStatus, AppLogin, Logout, PurgeExpiredTokens,
         ListCachedTokens, Start, secrets
<1>2. EntriesApart'
  BY <1>1, EntriesKept
<1>3. ASSUME NEW l \in {"cacheGet", "loadAccess", "patCacheGet", "patValidate", "hasRefresh",
                      "patStatus", "listClear", "listPurge", "listRefresh"},
             Begin(c, l)
      PROVE  CallApartAfter(c)
  BY <1>3, ApartMove DEF WithAccess, Storing
<1>4. ASSUME NEW s \in Sessions, NEW expiring \in BOOLEAN, Login(c, s, expiring)
      PROVE  CallApartAfter(c)
  <2>1. reg'[c].access.owner = s
    BY <1>1, <1>4 DEF Login, TypeOK, Registers, NewAccess
  <2> QED
    BY <1>4, <2>1, ApartMove, OwnerFacts DEF Login
<1>5. ASSUME NEW pat, NEW force, GetToken(c, pat, force) PROVE CallApartAfter(c)
  BY <1>3, <1>5 DEF GetToken, Start
<1>6. ASSUME NEW pat, GetStatus(c, pat) PROVE CallApartAfter(c)
  BY <1>3, <1>6 DEF GetStatus, Start
<1>7. CASE AppLogin(c)
  <2>1. reg'[c].access.owner = App
    BY <1>1, <1>7 DEF AppLogin, TypeOK, Registers, NewAccess
  <2> QED
    BY <1>2, <1>7, <2>1, ApartMove, OwnerFacts DEF AppLogin, Start, StepApart
<1>8. ASSUME Logout(c) \/ PurgeExpiredTokens(c) \/ ListCachedTokens(c)
      PROVE  CallApartAfter(c)
  BY <1>3, <1>8 DEF Logout, PurgeExpiredTokens, ListCachedTokens, Start
<1> QED
  BY <1>2, <1>4, <1>5, <1>6, <1>7, <1>8 DEF Call, StepApart

\* GetToken and getPATToken.
LEMMA ApartGetToken ==
    ASSUME TypeOK, EntriesApart, NEW c \in Callers, CallApart(c),
           \/ CacheGet(c) \/ LoadAccess(c) \/ CacheAccess(c) \/ LoadRefresh(c) \/ LoadMeta(c)
           \/ RotateMeta(c) \/ Post(c) \/ CacheMinted(c)
           \/ PatCacheGet(c) \/ PatValidate(c) \/ PatCache(c)
    PROVE  StepApart(c)
<1> USE DEF At
<1>1. reg[c] \in Registers /\ HeldApart(c)
  BY DEF TypeOK, CallApart
<1>2. /\ \A l : (Goto(c, l) \/ Begin(c, l)) /\ l \notin WithAccess => CallApartAfter(c)
      /\ Return(c, Error) => CallApartAfter(c)
  BY ApartMove, ApartEnd, ApartAnswers
<1>3. CASE \/ CacheGet(c) \/ LoadAccess(c) \/ LoadRefresh(c) \/ LoadMeta(c)
           \/ RotateMeta(c) \/ Post(c) \/ PatCacheGet(c) \/ PatValidate(c)
  <2>1. EntriesApart'
    BY <1>3, EntriesKept
    DEF CacheGet, LoadAccess, LoadRefresh, LoadMeta, RotateMeta, Post, PatCacheGet,
        PatValidate, secrets
  <2>2. CASE CacheGet(c)
    <3>1. cache["host"] # None /\ Return(c, TokenAnswer(cache["host"], None))
            => CallApartAfter(c)
      BY ApartEnd, ApartAnswers DEF EntriesApart
    <3> QED
      BY <1>2, <2>1, <2>2, <3>1 DEF CacheGet, WithAccess, Storing, StepApart
  <2>3. CASE LoadAccess(c)
    <3>1. ASSUME access # None, reg' = [reg EXCEPT ![c].access = access],
                 Goto(c, "cacheAccess")
          PROVE  CallApartAfter(c)
      <4>1. reg'[c].access = access
        BY <1>1, <3>1 DEF TypeOK, Registers
      <4> QED
        BY <3>1, <4>1, ApartMove DEF EntriesApart
    <3> QED
      BY <1>2, <2>1, <2>3, <3>1 DEF LoadAccess, WithAccess, Storing, StepApart
  <2>4. CASE LoadRefresh(c) \/ LoadMeta(c) \/ RotateMeta(c) \/ PatValidate(c)
    BY <1>2, <2>1, <2>4
    DEF LoadRefresh, LoadMeta, RotateMeta, PatValidate, WithAccess, Storing, StepApart
  <2>5. CASE Post(c)
    <3>1. reg[c].refresh.owner \notin Pats
      BY <2>5, OwnerFacts DEF Post, TypeOK, Defined, Holding, RefreshTokens
    <3>2. Return(c, Error) \/ reg'[c].access = NewAccess(reg[c].refresh.owner)
      BY <1>1, <2>5 DEF Post, TypeOK, Registers
    <3>3. \/ Return(c, Error)
          \/ Goto(c, "cacheMinted") \/ Goto(c, "putRefresh")
      BY <2>5 DEF Post
    <3>4. NewAccess(reg[c].refresh.owner).owner = reg[c].refresh.owner
      BY DEF NewAccess
    <3> QED
      BY <1>2, <2>1, <3>1, <3>2, <3>3, <3>4, ApartMove DEF StepApart
  <2>6. CASE PatCacheGet(c)
    <3>1. reg[c].pat # None
      BY <2>6, OwnerFacts DEF PatCacheGet, TypeOK, Defined, WithPat
    <3>2. cache["pat"] # None /\ Return(c, TokenAnswer(cache["pat"], reg[c].pat))
            => CallApartAfter(c)
      BY <3>1, ApartEnd, ApartAnswers DEF EntriesApart
    <3> QED
      BY <1>2, <2>1, <2>6, <3>2 DEF PatCacheGet, WithAccess, Storing, StepApart
  <2> QED
    BY <1>3, <2>2, <2>3, <2>4, <2>5, <2>6
<1>4. ASSUME NEW k \in {"host", "pat"}, NEW e, NEW p,
             cache' = [cache EXCEPT ![k] = e] \/ UNCHANGED cache, UNCHANGED access,
             Return(c, TokenAnswer(e, p)),
             k = "pat" => e.token.owner \in Pats /\ p # None,
             k = "host" => e.token.owner \notin Pats /\ p = None
      PROVE  StepApart(c)
  <2>1. cache'[k] \in {e, cache[k]} /\ \A i \in CacheKeys \ {k} : cache'[i] = cache[i]
    BY <1>4 DEF TypeOK, CacheKeys
  <2>2. EntriesApart'
    BY <1>4, <2>1 DEF EntriesApart, CacheKeys
  <2>3. CallApartAfter(c)
    BY <1>4, ApartEnd, ApartAnswers
  <2> QED
    BY <2>2, <2>3 DEF StepApart
<1>5. CASE CacheAccess(c)
  <2> DEFINE e == StoredEntry(reg[c].access)
  <2>1. /\ cache' = [cache EXCEPT !["host"] = e] \/ UNCHANGED cache
        /\ UNCHANGED access /\ Return(c, TokenAnswer(e, None))
    BY <1>5 DEF CacheAccess
  <2>2. e.token.owner \notin Pats
    BY <1>1, <1>5 DEF CacheAccess, StoredEntry, HeldApart, WithAccess
  <2> HIDE DEF e
  <2> QED
    BY <1>4, <2>1, <2>2
<1>6. CASE CacheMinted(c)
  <2> DEFINE e == [ token |-> reg[c].access, expiresAt |-> now + AccessLife,
                    label |-> IF reg[c].meta = None THEN None ELSE reg[c].meta.label ]
  <2>1. /\ cache' = [cache EXCEPT !["host"] = e] \/ UNCHANGED cache
        /\ UNCHANGED access /\ Return(c, TokenAnswer(e, None))
    BY <1>6 DEF CacheMinted
  <2>2. e.token.owner \notin Pats
    BY <1>1, <1>6 DEF CacheMinted, HeldApart, WithAccess
  <2> HIDE DEF e
  <2> QED
    BY <1>4, <2>1, <2>2
<1>7. CASE PatCache(c)
  <2> DEFINE e == StoredEntry([owner |-> reg[c].pat, exp |-> Far])
  <2>1. /\ cache' = [cache EXCEPT !["pat"] = e] \/ UNCHANGED cache
        /\ UNCHANGED access /\ Return(c, TokenAnswer(e, reg[c].pat))
    BY <1>7 DEF PatCache
  <2>2. e.token.owner \in Pats /\ reg[c].pat # None
    BY <1>7, OwnerFacts DEF PatCache, StoredEntry, TypeOK, Defined, WithPat
  <2> HIDE DEF e
  <2> QED
    BY <1>4, <2>1, <2>2
<1> QED
  BY <1>3, <1>5, <1>6, <1>7

\* storeCredentials and appLogin.
LEMMA ApartStore ==
    ASSUME TypeOK, EntriesApart, NEW c \in Callers, CallApart(c),
           \/ PutRefresh(c) \/ PutAccess(c) \/ PutMeta(c) \/ PutCache(c)
           \/ AppCache(c) \/ AppAccess(c) \/ AppMeta(c)
    PROVE  StepApart(c)
<1> USE DEF At
<1>1. reg[c].access.owner \notin Pats
  BY DEF CallApart, HeldApart, WithAccess, Storing, PutRefresh, PutAccess, PutMeta, PutCache,
         AppCache, AppAccess, AppMeta
<1>2. CallApartAfter(c)
  <2>1. \/ Return(c, Error) \/ Return(c, Done)
        \/ UNCHANGED reg /\ \E l : Goto(c, l)
    BY DEF PutRefresh, PutAccess, PutMeta, PutCache, StoreFailed, AppCache, AppAccess, AppMeta
  <2> QED
    BY <1>1, <2>1, ApartEnd, ApartMove, ApartAnswers
<1>3. ASSUME NEW k \in {"host", "app"}, NEW e, e.token = reg[c].access,
             cache' = [cache EXCEPT ![k] = e] \/ UNCHANGED cache, UNCHANGED access
      PROVE  EntriesApart'
  <2>1. cache'[k] \in {e, cache[k]} /\ \A i \in CacheKeys \ {k} : cache'[i] = cache[i]
    BY <1>3 DEF TypeOK, CacheKeys
  <2> QED
    BY <1>1, <1>3, <2>1 DEF EntriesApart, CacheKeys
<1>4. CASE PutRefresh(c) \/ PutAccess(c) \/ PutMeta(c) \/ AppAccess(c) \/ AppMeta(c)
  <2>1. UNCHANGED cache /\ access' \in {access, reg[c].access}
    BY <1>4 DEF PutRefresh, PutAccess, PutMeta, AppAccess, AppMeta
  <2> QED
    BY <1>1, <1>2, <2>1 DEF EntriesApart, StepApart
<1>5. CASE PutCache(c)
  <2> DEFINE e == [ token |-> reg[c].access, label |-> SessionID(c),
                    expiresAt |-> IF reg[c].refresh = None THEN Far ELSE now + AccessLife ]
  <2>1. /\ cache' = [cache EXCEPT !["host"] = e] \/ UNCHANGED cache
        /\ UNCHANGED access
    BY <1>5 DEF PutCache
  <2>2. e.token = reg[c].access
    OBVIOUS
  <2> HIDE DEF e
  <2> QED
    BY <1>2, <1>3, <2>1, <2>2 DEF StepApart
<1>6. CASE AppCache(c)
  <2> DEFINE e == [token |-> reg[c].access, expiresAt |-> reg[c].access.exp, label |-> None]
  <2>1. /\ cache' = [cache EXCEPT !["app"] = e] \/ UNCHANGED cache
        /\ UNCHANGED access
    BY <1>6 DEF AppCache
  <2>2. e.token = reg[c].access
    OBVIOUS
  <2> HIDE DEF e
  <2> QED
    BY <1>2, <1>3, <2>1, <2>2 DEF StepApart
<1> QED
  BY <1>4, <1>5, <1>6

\* Logout, PurgeExpiredTokens, GetStatus, and calls that end early.
LEMMA ApartRest ==
    ASSUME TypeOK, EntriesApart, NEW c \in Callers, CallApart(c),
           \/ ListClear(c) \/ Clear(c) \/ DelRefresh(c) \/ DelAccess(c) \/ DelMeta(c)
           \/ ListPurge(c) \/ PurgeGet(c) \/ PurgeDelete(c)
           \/ PatStatus(c) \/ HasRefresh(c) \/ HasAccess(c) \/ StatusMeta(c)
           \/ Crash(c)
    PROVE  StepApart(c)
<1> USE DEF At
<1>1. /\ access' \in {None, access}
      /\ \A k \in CacheKeys : cache'[k] \in {None, cache[k]}
  <2>1. CASE UNCHANGED cache
    BY <2>1
    DEF ListClear, Clear, DelRefresh, DelAccess, DelMeta, ListPurge, PurgeGet, PurgeDelete,
        PatStatus, HasRefresh, HasAccess, StatusMeta, Crash, secrets
  <2>2. CASE Clear(c) \/ PurgeDelete(c)
    BY <2>2 DEF Clear, PurgeDelete, TypeOK
  <2> QED
    BY <2>1, <2>2
    DEF ListClear, DelRefresh, DelAccess, DelMeta, ListPurge, PurgeGet,
        PatStatus, HasRefresh, HasAccess, StatusMeta, Crash, secrets
<1>2. EntriesApart'
  BY <1>1 DEF EntriesApart, CacheKeys
<1>3. ASSUME NEW l \in {"clear", "delRefresh", "delAccess", "delMeta", "purgeGet", "purgeDelete",
                       "hasAccess", "statusMeta"},
             Goto(c, l)
      PROVE  CallApartAfter(c)
  BY <1>3, ApartMove DEF WithAccess, Storing
<1>4. ASSUME NEW a, Return(c, a), a \in {Nothing, Done, Error} \/ a.kind = "status"
      PROVE  CallApartAfter(c)
  BY <1>4, ApartEnd, ApartAnswers DEF ApartAnswer
<1>5. CASE ListClear(c) \/ DelRefresh(c) \/ DelAccess(c) \/ DelMeta(c) \/ ListPurge(c)
           \/ PurgeDelete(c) \/ HasRefresh(c) \/ Crash(c)
  BY <1>2, <1>3, <1>4, <1>5
  DEF ListClear, DelRefresh, DelAccess, DelMeta, ListPurge, PurgeDelete, HasRefresh, Crash,
      StepApart
<1>6. CASE Clear(c) \/ PurgeGet(c)
  <2>1. pc[c] \in {"clear", "purgeGet"}
    BY <1>6 DEF Clear, PurgeGet
  <2>2. UNCHANGED <<pc, out>> => CallApartAfter(c)
    BY <2>1 DEF CallApartAfter, CallApart, HeldApart, WithAccess, Storing
  <2> QED
    BY <1>2, <1>3, <1>4, <1>6, <2>2 DEF Clear, PurgeGet, StepApart
<1>7. CASE PatStatus(c) \/ HasAccess(c) \/ StatusMeta(c)
  <2>1. \A a, x, u : StatusAnswer(a, x, u).kind = "status"
    BY DEF StatusAnswer
  <2>2. \/ Goto(c, "statusMeta")
        \/ \E a, x, u : Return(c, StatusAnswer(a, x, u))
    BY <1>7 DEF PatStatus, HasAccess, StatusMeta, Unauthenticated
  <2> QED
    BY <1>2, <1>3, <1>4, <2>1, <2>2 DEF StepApart
<1> QED
  BY <1>5, <1>6, <1>7

\* ListCachedTokens, which holds the stored access token for a step.
LEMMA ApartListing ==
    ASSUME TypeOK, EntriesApart, NEW c \in Callers, CallApart(c),
           ListRefresh(c) \/ ListKeys(c) \/ ListEntry(c) \/ ListAccess(c) \/ ListDirect(c)
    PROVE  StepApart(c)
<1> USE DEF At
<1>1. UNCHANGED <<access, cache>> /\ reg[c] \in Registers
  BY DEF TypeOK, ListRefresh, ListKeys, ListEntry, ListAccess, ListDirect, secrets
<1>2. EntriesApart'
  BY <1>1, EntriesKept
<1>3. ASSUME NEW l \in {"listKeys", "listEntry", "listAccess"}, Goto(c, l)
      PROVE  CallApartAfter(c)
  BY <1>3, ApartMove DEF WithAccess, Storing
<1>4. ASSUME NEW i, Return(c, ListAnswer(i)) PROVE CallApartAfter(c)
  <2>1. ListAnswer(i).kind = "list"
    BY DEF ListAnswer
  <2> QED
    BY <1>4, <2>1, ApartEnd DEF ApartAnswer
<1>5. CASE ListRefresh(c) \/ ListKeys(c)
  BY <1>2, <1>3, <1>5 DEF ListRefresh, ListKeys, StepApart
<1>6. CASE ListEntry(c)
  <2>1. pc[c] = "listEntry"
    BY <1>6 DEF ListEntry
  <2>2. UNCHANGED <<pc, out>> => CallApartAfter(c)
    BY <2>1 DEF CallApartAfter, CallApart, HeldApart, WithAccess, Storing
  <2> QED
    BY <1>2, <1>3, <1>6, <2>2 DEF ListEntry, StepApart
<1>7. CASE ListAccess(c)
  <2>1. CASE /\ access # None /\ Goto(c, "listDirect")
             /\ reg' = [reg EXCEPT ![c].access = access]
    <3>1. reg'[c].access = access
      BY <1>1, <2>1 DEF TypeOK, Registers
    <3> QED
      BY <1>2, <2>1, <3>1, ApartMove DEF EntriesApart, StepApart
  <2> QED
    BY <1>2, <1>4, <1>7, <2>1 DEF ListAccess, StepApart
<1>8. CASE ListDirect(c)
  BY <1>2, <1>4, <1>8 DEF ListDirect, StepApart
<1> QED
  BY <1>5, <1>6, <1>7, <1>8

\* The other calls.
LEMMA OnlyOne ==
    ASSUME TypeOK, NEW c \in Callers, Call(c) \/ Step(c) \/ Crash(c)
    PROVE  Only(c)
<1>1. /\ \A l : Begin(c, l) => \A d \in Callers \ {c} : pc'[d] = pc[d] /\ out'[d] = out[d]
      /\ \A l : Goto(c, l) => \A d \in Callers \ {c} : pc'[d] = pc[d] /\ out'[d] = out[d]
      /\ \A a : Return(c, a) => Only(c)
  BY DEF TypeOK, Begin, Goto, Return, Only
<1> USE DEF Only
<1>2. CASE Crash(c)
  BY <1>1, <1>2 DEF Crash
<1>3. CASE Call(c)
  BY <1>1, <1>3
  DEF Call, GetToken, Login, GetStatus, AppLogin, Logout, PurgeExpiredTokens,
      ListCachedTokens, Start, TypeOK
<1>4. CASE CacheGet(c) \/ LoadAccess(c) \/ CacheAccess(c) \/ LoadRefresh(c) \/ LoadMeta(c)
           \/ RotateMeta(c) \/ CacheMinted(c)
  BY <1>1, <1>4
  DEF CacheGet, LoadAccess, CacheAccess, LoadRefresh, LoadMeta, RotateMeta, CacheMinted, TypeOK
<1>5. CASE Post(c)
  BY <1>1, <1>5 DEF Post, TypeOK
<1>6. CASE PutRefresh(c) \/ PutAccess(c) \/ PutMeta(c) \/ PutCache(c)
           \/ AppCache(c) \/ AppAccess(c) \/ AppMeta(c)
  BY <1>1, <1>6
  DEF PutRefresh, PutAccess, PutMeta, PutCache, StoreFailed, AppCache, AppAccess, AppMeta
<1>7. CASE PatCacheGet(c) \/ PatValidate(c) \/ PatCache(c) \/ PatStatus(c)
           \/ HasRefresh(c) \/ HasAccess(c) \/ StatusMeta(c)
  BY <1>1, <1>7
  DEF PatCacheGet, PatValidate, PatCache, PatStatus, HasRefresh, HasAccess, StatusMeta, TypeOK
<1>8. CASE ListClear(c) \/ Clear(c) \/ DelRefresh(c) \/ DelAccess(c) \/ DelMeta(c)
           \/ ListPurge(c) \/ PurgeGet(c) \/ PurgeDelete(c)
  BY <1>1, <1>8
  DEF ListClear, Clear, DelRefresh, DelAccess, DelMeta, ListPurge, PurgeGet, PurgeDelete, TypeOK
<1>9. CASE ListRefresh(c) \/ ListKeys(c) \/ ListEntry(c) \/ ListAccess(c) \/ ListDirect(c)
  BY <1>1, <1>9 DEF ListRefresh, ListKeys, ListEntry, ListAccess, ListDirect, TypeOK
<1> QED
  BY <1>2, <1>3, <1>4, <1>5, <1>6, <1>7, <1>8, <1>9 DEF Step

LEMMA ApartInit == Init => ApartInv
  BY ApartAnswers
  DEF Init, ApartInv, EntriesApart, CallApart, HeldApart, WithAccess, Storing, CacheKeys

LEMMA ApartNext == TypeOK /\ ApartInv /\ [Next]_vars => ApartInv'
<1> SUFFICES ASSUME TypeOK, ApartInv, [Next]_vars
             PROVE  EntriesApart' /\ \A c \in Callers : CallApartAfter(c)
  BY DEF ApartInv, CallApartAfter
<1>1. CASE Tick \/ UNCHANGED vars
  BY <1>1
  DEF Tick, vars, secrets, ApartInv, EntriesApart, CallApartAfter, CallApart, HeldApart
<1>2. ASSUME NEW c \in Callers, Call(c) \/ Step(c) \/ Crash(c)
      PROVE  EntriesApart' /\ \A d \in Callers : CallApartAfter(d)
  <2>1. EntriesApart /\ CallApart(c)
    BY DEF ApartInv
  <2>2. StepApart(c)
    BY <1>2, <2>1, ApartCall, ApartGetToken, ApartStore, ApartListing, ApartRest DEF Step
  <2>3. ASSUME NEW d \in Callers \ {c} PROVE CallApartAfter(d)
    BY <1>2, OnlyOne DEF ApartInv, Only, CallApartAfter, CallApart, HeldApart
  <2> QED
    BY <2>2, <2>3 DEF StepApart
<1> QED
  BY <1>1, <1>2 DEF Next

\* A call whose process has no PAT never answers with a PAT, and one that has a
\* PAT never with a token of a login, however calls interleave, fail and die.
THEOREM PatsApartCorrect == Spec => []PatsApart
<1>1. TypeOK /\ ApartInv /\ [Next]_vars => ApartInv'
  BY ApartNext
<1>2. ApartInv => PatsApart
  BY DEF ApartInv, CallApart, ApartAnswer, PatsApart
<1> QED
  BY <1>1, <1>2, ApartInit, TypeCorrect, PTL DEF Spec

-----------------------------------------------------------------------------
(***************************************************************************)
(* Rotation without logouts and without faults.                            *)
(***************************************************************************)

\* Credentials that nobody deletes: a mint that has found metadata finds it
\* again, so that GitHub's new refresh token is always stored.
RotatesWithMetadata(c) ==
    /\ pc[c] \notin {"listClear", "clear", "delRefresh", "delAccess", "delMeta"}
    /\ pc[c] = "rotateMeta" => metadata # None
    /\ pc[c] = "post" => reg[c].meta # None

\* The inductive invariant of the promise.
SuccessorInv == Unfailing => /\ \A c \in Callers : RotatesWithMetadata(c)
                             /\ SuccessorOnItsWay

RotatesAfter(c)  == RotatesWithMetadata(c)'
SuccessorAfter   == SuccessorOnItsWay'

\* What moves no token between GitHub and the store keeps the promise.
LEMMA SuccessorKept ==
    ASSUME Unfailing, SuccessorOnItsWay, NEW c \in Callers, Only(c), pc[c] # "putRefresh",
           UNCHANGED <<refresh, live>>
    PROVE  SuccessorAfter
  BY DEF SuccessorAfter, SuccessorOnItsWay, DeadRefresh, Unfailing, Only, At

\* Metadata stays.
LEMMA MetadataStays ==
    ASSUME TypeOK, NEW c \in Callers, ~Fault, RotatesWithMetadata(c),
           Call(c) \/ Step(c) \/ Crash(c)
    PROVE  metadata # None => metadata' # None
<1> USE DEF At
<1>1. CASE PutMeta(c)
  <2> DEFINE m == [ user |-> reg[c].access.owner, label |-> SessionID(c), client |-> TRUE,
                    rexp |-> IF reg[c].refresh = None THEN Far ELSE now + RefreshLife ]
  <2>1. metadata' = m
    BY <1>1 DEF PutMeta, StoreFailed
  <2>2. m \in MetadataRecords
    <3>1. reg[c].access \in AccessTokens /\ reg[c].meta \in Opt(MetadataRecords)
      BY <1>1 DEF PutMeta, TypeOK, Defined, WithAccess, Storing, Registers
    <3>2. reg[c].access.owner \in Opt(Owners) /\ SessionID(c) \in Opt(Owners)
      BY <3>1, MetadataFields DEF AccessTokens, Opt, SessionID
    <3> QED
      BY <3>2, TimeTypes DEF MetadataRecords
  <2> HIDE DEF m
  <2> QED
    BY <2>1, <2>2, AbsentAssumption
<1>2. CASE AppMeta(c)
  <2>1. metadata' = [user |-> App, label |-> None, client |-> FALSE, rexp |-> Far]
    BY <1>2 DEF AppMeta
  <2>2. [user |-> App, label |-> None, client |-> FALSE, rexp |-> Far] \in MetadataRecords
    BY TimeTypes DEF MetadataRecords, Opt, Owners
  <2> QED
    BY <2>1, <2>2, AbsentAssumption
<1>3. CASE DelMeta(c)
  BY <1>3 DEF DelMeta, RotatesWithMetadata
<1>4. CASE ~PutMeta(c) /\ ~AppMeta(c) /\ ~DelMeta(c)
  <2>1. CASE Call(c) \/ Crash(c)
    BY <2>1
    DEF Call, GetToken, Login, GetStatus, AppLogin, Logout, PurgeExpiredTokens,
        ListCachedTokens, Start, Crash, secrets
  <2>2. CASE Step(c)
    BY <1>4, <2>2
    DEF Step, CacheGet, LoadAccess, CacheAccess, LoadRefresh, LoadMeta, RotateMeta, Post,
        CacheMinted, PutRefresh, PutAccess, PutCache, AppCache, AppAccess, PatCacheGet,
        PatValidate, PatCache, ListClear, Clear, DelRefresh, DelAccess, ListPurge, PurgeGet,
        PurgeDelete, PatStatus, HasRefresh, HasAccess, StatusMeta,
        ListRefresh, ListKeys, ListEntry, ListAccess, ListDirect, secrets
  <2> QED
    BY <2>1, <2>2
<1> QED
  BY <1>1, <1>2, <1>3, <1>4

\* The call itself.
LEMMA RotatesStep ==
    ASSUME "Logout" \notin Ops, TypeOK, NEW c \in Callers, ~Fault, RotatesWithMetadata(c),
           Call(c) \/ Step(c) \/ Crash(c)
    PROVE  RotatesAfter(c)
<1> USE DEF At
<1>1. /\ \A l : Begin(c, l) => pc'[c] = l
      /\ \A l : Goto(c, l) => pc'[c] = l
      /\ \A a : Return(c, a) => pc'[c] = "idle"
      /\ reg[c] \in Registers
  BY DEF TypeOK, Begin, Goto, Return
<1>2. ASSUME pc'[c] \notin {"listClear", "clear", "delRefresh", "delAccess", "delMeta",
                            "rotateMeta", "post"}
      PROVE  RotatesAfter(c)
  BY <1>2 DEF RotatesAfter, RotatesWithMetadata
<1>3. CASE Call(c)
  BY <1>1, <1>2, <1>3
  DEF Call, GetToken, Login, GetStatus, AppLogin, Logout, PurgeExpiredTokens,
      ListCachedTokens, Start
<1>4. CASE Crash(c)
  BY <1>4 DEF Crash
<1>5. CASE CacheGet(c) \/ LoadAccess(c) \/ CacheAccess(c) \/ LoadRefresh(c) \/ Post(c)
           \/ CacheMinted(c)
  BY <1>1, <1>2, <1>5 DEF CacheGet, LoadAccess, CacheAccess, LoadRefresh, Post, CacheMinted
<1>6. CASE LoadMeta(c)
  BY <1>1, <1>2, <1>6 DEF LoadMeta, RotatesAfter, RotatesWithMetadata, secrets
<1>7. CASE RotateMeta(c)
  <2>1. reg'[c].meta = metadata
    BY <1>1, <1>7 DEF RotateMeta, TypeOK, Registers
  <2>2. pc'[c] = "post" /\ metadata # None
    BY <1>1, <1>7 DEF RotateMeta, RotatesWithMetadata
  <2> QED
    BY <2>1, <2>2 DEF RotatesAfter, RotatesWithMetadata
<1>8. CASE PutRefresh(c) \/ PutAccess(c) \/ PutMeta(c) \/ PutCache(c)
           \/ AppCache(c) \/ AppAccess(c) \/ AppMeta(c)
  BY <1>1, <1>2, <1>8
  DEF PutRefresh, PutAccess, PutMeta, PutCache, StoreFailed, AppCache, AppAccess, AppMeta
<1>9. CASE PatCacheGet(c) \/ PatValidate(c) \/ PatCache(c) \/ PatStatus(c)
           \/ HasRefresh(c) \/ HasAccess(c) \/ StatusMeta(c)
  BY <1>1, <1>2, <1>9
  DEF PatCacheGet, PatValidate, PatCache, PatStatus, HasRefresh, HasAccess, StatusMeta
<1>10. CASE ListClear(c) \/ Clear(c) \/ DelRefresh(c) \/ DelAccess(c) \/ DelMeta(c)
  BY <1>10 DEF ListClear, Clear, DelRefresh, DelAccess, DelMeta, RotatesWithMetadata
<1>11. CASE ListPurge(c) \/ PurgeDelete(c)
  BY <1>1, <1>2, <1>11 DEF ListPurge, PurgeDelete
<1>12. CASE PurgeGet(c)
  <2>1. pc'[c] \in {"purgeGet", "purgeDelete", "idle"}
    BY <1>1, <1>12 DEF PurgeGet
  <2> QED
    BY <1>2, <2>1
<1>13. CASE ListRefresh(c) \/ ListKeys(c) \/ ListAccess(c) \/ ListDirect(c)
  BY <1>1, <1>2, <1>13 DEF ListRefresh, ListKeys, ListAccess, ListDirect
<1>14. CASE ListEntry(c)
  <2>1. pc'[c] \in {"listEntry", "listAccess"}
    BY <1>1, <1>14 DEF ListEntry
  <2> QED
    BY <1>2, <2>1
<1> QED
  BY <1>3, <1>4, <1>5, <1>6, <1>7, <1>8, <1>9, <1>10, <1>11, <1>12, <1>13, <1>14 DEF Step

\* GitHub replaces the token that c presented: c goes on to store the new one.
LEMMA SuccessorPosted ==
    ASSUME TypeOK, Unfailing, SuccessorOnItsWay, NEW c \in Callers, ~Fault,
           RotatesWithMetadata(c), Post(c)
    PROVE  SuccessorAfter
<1> USE DEF At
<1>1. Only(c) /\ pc[c] = "post" /\ reg[c].meta # None /\ UNCHANGED <<refresh, faults>>
  BY OnlyOne DEF Post, Step, RotatesWithMetadata, secrets, Reliable
<1> DEFINE o == reg[c].refresh.owner
<1>2. CASE UNCHANGED live
  BY <1>1, <1>2, SuccessorKept
<1>3. CASE /\ live' = [live EXCEPT ![o] = reg[c].refresh.gen + 1]
           /\ reg' = [reg EXCEPT ![c].access = NewAccess(o),
                                 ![c].refresh = NewRefresh(o, reg[c].refresh.gen + 1)]
           /\ Goto(c, "putRefresh")
  <2>1. pc'[c] = "putRefresh" /\ reg'[c].refresh.owner = o
    BY <1>3 DEF TypeOK, Registers, Goto, NewRefresh
  <2>2. CASE refresh # None /\ refresh.owner = o
    BY <1>1, <2>1, <2>2 DEF SuccessorAfter, SuccessorOnItsWay
  <2>3. CASE ~(refresh # None /\ refresh.owner = o)
    <3>1. refresh # None => live'[refresh.owner] = live[refresh.owner]
      <4>1. refresh # None => refresh.owner \in Sessions
        BY HeldTypes
      <4> QED
        BY <1>3, <2>3, <4>1 DEF TypeOK
    <3>2. DeadRefresh' => DeadRefresh
      BY <1>1, <3>1 DEF DeadRefresh
    <3> QED
      BY <1>1, <2>3, <3>2 DEF SuccessorAfter, SuccessorOnItsWay, Only, DeadRefresh
  <2> QED
    BY <2>2, <2>3
<1> QED
  BY <1>1, <1>2, <1>3 DEF Post

\* A step that posts, one that stores a refresh token, and all that do neither.
LEMMA SuccessorStep ==
    ASSUME TypeOK, RotationInv, Unfailing, SuccessorOnItsWay, NEW c \in Callers, ~Fault,
           RotatesWithMetadata(c), Call(c) \/ Step(c) \/ Crash(c)
    PROVE  SuccessorAfter
<1> USE DEF At
<1>1. Only(c)
  BY OnlyOne
<1>2. CASE Post(c)
  BY <1>2, SuccessorPosted
<1>3. CASE PutRefresh(c)
  <2>1. reg[c].refresh.gen = live[reg[c].refresh.owner]
    BY <1>3 DEF PutRefresh, RotationInv
  <2>2. refresh' = reg[c].refresh /\ UNCHANGED live
    BY <1>3 DEF PutRefresh, StoreFailed, world
  <2>3. pc[c] \in Holding
    BY <1>3 DEF PutRefresh, Holding
  <2>4. ~DeadRefresh'
    BY <2>1, <2>2, <2>3, HeldTypes DEF DeadRefresh
  <2> QED
    BY <2>4 DEF SuccessorAfter, SuccessorOnItsWay
<1>4. ASSUME NEW s \in Sessions, NEW expiring \in BOOLEAN, Login(c, s, expiring)
      PROVE  SuccessorAfter
  <2>1. /\ live[s] = -1 /\ live' = [live EXCEPT ![s] = 0] /\ pc[c] = "idle"
        /\ UNCHANGED refresh
    BY <1>4 DEF Login, Begin, secrets
  <2>2. refresh # None => /\ refresh.owner \in Sessions /\ refresh.gen \in Nat
                          /\ refresh.gen <= live[refresh.owner]
    BY HeldTypes DEF RotationInv
  <2>3. refresh # None => refresh.owner # s
    BY <2>1, <2>2
  <2>4. DeadRefresh' => DeadRefresh
    BY <2>1, <2>2, <2>3 DEF DeadRefresh, TypeOK
  <2> QED
    BY <1>1, <2>1, <2>4 DEF SuccessorAfter, SuccessorOnItsWay, Only
<1>5. CASE UNCHANGED <<refresh, live>> /\ pc[c] # "putRefresh"
  BY <1>1, <1>5, SuccessorKept
<1>6. CASE DelRefresh(c) \/ Crash(c)
  BY <1>6 DEF DelRefresh, Crash, RotatesWithMetadata
<1>7. CASE \/ AppLogin(c) \/ Logout(c) \/ PurgeExpiredTokens(c) \/ ListCachedTokens(c)
           \/ \E pat, force : GetToken(c, pat, force)
           \/ \E pat : GetStatus(c, pat)
  BY <1>5, <1>7
  DEF AppLogin, Logout, PurgeExpiredTokens, ListCachedTokens, GetToken, GetStatus, Start,
      Begin, secrets, world
<1>8. CASE Step(c) /\ ~Post(c) /\ ~PutRefresh(c) /\ ~DelRefresh(c)
  BY <1>5, <1>8
  DEF Step, CacheGet, LoadAccess, CacheAccess, LoadRefresh, LoadMeta, RotateMeta,
      CacheMinted, PutAccess, PutMeta, PutCache, AppCache, AppAccess, AppMeta, PatCacheGet,
      PatValidate, PatCache, ListClear, Clear, DelAccess, DelMeta, ListPurge, PurgeGet,
      PurgeDelete, PatStatus, HasRefresh, HasAccess, StatusMeta,
      ListRefresh, ListKeys, ListEntry, ListAccess, ListDirect, secrets, world
<1> QED
  BY <1>2, <1>3, <1>4, <1>6, <1>7, <1>8 DEF Call

LEMMA SuccessorInit == Init => SuccessorInv
<1> SUFFICES ASSUME Init PROVE SuccessorInv
  OBVIOUS
<1>1. ~DeadRefresh
  <2>1. CASE Fresh
    BY <2>1 DEF Fresh, DeadRefresh
  <2>2. ASSUME NEW s \in Sessions, Legacy(s) PROVE ~DeadRefresh
    <3>1. refresh.gen = 0 /\ live[refresh.owner] = 0
      BY <2>2 DEF Legacy
    <3> QED
      BY <3>1 DEF DeadRefresh
  <2> QED
    BY <2>1, <2>2 DEF Init
<1> QED
  BY <1>1 DEF Init, SuccessorInv, SuccessorOnItsWay, RotatesWithMetadata

LEMMA SuccessorNext ==
    /\ "Logout" \notin Ops
    /\ TypeOK /\ RotationInv /\ SuccessorInv /\ [Next]_vars
    => SuccessorInv'
<1> SUFFICES ASSUME "Logout" \notin Ops, TypeOK, RotationInv, SuccessorInv, [Next]_vars,
                    faults' = 0
             PROVE  (\A c \in Callers : RotatesAfter(c)) /\ SuccessorAfter
  BY DEF SuccessorInv, RotatesAfter, SuccessorAfter, Unfailing
<1>1. faults \in Nat
  BY BoundsAssumption DEF TypeOK
<1>2. CASE Tick \/ UNCHANGED vars
  <2>1. UNCHANGED <<refresh, metadata, live, pc, reg, faults>>
    BY <1>2 DEF Tick, vars, secrets, world
  <2>2. SuccessorAfter
    BY <2>1 DEF SuccessorInv, SuccessorAfter, SuccessorOnItsWay, DeadRefresh, Unfailing, At
  <2>3. \A c \in Callers : RotatesAfter(c)
    BY <2>1 DEF SuccessorInv, Unfailing, RotatesAfter, RotatesWithMetadata
  <2> QED
    BY <2>2, <2>3
<1>3. ASSUME NEW c \in Callers, Call(c) \/ Step(c) \/ Crash(c)
      PROVE  (\A d \in Callers : RotatesAfter(d)) /\ SuccessorAfter
  <2>1. ~Fault /\ Unfailing
    BY <1>1, <1>3, FaultsOf DEF Fault, Reliable, Unfailing
  <2>2. SuccessorOnItsWay /\ \A d \in Callers : RotatesWithMetadata(d)
    BY <2>1 DEF SuccessorInv
  <2>3. SuccessorAfter
    BY <1>3, <2>1, <2>2, SuccessorStep
  <2>4. RotatesAfter(c)
    BY <1>3, <2>1, <2>2, RotatesStep
  <2>5. metadata # None => metadata' # None
    BY <1>3, <2>1, <2>2, MetadataStays
  <2>6. ASSUME NEW d \in Callers \ {c} PROVE RotatesAfter(d)
    BY <1>3, <2>2, <2>5, OnlyOne DEF Only, RotatesAfter, RotatesWithMetadata
  <2> QED
    BY <2>3, <2>4, <2>6
<1> QED
  BY <1>2, <1>3 DEF Next

\* While nobody logs out and nothing fails, a refresh token that GitHub has
\* replaced is in the store only while the call that replaced it is about to
\* overwrite it (refreshAccessToken), however many calls refresh and log in.
THEOREM SuccessorOnItsWayCorrect ==
    ASSUME "Logout" \notin Ops
    PROVE  Spec => []SuccessorOnItsWay
<1>1. TypeOK /\ RotationInv /\ SuccessorInv /\ [Next]_vars => SuccessorInv'
  BY SuccessorNext
<1>2. SuccessorInv => SuccessorOnItsWay
  BY DEF SuccessorInv, SuccessorOnItsWay
<1> QED
  BY <1>1, <1>2, SuccessorInit, TypeCorrect, RotationCorrect, PTL DEF Spec
=============================================================================
