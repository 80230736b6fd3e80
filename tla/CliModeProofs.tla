---------------------------- MODULE CliModeProofs ----------------------------
(***************************************************************************)
(* What holds of CliMode for every set of callers, sessions and personal   *)
(* access tokens, every budget of faults and every bound on the clock and  *)
(* the rotations: its types, and that a refresh token is only ever stored  *)
(* while it is the one GitHub accepts.                                     *)
(***************************************************************************)
EXTENDS CliMode, TLAPS

-----------------------------------------------------------------------------
\* Types of the values that steps build.

\* Every deadline a call computes is a time.
LEMMA TimeTypes ==
    ASSUME TypeOK
    PROVE  /\ Far \in Times
           /\ now \in Times
           /\ now + AccessLife \in Times
           /\ now + RefreshLife \in Times
  BY DurationsAssumption, BoundsAssumption DEF TypeOK, Times, Far

\* Absent is one of the values of an optional.
LEMMA OptTypes ==
    ASSUME NEW S
    PROVE  None \in Opt(S) /\ S \subseteq Opt(S)
  BY DEF Opt

\* The owners of tokens are told apart.
LEMMA OwnerFacts ==
    /\ None \notin Sessions /\ None \notin Pats /\ None # App
    /\ App \notin Sessions /\ App \notin Pats
    /\ \A s \in Sessions : s \notin Pats
  BY OwnersAssumption, NoneAssumption DEF Owners

LEMMA AnswerTypes ==
    /\ Nothing \in Answers /\ Done \in Answers /\ Error \in Answers
    /\ \A e \in CacheEntries, p \in Opt(Pats) : TokenAnswer(e, p) \in Answers
    /\ \A a \in BOOLEAN, x \in BOOLEAN, u \in Opt(Owners) :
         StatusAnswer(a, x, u) \in Answers
    /\ \A i \in SUBSET Infos : ListAnswer(i) \in Answers
  BY DEF Answers, Nothing, Done, Error, TokenAnswer, StatusAnswer, ListAnswer

\* The tokens that GitHub issues.
LEMMA IssuedTypes ==
    ASSUME TypeOK
    PROVE  /\ \A s \in Owners : NewAccess(s) \in AccessTokens
           /\ \A s \in Owners : [owner |-> s, exp |-> Far] \in AccessTokens
           /\ \A s \in Sessions, g \in 0..MaxGen : NewRefresh(s, g) \in RefreshTokens
  BY TimeTypes DEF NewAccess, NewRefresh, AccessTokens, RefreshTokens

LEMMA MetadataFields ==
    \A m \in MetadataRecords : m.user \in Opt(Owners) /\ m.label \in Opt(Owners)
  BY DEF MetadataRecords

\* What a listing finds.
LEMMA InfoTypes ==
    ASSUME NEW i \in SUBSET Infos
    PROVE  /\ \A k \in CacheKeys \cup {"direct"}, t \in AccessTokens :
                i \cup {Info(k, t)} \in SUBSET Infos
           /\ \A t \in RefreshTokens : {Info("refresh", t)} \in SUBSET Infos
<1>1. \A k \in CacheKeys \cup {"direct"}, t \in AccessTokens : Info(k, t) \in Infos
  BY DEF Infos, Info
<1>2. \A t \in RefreshTokens : Info("refresh", t) \in Infos
  BY DEF Infos, Info
<1> QED
  BY <1>1, <1>2

LEMMA BlankType == Blank \in Registers
  BY DEF Blank, Registers, Opt

\* The fields of a call's registers, and the assignments the steps make to them.
LEMMA RegisterTypes ==
    ASSUME NEW r \in Registers
    PROVE  /\ r.pat \in Opt(Pats)
           /\ r.access \in Opt(AccessTokens)
           /\ r.refresh \in Opt(RefreshTokens)
           /\ r.meta \in Opt(MetadataRecords)
           /\ r.keys \in SUBSET CacheKeys
           /\ r.key \in Opt(CacheKeys)
           /\ r.found \in BOOLEAN
           /\ r.infos \in SUBSET Infos
           /\ \A x \in Opt(Pats) : LET q == [r EXCEPT !.pat = x] IN
                q \in Registers /\ q.pat = x
           /\ \A x \in Opt(AccessTokens) : LET q == [r EXCEPT !.access = x] IN
                q \in Registers /\ q.access = x
           /\ \A x \in Opt(MetadataRecords) : LET q == [r EXCEPT !.meta = x] IN
                q \in Registers /\ q.refresh = r.refresh
           /\ \A x \in SUBSET CacheKeys : LET q == [r EXCEPT !.keys = x] IN
                q \in Registers
           /\ \A x \in Opt(CacheKeys) : LET q == [r EXCEPT !.key = x] IN
                q \in Registers
           /\ \A x \in BOOLEAN : LET q == [r EXCEPT !.found = x] IN
                q \in Registers
           /\ \A x \in SUBSET Infos : LET q == [r EXCEPT !.infos = x] IN
                q \in Registers
  BY DEF Registers

LEMMA KeysRegister ==
    ASSUME NEW r \in Registers, NEW x \in SUBSET CacheKeys, NEW y \in Opt(CacheKeys)
    PROVE  LET q == [r EXCEPT !.keys = x, !.key = y] IN q \in Registers /\ q.key = y
  BY DEF Registers

LEMMA EntryRegister ==
    ASSUME NEW r \in Registers, NEW x \in SUBSET CacheKeys, NEW y \in SUBSET Infos
    PROVE  [r EXCEPT !.keys = x, !.infos = y] \in Registers
  BY DEF Registers

LEMMA MintingRegister ==
    ASSUME NEW r \in Registers, NEW y \in Opt(RefreshTokens)
    PROVE  LET q == [r EXCEPT !.refresh = y, !.minting = TRUE] IN
           q \in Registers /\ q.refresh = y
  BY DEF Registers

-----------------------------------------------------------------------------
\* The calls, across the forms a step has: a call answers, moves on, stays or begins.
CallsOK ==
    /\ pc \in [Callers -> Labels]
    /\ reg \in [Callers -> Registers]
    /\ \A c \in Callers : Defined(pc[c], reg[c])
    /\ out \in [Callers -> Answers]

\* Where a call can be, given what it has at hand.
LEMMA LabelFacts ==
    ASSUME NEW r
    PROVE  /\ \A l \in { "idle", "cacheGet", "loadAccess", "loadRefresh", "listClear",
                       "clear", "delRefresh", "delAccess", "delMeta", "listPurge",
                       "purgeGet", "hasRefresh", "hasAccess", "statusMeta",
                       "listRefresh", "listKeys", "listEntry", "listAccess" } :
                l \in Labels /\ Defined(l, r)
           /\ r.access \in AccessTokens =>
                \A l \in { "cacheAccess", "cacheMinted", "putAccess", "putMeta",
                         "putCache", "appCache", "appAccess", "appMeta",
                         "listDirect" } :
                  l \in Labels /\ Defined(l, r)
           /\ r.refresh \in RefreshTokens =>
                \A l \in {"loadMeta", "rotateMeta", "post"} : l \in Labels /\ Defined(l, r)
           /\ r.access \in AccessTokens /\ r.refresh \in RefreshTokens =>
                "putRefresh" \in Labels /\ Defined("putRefresh", r)
           /\ r.pat \in Pats =>
                \A l \in {"patCacheGet", "patValidate", "patCache", "patStatus"} :
                  l \in Labels /\ Defined(l, r)
           /\ r.key \in CacheKeys => "purgeDelete" \in Labels /\ Defined("purgeDelete", r)
  BY DEF Labels, Defined, WithAccess, Storing, Holding, WithPat

LEMMA ReturnType ==
    ASSUME TypeOK, NEW c \in Callers, NEW a \in Answers, Return(c, a)
    PROVE  CallsOK'
  BY BlankType
  DEF Return, TypeOK, CallsOK, Labels, Defined, WithAccess, Storing, Holding, WithPat

\* A call moves to l and its registers become r.
LEMMA MoveType ==
    ASSUME TypeOK, NEW c \in Callers, NEW l \in Labels, NEW r \in Registers,
           Goto(c, l) \/ Begin(c, l), reg' = [reg EXCEPT ![c] = r], Defined(l, r)
    PROVE  CallsOK'
  BY AnswerTypes DEF Goto, Begin, TypeOK, CallsOK

LEMMA StayType ==
    ASSUME TypeOK, NEW c \in Callers, NEW r \in Registers,
           UNCHANGED <<pc, out>>, reg' = [reg EXCEPT ![c] = r], Defined(pc[c], r)
    PROVE  CallsOK'
  BY DEF TypeOK, CallsOK

\* The assignments that come with a move.
LEMMA KeepType ==
    ASSUME TypeOK, NEW c \in Callers, NEW l \in Labels,
           Goto(c, l) \/ Begin(c, l), UNCHANGED reg, Defined(l, reg[c])
    PROVE  CallsOK'
<1>1. reg[c] \in Registers /\ reg' = [reg EXCEPT ![c] = reg[c]]
  BY DEF TypeOK
<1> QED
  BY <1>1, MoveType

LEMMA FreeType ==
    ASSUME TypeOK, NEW c \in Callers,
           NEW l \in { "loadAccess", "loadRefresh", "delRefresh", "delAccess", "delMeta",
                       "hasAccess", "statusMeta", "listKeys", "listAccess" },
           Goto(c, l), UNCHANGED reg
    PROVE  CallsOK'
  BY KeepType, LabelFacts

LEMMA EndType ==
    ASSUME TypeOK, NEW c \in Callers,
           NEW a \in {Nothing, Done, Error, Unauthenticated}, Return(c, a)
    PROVE  CallsOK'
<1>1. a \in Answers
  BY AnswerTypes, OptTypes DEF Unauthenticated
<1> QED
  BY <1>1, ReturnType

LEMMA SetPatType ==
    ASSUME TypeOK, NEW c \in Callers, NEW x \in Opt(Pats), NEW l \in Labels,
           Goto(c, l) \/ Begin(c, l), reg' = [reg EXCEPT ![c].pat = x],
           \/ l \in {"cacheGet", "loadAccess", "hasRefresh"}
           \/ l \in WithPat /\ x \in Pats
    PROVE  CallsOK'
<1> DEFINE r == [reg[c] EXCEPT !.pat = x]
<1>1. reg[c] \in Registers
  BY DEF TypeOK
<1>2. r \in Registers /\ r.pat = x
  BY <1>1, RegisterTypes
<1>3. reg' = [reg EXCEPT ![c] = r]
  OBVIOUS
<1> HIDE DEF r
<1>4. Defined(l, r)
  BY <1>2, LabelFacts DEF WithPat
<1> QED
  BY <1>2, <1>3, <1>4, MoveType

LEMMA SetAccessType ==
    ASSUME TypeOK, NEW c \in Callers, NEW x \in AccessTokens,
           NEW l \in {"cacheAccess", "cacheMinted", "appCache", "listDirect"},
           Goto(c, l) \/ Begin(c, l), reg' = [reg EXCEPT ![c].access = x]
    PROVE  CallsOK'
<1> DEFINE r == [reg[c] EXCEPT !.access = x]
<1>1. reg[c] \in Registers /\ x \in Opt(AccessTokens)
  BY OptTypes DEF TypeOK
<1>2. r \in Registers /\ r.access = x
  BY <1>1, RegisterTypes
<1>3. reg' = [reg EXCEPT ![c] = r]
  OBVIOUS
<1> HIDE DEF r
<1>4. l \in Labels /\ Defined(l, r)
  BY <1>2, LabelFacts
<1> QED
  BY <1>2, <1>3, <1>4, MoveType

LEMMA SetTokensType ==
    ASSUME TypeOK, NEW c \in Callers, NEW x \in AccessTokens, NEW y \in Opt(RefreshTokens),
           NEW l \in {"putRefresh", "putAccess", "cacheMinted"},
           Goto(c, l) \/ Begin(c, l),
           reg' = [reg EXCEPT ![c].access = x, ![c].refresh = y],
           l = "putRefresh" => y \in RefreshTokens
    PROVE  CallsOK'
<1> DEFINE r == [reg[c] EXCEPT !.access = x, !.refresh = y]
<1>1. reg[c] \in Registers /\ x \in Opt(AccessTokens) /\ y \in Opt(RefreshTokens)
  BY OptTypes DEF TypeOK
<1>2. r \in Registers /\ r.access = x /\ r.refresh = y
  <2>1. ASSUME NEW p \in Registers
        PROVE  LET q == [p EXCEPT !.access = x, !.refresh = y] IN
               q \in Registers /\ q.access = x /\ q.refresh = y
    BY <1>1 DEF Registers
  <2> QED
    BY <1>1, <2>1
<1>3. reg' = [reg EXCEPT ![c] = r]
  BY <1>1 DEF TypeOK
<1> HIDE DEF r
<1>4. l \in Labels /\ Defined(l, r)
  BY <1>2, LabelFacts
<1> QED
  BY <1>2, <1>3, <1>4, MoveType

LEMMA SetRefreshType ==
    ASSUME TypeOK, NEW c \in Callers, NEW y \in RefreshTokens, Goto(c, "loadMeta"),
           reg' = [reg EXCEPT ![c].refresh = y, ![c].minting = TRUE]
    PROVE  CallsOK'
<1> DEFINE r == [reg[c] EXCEPT !.refresh = y, !.minting = TRUE]
<1>1. reg[c] \in Registers /\ y \in Opt(RefreshTokens)
  BY OptTypes DEF TypeOK
<1>2. r \in Registers /\ r.refresh = y
  BY <1>1, MintingRegister
<1>3. reg' = [reg EXCEPT ![c] = r]
  BY <1>1 DEF TypeOK
<1> HIDE DEF r
<1>4. "loadMeta" \in Labels /\ Defined("loadMeta", r)
  BY <1>2, LabelFacts
<1> QED
  BY <1>2, <1>3, <1>4, MoveType

LEMMA SetMetaType ==
    ASSUME TypeOK, NEW c \in Callers, NEW x \in Opt(MetadataRecords), Goto(c, "post"),
           reg' = [reg EXCEPT ![c].meta = x], reg[c].refresh \in RefreshTokens
    PROVE  CallsOK'
<1> DEFINE r == [reg[c] EXCEPT !.meta = x]
<1>1. reg[c] \in Registers
  BY DEF TypeOK
<1>2. r \in Registers /\ r.refresh = reg[c].refresh
  BY <1>1, RegisterTypes
<1>3. reg' = [reg EXCEPT ![c] = r]
  OBVIOUS
<1> HIDE DEF r
<1>4. "post" \in Labels /\ Defined("post", r)
  BY <1>2, LabelFacts
<1> QED
  BY <1>2, <1>3, <1>4, MoveType

LEMMA SetKeysType ==
    ASSUME TypeOK, NEW c \in Callers, NEW x \in SUBSET CacheKeys,
           reg' = [reg EXCEPT ![c].keys = x],
           \/ Goto(c, "clear") \/ Goto(c, "purgeGet") \/ Goto(c, "listEntry")
           \/ UNCHANGED <<pc, out>> /\ pc[c] \in {"clear", "purgeGet", "listEntry"}
    PROVE  CallsOK'
<1> DEFINE r == [reg[c] EXCEPT !.keys = x]
<1>1. reg[c] \in Registers
  BY DEF TypeOK
<1>2. r \in Registers
  BY <1>1, RegisterTypes
<1>3. reg' = [reg EXCEPT ![c] = r]
  OBVIOUS
<1> HIDE DEF r
<1>4. \A l \in {"clear", "purgeGet", "listEntry"} : l \in Labels /\ Defined(l, r)
  BY LabelFacts
<1> QED
  BY <1>2, <1>3, <1>4, MoveType, StayType

LEMMA SetKeyType ==
    ASSUME TypeOK, NEW c \in Callers, NEW x \in SUBSET CacheKeys, NEW y \in CacheKeys,
           Goto(c, "purgeDelete"), reg' = [reg EXCEPT ![c].keys = x, ![c].key = y]
    PROVE  CallsOK'
<1> DEFINE r == [reg[c] EXCEPT !.keys = x, !.key = y]
<1>1. reg[c] \in Registers /\ y \in Opt(CacheKeys)
  BY OptTypes DEF TypeOK
<1>2. r \in Registers /\ r.key = y
  BY <1>1, KeysRegister
<1>3. reg' = [reg EXCEPT ![c] = r]
  BY <1>1 DEF TypeOK
<1> HIDE DEF r
<1>4. "purgeDelete" \in Labels /\ Defined("purgeDelete", r)
  BY <1>2, LabelFacts
<1> QED
  BY <1>2, <1>3, <1>4, MoveType

LEMMA ResetKeyType ==
    ASSUME TypeOK, NEW c \in Callers,
           Goto(c, "purgeGet"), reg' = [reg EXCEPT ![c].key = None]
    PROVE  CallsOK'
<1> DEFINE r == [reg[c] EXCEPT !.key = None]
<1>1. reg[c] \in Registers /\ None \in Opt(CacheKeys)
  BY OptTypes DEF TypeOK
<1>2. r \in Registers
  BY <1>1, RegisterTypes
<1>3. reg' = [reg EXCEPT ![c] = r]
  OBVIOUS
<1> HIDE DEF r
<1>4. "purgeGet" \in Labels /\ Defined("purgeGet", r)
  BY LabelFacts
<1> QED
  BY <1>2, <1>3, <1>4, MoveType

LEMMA SetFoundType ==
    ASSUME TypeOK, NEW c \in Callers, NEW x \in BOOLEAN,
           Goto(c, "hasAccess"), reg' = [reg EXCEPT ![c].found = x]
    PROVE  CallsOK'
<1> DEFINE r == [reg[c] EXCEPT !.found = x]
<1>1. reg[c] \in Registers
  BY DEF TypeOK
<1>2. r \in Registers
  BY <1>1, RegisterTypes
<1>3. reg' = [reg EXCEPT ![c] = r]
  OBVIOUS
<1> HIDE DEF r
<1>4. "hasAccess" \in Labels /\ Defined("hasAccess", r)
  BY LabelFacts
<1> QED
  BY <1>2, <1>3, <1>4, MoveType

LEMMA SetInfosType ==
    ASSUME TypeOK, NEW c \in Callers, NEW x \in SUBSET Infos,
           Goto(c, "listKeys"), reg' = [reg EXCEPT ![c].infos = x]
    PROVE  CallsOK'
<1> DEFINE r == [reg[c] EXCEPT !.infos = x]
<1>1. reg[c] \in Registers
  BY DEF TypeOK
<1>2. r \in Registers
  BY <1>1, RegisterTypes
<1>3. reg' = [reg EXCEPT ![c] = r]
  OBVIOUS
<1> HIDE DEF r
<1>4. "listKeys" \in Labels /\ Defined("listKeys", r)
  BY LabelFacts
<1> QED
  BY <1>2, <1>3, <1>4, MoveType

LEMMA AddInfoType ==
    ASSUME TypeOK, NEW c \in Callers, NEW x \in SUBSET CacheKeys, NEW y \in SUBSET Infos,
           UNCHANGED <<pc, out>>, pc[c] = "listEntry",
           reg' = [reg EXCEPT ![c].keys = x, ![c].infos = y]
    PROVE  CallsOK'
<1> DEFINE r == [reg[c] EXCEPT !.keys = x, !.infos = y]
<1>1. reg[c] \in Registers
  BY DEF TypeOK
<1>2. r \in Registers
  BY <1>1, EntryRegister
<1>3. reg' = [reg EXCEPT ![c] = r]
  BY <1>1 DEF TypeOK
<1> HIDE DEF r
<1>4. "listEntry" \in Labels /\ Defined("listEntry", r)
  BY LabelFacts
<1> QED
  BY <1>2, <1>3, <1>4, StayType

LEMMA ListedType ==
    ASSUME TypeOK, NEW c \in Callers, NEW x \in SUBSET Infos, Return(c, ListAnswer(x))
    PROVE  CallsOK'
  BY AnswerTypes, ReturnType

LEMMA FaultType ==
    ASSUME TypeOK, Reliable \/ Fault
    PROVE  faults' \in 0..MaxFaults
  BY BoundsAssumption DEF Reliable, Fault, TypeOK

\* What a call does to the number of faults.
LEMMA FaultsOf ==
    ASSUME NEW c \in Callers, Call(c) \/ Step(c) \/ Crash(c)
    PROVE  Fault \/ Reliable
<1>1. CASE Crash(c)
  BY <1>1 DEF Crash
<1>2. CASE Call(c)
  BY <1>2 DEF Call, GetToken, Login, GetStatus, AppLogin, Logout, PurgeExpiredTokens,
              ListCachedTokens, Start
<1>3. CASE Step(c)
  BY <1>3
  DEF Step, CacheGet, LoadAccess, CacheAccess, LoadRefresh, LoadMeta, RotateMeta, Post,
      CacheMinted, PutRefresh, PutAccess, PutMeta, PutCache, StoreFailed, AppCache,
      AppAccess, AppMeta, PatCacheGet, PatValidate, PatCache, ListClear, Clear,
      DelRefresh, DelAccess, DelMeta, ListPurge, PurgeGet, PurgeDelete, PatStatus,
      HasRefresh, HasAccess, StatusMeta, ListRefresh, ListKeys, ListEntry, ListAccess,
      ListDirect
<1> QED
  BY <1>1, <1>2, <1>3

-----------------------------------------------------------------------------
\* Type correctness: one step per action.
LEMMA TypeInit == Init => TypeOK
<1> SUFFICES ASSUME Init PROVE TypeOK
  OBVIOUS
<1>1. 0 \in 0..MaxTime /\ 0 \in 0..MaxGen /\ 0 \in 0..MaxFaults /\ RefreshLife \in Times
  BY DurationsAssumption, BoundsAssumption DEF Times, Far
<1>2. /\ refresh \in Opt(RefreshTokens)
      /\ metadata \in Opt(MetadataRecords)
      /\ live \in [Sessions -> -1..MaxGen]
      /\ session \in Opt(Owners)
  <2>1. CASE Fresh
    BY <2>1, BoundsAssumption, OptTypes DEF Fresh
  <2>2. ASSUME NEW s \in Sessions, Legacy(s)
        PROVE  /\ refresh \in RefreshTokens
               /\ metadata \in MetadataRecords
               /\ live \in [Sessions -> -1..MaxGen]
               /\ session \in Owners
    <3>1. s \in Owners /\ s \in Opt(Owners) /\ s \in Opt(Sessions)
      BY DEF Owners, Opt
    <3> QED
      BY <1>1, <2>2, <3>1, BoundsAssumption DEF Legacy, RefreshTokens, MetadataRecords
  <2> QED
    BY <2>1, <2>2, OptTypes DEF Init
<1>3. pc \in [Callers -> Labels]
  BY DEF Init, Labels
<1>4. Defined("idle", Blank)
  BY DEF Defined, WithAccess, Storing, Holding, WithPat
<1> QED
  BY <1>1, <1>2, <1>3, <1>4, OptTypes, BlankType, AnswerTypes DEF Init, TypeOK

\* A write of storeCredentials fails: the mint goes on, the login is over.
LEMMA StoreFailedType ==
    ASSUME TypeOK, NEW c \in Callers, StoreFailed(c), reg[c].access \in AccessTokens
    PROVE  CallsOK' /\ faults' \in 0..MaxFaults
<1>1. "cacheMinted" \in Labels /\ Defined("cacheMinted", reg[c])
  BY LabelFacts
<1>2. CASE reg[c].minting
  BY <1>1, <1>2, KeepType, FaultType DEF StoreFailed
<1>3. CASE ~reg[c].minting
  BY <1>3, ReturnType, AnswerTypes, FaultType DEF StoreFailed
<1> QED
  BY <1>2, <1>3

LEMMA TypeNext == TypeOK /\ [Next]_vars => TypeOK'
<1> SUFFICES ASSUME TypeOK, [Next]_vars PROVE TypeOK'
  OBVIOUS
<1> USE DEF At
<1>a. /\ refresh \in Opt(RefreshTokens) /\ access \in Opt(AccessTokens)
      /\ metadata \in Opt(MetadataRecords)
      /\ cache \in [CacheKeys -> Opt(CacheEntries)]
      /\ Cached \in SUBSET CacheKeys
  BY DEF TypeOK, Cached
<1>b. ASSUME NEW c \in Callers
      PROVE  /\ reg[c].pat \in Opt(Pats)
             /\ reg[c].access \in Opt(AccessTokens)
             /\ reg[c].refresh \in Opt(RefreshTokens)
             /\ reg[c].meta \in Opt(MetadataRecords)
             /\ reg[c].keys \in SUBSET CacheKeys
             /\ reg[c].key \in Opt(CacheKeys)
             /\ reg[c].found \in BOOLEAN
             /\ reg[c].infos \in SUBSET Infos
             /\ pc[c] \in WithAccess => reg[c].access \in AccessTokens
             /\ pc[c] \in Holding => reg[c].refresh \in RefreshTokens
             /\ pc[c] \in WithPat => reg[c].pat \in Pats
             /\ pc[c] = "purgeDelete" => reg[c].key \in CacheKeys
  <2>1. reg[c] \in Registers /\ Defined(pc[c], reg[c])
    BY DEF TypeOK
  <2> QED
    BY <2>1, RegisterTypes DEF Defined
<1>c. \A x : x # None => /\ x \in Opt(AccessTokens) => x \in AccessTokens
                         /\ x \in Opt(RefreshTokens) => x \in RefreshTokens
                         /\ x \in Opt(CacheEntries) => x \in CacheEntries
                         /\ x \in Opt(MetadataRecords) => x \in MetadataRecords
                         /\ x \in Opt(Pats) => x \in Pats
  BY DEF Opt
\* Calls begin.
<1>1. ASSUME NEW c \in Callers, NEW pat \in Opt(Pats), NEW force \in BOOLEAN,
             GetToken(c, pat, force)
      PROVE  TypeOK'
  <2>1. pat # None => pat \in Pats
    BY <1>c
  <2>2. CallsOK'
    <3>1. ASSUME NEW l \in {"cacheGet", "loadAccess"}, Begin(c, l) PROVE CallsOK'
      BY <1>1, <3>1, SetPatType DEF GetToken, Labels
    <3>2. ASSUME NEW l \in {"patCacheGet", "patValidate"}, Begin(c, l), pat # None
          PROVE  CallsOK'
      BY <1>1, <2>1, <3>2, SetPatType DEF GetToken, Labels, WithPat
    <3> QED
      BY <1>1, <3>1, <3>2 DEF GetToken, Start
  <2>3. faults' \in 0..MaxFaults
    BY <1>1, FaultType DEF GetToken, Start
  <2> QED
    BY <1>1, <2>2, <2>3 DEF GetToken, Start, TypeOK, CallsOK, secrets, world
<1>2. ASSUME NEW c \in Callers, NEW s \in Sessions, NEW expiring \in BOOLEAN,
             Login(c, s, expiring)
      PROVE  TypeOK'
  <2>1. s \in Owners /\ 0 \in 0..MaxGen
    BY BoundsAssumption DEF Owners
  <2>2. live' \in [Sessions -> -1..MaxGen]
    BY <1>2, <2>1 DEF Login, TypeOK
  <2>3. CallsOK'
    <3>1. CASE expiring
      <4>1. NewAccess(s) \in AccessTokens /\ NewRefresh(s, 0) \in RefreshTokens
        BY <2>1, IssuedTypes
      <4>2. NewRefresh(s, 0) \in Opt(RefreshTokens)
        BY <4>1, OptTypes
      <4> QED
        BY <1>2, <3>1, <4>1, <4>2, SetTokensType DEF Login
    <3>2. CASE ~expiring
      <4>1. [owner |-> s, exp |-> Far] \in AccessTokens /\ None \in Opt(RefreshTokens)
        BY <2>1, IssuedTypes, OptTypes
      <4> QED
        BY <1>2, <3>2, <4>1, SetTokensType DEF Login
    <3> QED
      BY <3>1, <3>2
  <2>4. faults' \in 0..MaxFaults
    BY <1>2, FaultType DEF Login
  <2> QED
    BY <1>2, <2>2, <2>3, <2>4 DEF Login, TypeOK, CallsOK, secrets
<1>3. ASSUME NEW c \in Callers, AppLogin(c)
      PROVE  TypeOK'
  <2>1. NewAccess(App) \in AccessTokens
    BY IssuedTypes DEF Owners
  <2>2. CallsOK'
    BY <1>3, <2>1, SetAccessType DEF AppLogin, Start
  <2>3. faults' \in 0..MaxFaults
    BY <1>3, FaultType DEF AppLogin, Start
  <2> QED
    BY <1>3, <2>2, <2>3 DEF AppLogin, Start, TypeOK, CallsOK, secrets, world
<1>4. ASSUME NEW c \in Callers, Logout(c)
      PROVE  TypeOK'
  <2>1. "listClear" \in Labels /\ Defined("listClear", reg[c])
    BY LabelFacts
  <2>2. CallsOK'
    BY <1>4, <2>1, KeepType DEF Logout, Start
  <2>3. faults' \in 0..MaxFaults
    BY <1>4, FaultType DEF Logout, Start
  <2> QED
    BY <1>4, <2>2, <2>3 DEF Logout, Start, TypeOK, CallsOK, secrets, world
<1>5. ASSUME NEW c \in Callers, PurgeExpiredTokens(c)
      PROVE  TypeOK'
  <2>1. "listPurge" \in Labels /\ Defined("listPurge", reg[c])
    BY LabelFacts
  <2>2. CallsOK'
    BY <1>5, <2>1, KeepType DEF PurgeExpiredTokens, Start
  <2>3. faults' \in 0..MaxFaults
    BY <1>5, FaultType DEF PurgeExpiredTokens, Start
  <2> QED
    BY <1>5, <2>2, <2>3 DEF PurgeExpiredTokens, Start, TypeOK, CallsOK, secrets, world
<1>5a. ASSUME NEW c \in Callers, ListCachedTokens(c)
      PROVE  TypeOK'
  <2>1. "listRefresh" \in Labels /\ Defined("listRefresh", reg[c])
    BY LabelFacts
  <2>2. CallsOK'
    BY <1>5a, <2>1, KeepType DEF ListCachedTokens, Start
  <2>3. faults' \in 0..MaxFaults
    BY <1>5a, FaultType DEF ListCachedTokens, Start
  <2> QED
    BY <1>5a, <2>2, <2>3 DEF ListCachedTokens, Start, TypeOK, CallsOK, secrets, world
<1>6. ASSUME NEW c \in Callers, NEW pat \in Opt(Pats), GetStatus(c, pat)
      PROVE  TypeOK'
  <2>1. pat # None => pat \in Pats
    BY <1>c
  <2>2. CallsOK'
    <3>1. ASSUME Begin(c, "hasRefresh") PROVE CallsOK'
      BY <1>6, <3>1, SetPatType DEF GetStatus, Labels
    <3>2. ASSUME Begin(c, "patStatus"), pat # None PROVE CallsOK'
      BY <1>6, <2>1, <3>2, SetPatType DEF GetStatus, Labels, WithPat
    <3> QED
      BY <1>6, <3>1, <3>2 DEF GetStatus, Start
  <2>3. faults' \in 0..MaxFaults
    BY <1>6, FaultType DEF GetStatus, Start
  <2> QED
    BY <1>6, <2>2, <2>3 DEF GetStatus, Start, TypeOK, CallsOK, secrets, world
\* GetToken.
<1>7. ASSUME NEW c \in Callers, CacheGet(c)
      PROVE  TypeOK'
  <2>1. ASSUME cache["host"] # None, Return(c, TokenAnswer(cache["host"], None))
        PROVE  CallsOK'
    <3>1. cache["host"] \in CacheEntries /\ None \in Opt(Pats)
      BY <1>a, <1>c, <2>1, OptTypes DEF CacheKeys
    <3>2. TokenAnswer(cache["host"], None) \in Answers
      BY <3>1, AnswerTypes
    <3> QED
      BY <2>1, <3>2, ReturnType
  <2>2. CallsOK'
    BY <1>7, <2>1, FreeType DEF CacheGet
  <2>3. faults' \in 0..MaxFaults
    BY <1>7, FaultType DEF CacheGet
  <2> QED
    BY <1>7, <2>2, <2>3 DEF CacheGet, TypeOK, CallsOK, secrets, world
<1>8. ASSUME NEW c \in Callers, LoadAccess(c)
      PROVE  TypeOK'
  <2>1. ASSUME access # None, Goto(c, "cacheAccess"), reg' = [reg EXCEPT ![c].access = access]
        PROVE  CallsOK'
    <3>1. access \in AccessTokens
      BY <1>a, <1>c, <2>1
    <3> QED
      BY <2>1, <3>1, SetAccessType
  <2>2. CallsOK'
    BY <1>8, <2>1, FreeType DEF LoadAccess
  <2>3. faults' \in 0..MaxFaults
    BY <1>8, FaultType DEF LoadAccess
  <2> QED
    BY <1>8, <2>2, <2>3 DEF LoadAccess, TypeOK, CallsOK, secrets, world
<1>9. ASSUME NEW c \in Callers, CacheAccess(c)
      PROVE  TypeOK'
  <2>1. StoredEntry(reg[c].access) \in CacheEntries
    <3>1. reg[c].access \in AccessTokens
      BY <1>9, <1>b DEF CacheAccess, WithAccess
    <3> QED
      BY <3>1, TimeTypes, OptTypes DEF StoredEntry, CacheEntries
  <2>2. TokenAnswer(StoredEntry(reg[c].access), None) \in Answers
    BY <1>b, <1>c, <2>1, AnswerTypes, OptTypes
  <2>3. cache' \in [CacheKeys -> Opt(CacheEntries)]
    BY <1>9, <1>a, <2>1, OptTypes DEF CacheAccess, CacheKeys
  <2>4. CallsOK'
    BY <1>9, <2>2, ReturnType DEF CacheAccess
  <2>5. faults' \in 0..MaxFaults
    BY <1>9, FaultType DEF CacheAccess
  <2> QED
    BY <1>9, <2>3, <2>4, <2>5 DEF CacheAccess, TypeOK, CallsOK, world
\* mintToken and refreshAccessToken.
<1>10. ASSUME NEW c \in Callers, LoadRefresh(c)
      PROVE  TypeOK'
  <2>1. ASSUME refresh # None, Goto(c, "loadMeta"),
               reg' = [reg EXCEPT ![c].refresh = refresh, ![c].minting = TRUE]
        PROVE  CallsOK'
    <3>1. refresh \in RefreshTokens
      BY <1>a, <1>c, <2>1
    <3> QED
      BY <2>1, <3>1, SetRefreshType
  <2>2. CallsOK'
    BY <1>10, <2>1, EndType DEF LoadRefresh
  <2>3. faults' \in 0..MaxFaults
    BY <1>10, FaultType DEF LoadRefresh
  <2> QED
    BY <1>10, <2>2, <2>3 DEF LoadRefresh, TypeOK, CallsOK, secrets, world
<1>11. ASSUME NEW c \in Callers, LoadMeta(c)
      PROVE  TypeOK'
  <2>1. reg[c].refresh \in RefreshTokens
    BY <1>11, <1>b DEF LoadMeta, Holding
  <2>2. ASSUME Goto(c, "rotateMeta"), UNCHANGED reg PROVE CallsOK'
    <3>1. "rotateMeta" \in Labels /\ Defined("rotateMeta", reg[c])
      BY <2>1, LabelFacts
    <3> QED
      BY <2>2, <3>1, KeepType
  <2>3. CallsOK'
    BY <1>11, <2>2, EndType DEF LoadMeta
  <2>4. faults' \in 0..MaxFaults
    BY <1>11, FaultType DEF LoadMeta
  <2> QED
    BY <1>11, <2>3, <2>4 DEF LoadMeta, TypeOK, CallsOK, secrets, world
<1>12. ASSUME NEW c \in Callers, RotateMeta(c)
      PROVE  TypeOK'
  <2>1. reg[c].refresh \in RefreshTokens
    BY <1>12, <1>b DEF RotateMeta, Holding
  <2>2. ASSUME reg' = [reg EXCEPT ![c].meta = metadata] PROVE CallsOK'
    BY <1>12, <1>a, <2>1, <2>2, SetMetaType DEF RotateMeta
  <2>3. ASSUME Goto(c, "post"), UNCHANGED reg PROVE CallsOK'
    <3>1. "post" \in Labels /\ Defined("post", reg[c])
      BY <2>1, LabelFacts
    <3> QED
      BY <2>3, <3>1, KeepType
  <2>4. CallsOK'
    BY <1>12, <2>2, <2>3 DEF RotateMeta
  <2>5. faults' \in 0..MaxFaults
    BY <1>12, FaultType DEF RotateMeta
  <2> QED
    BY <1>12, <2>4, <2>5 DEF RotateMeta, TypeOK, CallsOK, secrets, world
<1>13. ASSUME NEW c \in Callers, Post(c)
      PROVE  TypeOK'
  <2> DEFINE p == reg[c].refresh
  <2>1. p \in RefreshTokens
    BY <1>13, <1>b DEF Post, Holding
  <2>2. p.owner \in Sessions /\ p.owner \in Owners /\ p.gen \in 0..MaxGen
    BY <2>1 DEF RefreshTokens, Owners
  <2>3. NewAccess(p.owner) \in AccessTokens
    BY <2>2, IssuedTypes
  <2>4. live' \in [Sessions -> -1..MaxGen]
    BY <1>13, <2>2, BoundsAssumption DEF Post, TypeOK
  <2>5. ASSUME reg' = [reg EXCEPT ![c].access = NewAccess(p.owner)], Goto(c, "cacheMinted")
        PROVE  CallsOK'
    BY <2>3, <2>5, SetAccessType
  <2>6. ASSUME p.gen < MaxGen,
               reg' = [reg EXCEPT ![c].access = NewAccess(p.owner),
                                  ![c].refresh = NewRefresh(p.owner, p.gen + 1)],
               Goto(c, IF reg[c].meta = None THEN "cacheMinted" ELSE "putRefresh")
        PROVE  CallsOK'
    <3>1. p.gen + 1 \in 0..MaxGen
      BY <2>2, <2>6, BoundsAssumption
    <3>2. NewRefresh(p.owner, p.gen + 1) \in RefreshTokens
      BY <2>2, <3>1, IssuedTypes
    <3>3. NewRefresh(p.owner, p.gen + 1) \in Opt(RefreshTokens)
      BY <3>2, OptTypes
    <3> QED
      BY <2>3, <2>6, <3>2, <3>3, SetTokensType
  <2>7. CallsOK'
    <3>1. ASSUME Return(c, Error) PROVE CallsOK'
      BY <3>1, EndType
    <3> QED
      BY <1>13, <2>5, <2>6, <3>1 DEF Post
  <2>8. faults' \in 0..MaxFaults
    BY <1>13, FaultType DEF Post
  <2> QED
    BY <1>13, <2>4, <2>7, <2>8 DEF Post, TypeOK, CallsOK, secrets
<1>14. ASSUME NEW c \in Callers, CacheMinted(c)
      PROVE  TypeOK'
  <2> DEFINE e == [ token |-> reg[c].access, expiresAt |-> now + AccessLife,
                    label |-> IF reg[c].meta = None THEN None ELSE reg[c].meta.label ]
  <2>1. e \in CacheEntries
    <3>1. reg[c].access \in AccessTokens
      BY <1>14, <1>b DEF CacheMinted, WithAccess
    <3>2. reg[c].meta # None => reg[c].meta.label \in Opt(Owners)
      BY <1>b, <1>c, MetadataFields
    <3> QED
      BY <3>1, <3>2, TimeTypes, OptTypes DEF CacheEntries
  <2>2. TokenAnswer(e, None) \in Answers
    BY <1>b, <1>c, <2>1, AnswerTypes, OptTypes
  <2>3. cache' \in [CacheKeys -> Opt(CacheEntries)]
    BY <1>14, <1>a, <2>1, OptTypes DEF CacheMinted, CacheKeys
  <2>4. CallsOK'
    BY <1>14, <2>2, ReturnType DEF CacheMinted
  <2>5. faults' \in 0..MaxFaults
    BY <1>14, FaultType DEF CacheMinted
  <2> QED
    BY <1>14, <2>3, <2>4, <2>5 DEF CacheMinted, TypeOK, CallsOK, world
\* storeCredentials.
<1>15. ASSUME NEW c \in Callers, PutRefresh(c)
      PROVE  TypeOK'
  <2>1. reg[c].access \in AccessTokens
    BY <1>15, <1>b DEF PutRefresh, WithAccess, Storing
  <2>2. ASSUME Goto(c, "putAccess"), UNCHANGED reg PROVE CallsOK'
    <3>1. "putAccess" \in Labels /\ Defined("putAccess", reg[c])
      BY <2>1, LabelFacts
    <3> QED
      BY <2>2, <3>1, KeepType
  <2>3. refresh' \in Opt(RefreshTokens)
    BY <1>15, <1>a, <1>b DEF PutRefresh
  <2>4. CallsOK'
    BY <1>15, <2>1, <2>2, StoreFailedType DEF PutRefresh
  <2>5. faults' \in 0..MaxFaults
    BY <1>15, <2>1, FaultType, StoreFailedType DEF PutRefresh
  <2> QED
    BY <1>15, <2>3, <2>4, <2>5 DEF PutRefresh, TypeOK, CallsOK, world
<1>16. ASSUME NEW c \in Callers, PutAccess(c)
      PROVE  TypeOK'
  <2>1. reg[c].access \in AccessTokens
    BY <1>16, <1>b DEF PutAccess, WithAccess, Storing
  <2>2. ASSUME Goto(c, "putMeta"), UNCHANGED reg PROVE CallsOK'
    <3>1. "putMeta" \in Labels /\ Defined("putMeta", reg[c])
      BY <2>1, LabelFacts
    <3> QED
      BY <2>2, <3>1, KeepType
  <2>3. access' \in Opt(AccessTokens)
    BY <1>16, <1>a, <1>b DEF PutAccess
  <2>4. CallsOK'
    BY <1>16, <2>1, <2>2, StoreFailedType DEF PutAccess
  <2>5. faults' \in 0..MaxFaults
    BY <1>16, <2>1, FaultType, StoreFailedType DEF PutAccess
  <2> QED
    BY <1>16, <2>3, <2>4, <2>5 DEF PutAccess, TypeOK, CallsOK, world
<1>17. ASSUME NEW c \in Callers, PutMeta(c)
      PROVE  TypeOK'
  <2>1. reg[c].access \in AccessTokens
    BY <1>17, <1>b DEF PutMeta, WithAccess, Storing
  <2>2. SessionID(c) \in Opt(Owners) /\ reg[c].access.owner \in Owners
    <3>1. reg[c].access.owner \in Owners
      BY <2>1 DEF AccessTokens
    <3>2. reg[c].meta # None => reg[c].meta.label \in Opt(Owners)
      BY <1>b, <1>c, MetadataFields
    <3> QED
      BY <3>1, <3>2, OptTypes DEF SessionID
  <2>3. ASSUME Goto(c, "putCache"), UNCHANGED reg PROVE CallsOK'
    <3>1. "putCache" \in Labels /\ Defined("putCache", reg[c])
      BY <2>1, LabelFacts
    <3> QED
      BY <2>3, <3>1, KeepType
  <2>4. metadata' \in Opt(MetadataRecords)
    <3> DEFINE Record(u) == [ user |-> u, label |-> SessionID(c), client |-> TRUE,
                              rexp |-> IF reg[c].refresh = None THEN Far
                                       ELSE now + RefreshLife ]
    <3>1. ASSUME NEW u \in Opt(Owners) PROVE Record(u) \in MetadataRecords
      BY <2>2, TimeTypes DEF MetadataRecords
    <3>2. Record(None) \in MetadataRecords /\ Record(reg[c].access.owner) \in MetadataRecords
      BY <2>2, <3>1, OptTypes
    <3> QED
      BY <1>17, <1>a, <3>2, OptTypes DEF PutMeta
  <2>5. session' \in Opt(Owners)
    BY <1>17, <2>2, OptTypes DEF PutMeta, TypeOK
  <2>6. CallsOK'
    BY <1>17, <2>1, <2>3, StoreFailedType DEF PutMeta
  <2>7. faults' \in 0..MaxFaults
    BY <1>17, <2>1, FaultType, StoreFailedType DEF PutMeta
  <2> QED
    BY <1>17, <2>4, <2>5, <2>6, <2>7 DEF PutMeta, TypeOK, CallsOK, world
<1>18. ASSUME NEW c \in Callers, PutCache(c)
      PROVE  TypeOK'
  <2>1. reg[c].access \in AccessTokens
    BY <1>18, <1>b DEF PutCache, WithAccess, Storing
  <2>2. SessionID(c) \in Opt(Owners) /\ reg[c].access.owner \in Owners
    <3>1. reg[c].access.owner \in Owners
      BY <2>1 DEF AccessTokens
    <3>2. reg[c].meta # None => reg[c].meta.label \in Opt(Owners)
      BY <1>b, <1>c, MetadataFields
    <3> QED
      BY <3>1, <3>2, OptTypes DEF SessionID
  <2>3. ASSUME Goto(c, "cacheMinted"), UNCHANGED reg PROVE CallsOK'
    <3>1. "cacheMinted" \in Labels /\ Defined("cacheMinted", reg[c])
      BY <2>1, LabelFacts
    <3> QED
      BY <2>3, <3>1, KeepType
  <2>4. cache' \in [CacheKeys -> Opt(CacheEntries)]
    <3> DEFINE e == [ token |-> reg[c].access, label |-> SessionID(c),
                      expiresAt |-> IF reg[c].refresh = None THEN Far ELSE now + AccessLife ]
    <3>1. e \in CacheEntries
      BY <2>1, <2>2, TimeTypes DEF CacheEntries
    <3> QED
      BY <1>18, <1>a, <3>1, OptTypes DEF PutCache, CacheKeys
  <2>5. CallsOK'
    BY <1>18, <2>3, EndType DEF PutCache
  <2>6. faults' \in 0..MaxFaults
    BY <1>18, FaultType DEF PutCache
  <2> QED
    BY <1>18, <2>4, <2>5, <2>6 DEF PutCache, TypeOK, CallsOK, world
\* appLogin.
<1>19. ASSUME NEW c \in Callers, AppCache(c)
      PROVE  TypeOK'
  <2>1. reg[c].access \in AccessTokens
    BY <1>19, <1>b DEF AppCache, WithAccess
  <2>2. ASSUME Goto(c, "appAccess"), UNCHANGED reg PROVE CallsOK'
    <3>1. "appAccess" \in Labels /\ Defined("appAccess", reg[c])
      BY <2>1, LabelFacts
    <3> QED
      BY <2>2, <3>1, KeepType
  <2>3. cache' \in [CacheKeys -> Opt(CacheEntries)]
    <3> DEFINE e == [token |-> reg[c].access, expiresAt |-> reg[c].access.exp, label |-> None]
    <3>1. e \in CacheEntries
      BY <2>1, OptTypes DEF CacheEntries, AccessTokens
    <3> QED
      BY <1>19, <1>a, <3>1, OptTypes DEF AppCache, CacheKeys
  <2>4. CallsOK'
    BY <1>19, <2>2 DEF AppCache
  <2>5. faults' \in 0..MaxFaults
    BY <1>19, FaultType DEF AppCache
  <2> QED
    BY <1>19, <2>3, <2>4, <2>5 DEF AppCache, TypeOK, CallsOK, world
<1>20. ASSUME NEW c \in Callers, AppAccess(c)
      PROVE  TypeOK'
  <2>1. reg[c].access \in AccessTokens
    BY <1>20, <1>b DEF AppAccess, WithAccess
  <2>2. ASSUME Goto(c, "appMeta"), UNCHANGED reg PROVE CallsOK'
    <3>1. "appMeta" \in Labels /\ Defined("appMeta", reg[c])
      BY <2>1, LabelFacts
    <3> QED
      BY <2>2, <3>1, KeepType
  <2>3. access' \in Opt(AccessTokens)
    BY <1>20, <1>a, <1>b DEF AppAccess
  <2>4. CallsOK'
    BY <1>20, <2>2, EndType DEF AppAccess
  <2>5. faults' \in 0..MaxFaults
    BY <1>20, FaultType DEF AppAccess
  <2> QED
    BY <1>20, <2>3, <2>4, <2>5 DEF AppAccess, TypeOK, CallsOK, world
<1>21. ASSUME NEW c \in Callers, AppMeta(c)
      PROVE  TypeOK'
  <2>1. App \in Opt(Owners)
    BY DEF Opt, Owners
  <2>2. metadata' \in Opt(MetadataRecords) /\ session' \in Opt(Owners)
    <3>1. [user |-> App, label |-> None, client |-> FALSE, rexp |-> Far] \in MetadataRecords
      BY <2>1, TimeTypes, OptTypes DEF MetadataRecords
    <3> QED
      BY <1>21, <1>a, <2>1, <3>1, OptTypes DEF AppMeta, TypeOK
  <2>3. CallsOK'
    BY <1>21, EndType DEF AppMeta
  <2>4. faults' \in 0..MaxFaults
    BY <1>21, FaultType DEF AppMeta
  <2> QED
    BY <1>21, <2>2, <2>3, <2>4 DEF AppMeta, TypeOK, CallsOK, world
\* getPATToken.
<1>22. ASSUME NEW c \in Callers, PatCacheGet(c)
      PROVE  TypeOK'
  <2>1. reg[c].pat \in Pats
    BY <1>22, <1>b DEF PatCacheGet, WithPat
  <2>2. ASSUME cache["pat"] # None, Return(c, TokenAnswer(cache["pat"], reg[c].pat))
        PROVE  CallsOK'
    <3>1. cache["pat"] \in CacheEntries /\ reg[c].pat \in Opt(Pats)
      BY <1>a, <1>b, <1>c, <2>2 DEF CacheKeys
    <3>2. TokenAnswer(cache["pat"], reg[c].pat) \in Answers
      BY <3>1, AnswerTypes
    <3> QED
      BY <2>2, <3>2, ReturnType
  <2>3. ASSUME Goto(c, "patValidate"), UNCHANGED reg PROVE CallsOK'
    <3>1. "patValidate" \in Labels /\ Defined("patValidate", reg[c])
      BY <2>1, LabelFacts
    <3> QED
      BY <2>3, <3>1, KeepType
  <2>4. CallsOK'
    BY <1>22, <2>2, <2>3 DEF PatCacheGet
  <2>5. faults' \in 0..MaxFaults
    BY <1>22, FaultType DEF PatCacheGet
  <2> QED
    BY <1>22, <2>4, <2>5 DEF PatCacheGet, TypeOK, CallsOK, secrets, world
<1>23. ASSUME NEW c \in Callers, PatValidate(c)
      PROVE  TypeOK'
  <2>1. reg[c].pat \in Pats
    BY <1>23, <1>b DEF PatValidate, WithPat
  <2>2. ASSUME Goto(c, "patCache"), UNCHANGED reg PROVE CallsOK'
    <3>1. "patCache" \in Labels /\ Defined("patCache", reg[c])
      BY <2>1, LabelFacts
    <3> QED
      BY <2>2, <3>1, KeepType
  <2>3. CallsOK'
    BY <1>23, <2>2, EndType DEF PatValidate
  <2>4. faults' \in 0..MaxFaults
    BY <1>23, FaultType DEF PatValidate
  <2> QED
    BY <1>23, <2>3, <2>4 DEF PatValidate, TypeOK, CallsOK, secrets, world
<1>24. ASSUME NEW c \in Callers, PatCache(c)
      PROVE  TypeOK'
  <2> DEFINE e == StoredEntry([owner |-> reg[c].pat, exp |-> Far])
  <2>1. e \in CacheEntries
    <3>1. reg[c].pat \in Owners
      BY <1>24, <1>b DEF PatCache, WithPat, Owners
    <3>2. [owner |-> reg[c].pat, exp |-> Far] \in AccessTokens
      BY <3>1, IssuedTypes
    <3> QED
      BY <3>2, TimeTypes, OptTypes DEF StoredEntry, CacheEntries
  <2>2. TokenAnswer(e, reg[c].pat) \in Answers
    BY <1>b, <1>c, <2>1, AnswerTypes, OptTypes
  <2>3. cache' \in [CacheKeys -> Opt(CacheEntries)]
    BY <1>24, <1>a, <2>1, OptTypes DEF PatCache, CacheKeys
  <2>4. CallsOK'
    BY <1>24, <2>2, ReturnType DEF PatCache
  <2>5. faults' \in 0..MaxFaults
    BY <1>24, FaultType DEF PatCache
  <2> QED
    BY <1>24, <2>3, <2>4, <2>5 DEF PatCache, TypeOK, CallsOK, world
\* logoutInternal.
<1>25. ASSUME NEW c \in Callers, ListClear(c)
      PROVE  TypeOK'
  <2>1. ASSUME reg' = [reg EXCEPT ![c].keys = Cached], Goto(c, "clear") PROVE CallsOK'
    BY <1>a, <2>1, SetKeysType
  <2>2. CallsOK'
    BY <1>25, <2>1, FreeType DEF ListClear
  <2>3. faults' \in 0..MaxFaults
    BY <1>25, FaultType DEF ListClear
  <2> QED
    BY <1>25, <2>2, <2>3 DEF ListClear, TypeOK, CallsOK, secrets, world
<1>26. ASSUME NEW c \in Callers, Clear(c)
      PROVE  TypeOK'
  <2>1. ASSUME NEW k \in reg[c].keys, reg' = [reg EXCEPT ![c].keys = @ \ {k}],
               UNCHANGED <<pc, out>>
        PROVE  CallsOK'
    <3>1. reg[c].keys \ {k} \in SUBSET CacheKeys
      BY <1>b
    <3>2. reg' = [reg EXCEPT ![c].keys = reg[c].keys \ {k}]
      BY <2>1 DEF TypeOK
    <3> QED
      BY <1>26, <2>1, <3>1, <3>2, SetKeysType DEF Clear
  <2>2. cache' \in [CacheKeys -> Opt(CacheEntries)]
    BY <1>26, <1>a, <1>b, OptTypes DEF Clear
  <2>3. CallsOK'
    BY <1>26, <2>1, FreeType DEF Clear
  <2>4. faults' \in 0..MaxFaults
    BY <1>26, FaultType DEF Clear
  <2> QED
    BY <1>26, <2>2, <2>3, <2>4 DEF Clear, TypeOK, CallsOK, world
<1>27. ASSUME NEW c \in Callers, DelRefresh(c)
      PROVE  TypeOK'
  <2>1. refresh' \in Opt(RefreshTokens)
    BY <1>27, <1>a, OptTypes DEF DelRefresh
  <2>2. CallsOK'
    BY <1>27, FreeType DEF DelRefresh
  <2>3. faults' \in 0..MaxFaults
    BY <1>27, FaultType DEF DelRefresh
  <2> QED
    BY <1>27, <2>1, <2>2, <2>3 DEF DelRefresh, TypeOK, CallsOK, world
<1>28. ASSUME NEW c \in Callers, DelAccess(c)
      PROVE  TypeOK'
  <2>1. access' \in Opt(AccessTokens)
    BY <1>28, <1>a, OptTypes DEF DelAccess
  <2>2. CallsOK'
    BY <1>28, FreeType DEF DelAccess
  <2>3. faults' \in 0..MaxFaults
    BY <1>28, FaultType DEF DelAccess
  <2> QED
    BY <1>28, <2>1, <2>2, <2>3 DEF DelAccess, TypeOK, CallsOK, world
<1>29. ASSUME NEW c \in Callers, DelMeta(c)
      PROVE  TypeOK'
  <2>1. metadata' \in Opt(MetadataRecords) /\ session' \in Opt(Owners)
    BY <1>29, <1>a, OptTypes DEF DelMeta
  <2>2. CallsOK'
    BY <1>29, EndType DEF DelMeta
  <2>3. faults' \in 0..MaxFaults
    BY <1>29, FaultType DEF DelMeta
  <2> QED
    BY <1>29, <2>1, <2>2, <2>3 DEF DelMeta, TypeOK, CallsOK, world
\* PurgeExpiredTokens.
<1>30. ASSUME NEW c \in Callers, ListPurge(c)
      PROVE  TypeOK'
  <2>1. ASSUME reg' = [reg EXCEPT ![c].keys = Cached], Goto(c, "purgeGet") PROVE CallsOK'
    BY <1>a, <2>1, SetKeysType
  <2>2. CallsOK'
    BY <1>30, <2>1, EndType DEF ListPurge
  <2>3. faults' \in 0..MaxFaults
    BY <1>30, FaultType DEF ListPurge
  <2> QED
    BY <1>30, <2>2, <2>3 DEF ListPurge, TypeOK, CallsOK, secrets, world
<1>31. ASSUME NEW c \in Callers, PurgeGet(c)
      PROVE  TypeOK'
  <2>1. ASSUME NEW k \in reg[c].keys, reg' = [reg EXCEPT ![c].keys = @ \ {k}],
               UNCHANGED <<pc, out>>
        PROVE  CallsOK'
    <3>1. reg[c].keys \ {k} \in SUBSET CacheKeys
      BY <1>b
    <3>2. reg' = [reg EXCEPT ![c].keys = reg[c].keys \ {k}]
      BY <2>1 DEF TypeOK
    <3> QED
      BY <1>31, <2>1, <3>1, <3>2, SetKeysType DEF PurgeGet
  <2>2. ASSUME NEW k \in reg[c].keys, Goto(c, "purgeDelete"),
               reg' = [reg EXCEPT ![c].keys = @ \ {k}, ![c].key = k]
        PROVE  CallsOK'
    <3>1. reg[c].keys \ {k} \in SUBSET CacheKeys /\ k \in CacheKeys
      BY <1>b
    <3>2. reg' = [reg EXCEPT ![c].keys = reg[c].keys \ {k}, ![c].key = k]
      BY <2>2 DEF TypeOK
    <3> QED
      BY <2>2, <3>1, <3>2, SetKeyType
  <2>3. CallsOK'
    BY <1>31, <2>1, <2>2, EndType DEF PurgeGet
  <2>4. faults' \in 0..MaxFaults
    BY <1>31, FaultType DEF PurgeGet
  <2> QED
    BY <1>31, <2>3, <2>4 DEF PurgeGet, TypeOK, CallsOK, secrets, world
<1>32. ASSUME NEW c \in Callers, PurgeDelete(c)
      PROVE  TypeOK'
  <2>1. cache' \in [CacheKeys -> Opt(CacheEntries)]
    BY <1>32, <1>a, <1>b, OptTypes DEF PurgeDelete
  <2>2. CallsOK'
    BY <1>32, ResetKeyType DEF PurgeDelete
  <2>3. faults' \in 0..MaxFaults
    BY <1>32, FaultType DEF PurgeDelete
  <2> QED
    BY <1>32, <2>1, <2>2, <2>3 DEF PurgeDelete, TypeOK, CallsOK, world
\* GetStatus.
<1>33. ASSUME NEW c \in Callers, PatStatus(c)
      PROVE  TypeOK'
  <2>1. reg[c].pat \in Opt(Owners) /\ None \in Opt(Owners)
    BY <1>b DEF Opt, Owners
  <2>2. ASSUME Return(c, StatusAnswer(TRUE, FALSE, reg[c].pat)) PROVE CallsOK'
    <3>1. StatusAnswer(TRUE, FALSE, reg[c].pat) \in Answers
      BY <2>1, AnswerTypes
    <3> QED
      BY <2>2, <3>1, ReturnType
  <2>3. CallsOK'
    BY <1>33, <2>2, EndType DEF PatStatus
  <2>4. faults' \in 0..MaxFaults
    BY <1>33, FaultType DEF PatStatus
  <2> QED
    BY <1>33, <2>3, <2>4 DEF PatStatus, TypeOK, CallsOK, secrets, world
<1>34. ASSUME NEW c \in Callers, HasRefresh(c)
      PROVE  TypeOK'
  <2>1. (refresh # None) \in BOOLEAN
    OBVIOUS
  <2>2. ASSUME reg' = [reg EXCEPT ![c].found = (refresh # None)] PROVE CallsOK'
    BY <1>34, <2>1, <2>2, SetFoundType DEF HasRefresh
  <2>3. CallsOK'
    BY <1>34, <2>2, FreeType DEF HasRefresh
  <2>4. faults' \in 0..MaxFaults
    BY <1>34, FaultType DEF HasRefresh
  <2> QED
    BY <1>34, <2>3, <2>4 DEF HasRefresh, TypeOK, CallsOK, secrets, world
<1>35. ASSUME NEW c \in Callers, HasAccess(c)
      PROVE  TypeOK'
  <2>1. CallsOK'
    BY <1>35, FreeType, EndType DEF HasAccess
  <2>2. faults' \in 0..MaxFaults
    BY <1>35, FaultType DEF HasAccess
  <2> QED
    BY <1>35, <2>1, <2>2 DEF HasAccess, TypeOK, CallsOK, secrets, world
<1>36. ASSUME NEW c \in Callers, StatusMeta(c)
      PROVE  TypeOK'
  <2> DEFINE expired == now > metadata.rexp
  <2>1. ASSUME metadata # None, Return(c, StatusAnswer(~expired, expired, metadata.user))
        PROVE  CallsOK'
    <3>1. metadata.user \in Opt(Owners) /\ expired \in BOOLEAN /\ (~expired) \in BOOLEAN
      BY <1>a, <1>c, <2>1, MetadataFields
    <3>2. StatusAnswer(~expired, expired, metadata.user) \in Answers
      BY <3>1, AnswerTypes
    <3> QED
      BY <2>1, <3>2, ReturnType
  <2>2. CallsOK'
    BY <1>36, <2>1, EndType DEF StatusMeta
  <2>3. faults' \in 0..MaxFaults
    BY <1>36, FaultType DEF StatusMeta
  <2> QED
    BY <1>36, <2>2, <2>3 DEF StatusMeta, TypeOK, CallsOK, secrets, world
\* ListCachedTokens.
<1>37. ASSUME NEW c \in Callers, ListRefresh(c)
      PROVE  TypeOK'
  <2>1. ASSUME refresh # None, reg' = [reg EXCEPT ![c].infos = {Info("refresh", refresh)}]
        PROVE  CallsOK'
    <3>1. {Info("refresh", refresh)} \in SUBSET Infos
      BY <1>a, <1>c, <2>1, InfoTypes
    <3> QED
      BY <1>37, <2>1, <3>1, SetInfosType DEF ListRefresh
  <2>2. CallsOK'
    BY <1>37, <2>1, FreeType DEF ListRefresh
  <2>3. faults' \in 0..MaxFaults
    BY <1>37, FaultType DEF ListRefresh
  <2> QED
    BY <1>37, <2>2, <2>3 DEF ListRefresh, TypeOK, CallsOK, secrets, world
<1>38. ASSUME NEW c \in Callers, ListKeys(c)
      PROVE  TypeOK'
  <2>1. ASSUME reg' = [reg EXCEPT ![c].keys = Cached], Goto(c, "listEntry") PROVE CallsOK'
    BY <1>a, <2>1, SetKeysType
  <2>2. CallsOK'
    BY <1>38, <2>1, FreeType DEF ListKeys
  <2>3. faults' \in 0..MaxFaults
    BY <1>38, FaultType DEF ListKeys
  <2> QED
    BY <1>38, <2>2, <2>3 DEF ListKeys, TypeOK, CallsOK, secrets, world
<1>39. ASSUME NEW c \in Callers, ListEntry(c)
      PROVE  TypeOK'
  <2>1. ASSUME NEW k \in reg[c].keys, reg' = [reg EXCEPT ![c].keys = @ \ {k}],
               UNCHANGED <<pc, out>>
        PROVE  CallsOK'
    <3>1. reg[c].keys \ {k} \in SUBSET CacheKeys
      BY <1>b
    <3>2. reg' = [reg EXCEPT ![c].keys = reg[c].keys \ {k}]
      BY <2>1 DEF TypeOK
    <3> QED
      BY <1>39, <2>1, <3>1, <3>2, SetKeysType DEF ListEntry
  <2>2. ASSUME NEW k \in reg[c].keys, cache[k] # None, UNCHANGED <<pc, out>>,
               reg' = [reg EXCEPT ![c].keys = @ \ {k},
                                  ![c].infos = @ \cup {Info(k, cache[k].token)}]
        PROVE  CallsOK'
    <3> DEFINE infos == reg[c].infos \cup {Info(k, cache[k].token)}
    <3>1. reg[c].keys \ {k} \in SUBSET CacheKeys /\ k \in CacheKeys
      BY <1>b
    <3>2. cache[k] \in CacheEntries
      BY <1>a, <1>c, <2>2, <3>1
    <3>3. cache[k].token \in AccessTokens
      BY <3>2 DEF CacheEntries
    <3>4. infos \in SUBSET Infos
      BY <1>b, <3>1, <3>3, InfoTypes
    <3>5. reg' = [reg EXCEPT ![c].keys = reg[c].keys \ {k}, ![c].infos = infos]
      BY <2>2 DEF TypeOK
    <3> HIDE DEF infos
    <3> QED
      BY <1>39, <2>2, <3>1, <3>4, <3>5, AddInfoType DEF ListEntry
  <2>3. CallsOK'
    BY <1>39, <2>1, <2>2, FreeType DEF ListEntry
  <2>4. faults' \in 0..MaxFaults
    BY <1>39, FaultType DEF ListEntry
  <2> QED
    BY <1>39, <2>3, <2>4 DEF ListEntry, TypeOK, CallsOK, secrets, world
<1>40. ASSUME NEW c \in Callers, ListAccess(c)
      PROVE  TypeOK'
  <2>1. reg[c].infos \in SUBSET Infos
    BY <1>b
  <2>2. ASSUME access # None, reg' = [reg EXCEPT ![c].access = access], Goto(c, "listDirect")
        PROVE  CallsOK'
    BY <1>a, <1>c, <2>2, SetAccessType
  <2>3. CallsOK'
    BY <1>40, <2>1, <2>2, ListedType DEF ListAccess
  <2>4. faults' \in 0..MaxFaults
    BY <1>40, FaultType DEF ListAccess
  <2> QED
    BY <1>40, <2>3, <2>4 DEF ListAccess, TypeOK, CallsOK, secrets, world
<1>41. ASSUME NEW c \in Callers, ListDirect(c)
      PROVE  TypeOK'
  <2>1. pc[c] = "listDirect" /\ reg[c].infos \in SUBSET Infos
    BY <1>b, <1>41 DEF ListDirect
  <2>2. reg[c].access \in AccessTokens
    BY <1>b, <2>1 DEF WithAccess
  <2>3. reg[c].infos \cup {Info("direct", reg[c].access)} \in SUBSET Infos
    BY <2>1, <2>2, InfoTypes
  <2>4. CallsOK'
    BY <1>41, <2>1, <2>3, ListedType DEF ListDirect
  <2>5. faults' \in 0..MaxFaults
    BY <1>41, FaultType DEF ListDirect
  <2> QED
    BY <1>41, <2>4, <2>5 DEF ListDirect, TypeOK, CallsOK, secrets, world
\* The environment.
<1>42. ASSUME NEW c \in Callers, Crash(c)
      PROVE  TypeOK'
  <2>1. CallsOK'
    BY <1>42, EndType DEF Crash
  <2>2. faults' \in 0..MaxFaults
    BY <1>42, FaultType DEF Crash
  <2> QED
    BY <1>42, <2>1, <2>2 DEF Crash, TypeOK, CallsOK, secrets, world
<1>43. CASE Tick
  BY <1>43, BoundsAssumption DEF Tick, TypeOK, secrets
<1>44. CASE UNCHANGED vars
  BY <1>44 DEF vars, secrets, world, TypeOK
<1>45. ASSUME NEW c \in Callers, Call(c) PROVE TypeOK'
  BY <1>45, <1>1, <1>2, <1>6, <1>3, <1>4, <1>5, <1>5a DEF Call
<1>46. ASSUME NEW c \in Callers, Step(c) PROVE TypeOK'
  BY <1>46, <1>7, <1>8, <1>9, <1>10, <1>11, <1>12, <1>13, <1>14, <1>15, <1>16,
       <1>17, <1>18, <1>19, <1>20, <1>21, <1>22, <1>23, <1>24, <1>25, <1>26, <1>27,
       <1>28, <1>29, <1>30, <1>31, <1>32, <1>33, <1>34, <1>35, <1>36, <1>37, <1>38, <1>39, <1>40,
       <1>41 DEF Step
<1> QED
  BY <1>42, <1>43, <1>44, <1>45, <1>46 DEF Next

\* The secrets, the calls and their answers keep their types: no step uses a
\* token, a key or a PAT it has not read before, in any interleaving of the
\* calls of cli_mode.go, token.go, cache.go, pat.go and app_flow.go.
THEOREM TypeCorrect == Spec => []TypeOK
<1> QED
  BY TypeInit, TypeNext, PTL DEF Spec

-----------------------------------------------------------------------------
\* Rotation.  RotationInv is inductive: what a step does to it depends only on
\* where it leaves the call, on the stored refresh token and on GitHub.

\* A step of c changes nothing of the other calls.
Alone(c) == \A d \in Callers \ {c} : pc'[d] = pc[d] /\ reg'[d] = reg[d]

\* A step after which c holds no refresh token.
Leaves(c) ==
    /\ Alone(c)
    /\ pc'[c] \notin Holding
    /\ UNCHANGED live /\ refresh' \in {refresh, None}

\* A step after which c holds the stored refresh token, or the one it held.
Holds(c) ==
    /\ Alone(c)
    /\ pc'[c] \in Holding \ {"putRefresh"}
    /\ \/ refresh # None /\ reg'[c].refresh = refresh
       \/ pc[c] \in Holding /\ reg'[c].refresh = reg[c].refresh
    /\ UNCHANGED <<live, refresh>>

\* The refresh tokens of the calls and of the store, as the arithmetic needs them.
LEMMA HeldTypes ==
    ASSUME TypeOK
    PROVE  /\ \A s \in Sessions : live[s] \in Int
           /\ refresh # None => refresh.owner \in Sessions /\ refresh.gen \in Nat
           /\ \A c \in Callers : pc[c] \in Holding =>
                reg[c].refresh.owner \in Sessions /\ reg[c].refresh.gen \in Nat
<1>1. refresh # None => refresh \in RefreshTokens
  BY DEF TypeOK, Opt
<1>2. \A c \in Callers : pc[c] \in Holding => reg[c].refresh \in RefreshTokens
  BY DEF TypeOK, Defined
<1>3. \A r \in RefreshTokens : r.owner \in Sessions /\ r.gen \in Nat
  BY BoundsAssumption DEF RefreshTokens
<1> QED
  BY <1>1, <1>2, <1>3, BoundsAssumption DEF TypeOK

LEMMA Leaving ==
    ASSUME TypeOK, RotationInv, NEW c \in Callers, Leaves(c)
    PROVE  RotationInv'
  BY DEF Leaves, Alone, RotationInv, Exclusive, At, Holding

LEMMA Keeping ==
    ASSUME TypeOK, RotationInv, NEW c \in Callers, Holds(c)
    PROVE  RotationInv'
<1>1. (refresh # None => refresh.gen <= live[refresh.owner])'
  BY DEF Holds, RotationInv
<1>2. \A d \in Callers : (pc[d] \in Holding =>
        reg[d].refresh.gen <= live[reg[d].refresh.owner])'
  BY DEF Holds, Alone, RotationInv
<1>3. ASSUME NEW d \in Callers, At(d, "putRefresh")'
      PROVE  (reg[d].refresh.gen = live[reg[d].refresh.owner] /\ Exclusive(d))'
  <2>1. d # c /\ At(d, "putRefresh") /\ reg'[d] = reg[d]
    BY <1>3 DEF Holds, Alone, At
  <2>2. reg[d].refresh.gen = live[reg[d].refresh.owner] /\ Exclusive(d)
    BY <2>1 DEF RotationInv
  <2> QED
    BY <2>1, <2>2 DEF Holds, Alone, Exclusive
<1> QED
  BY <1>1, <1>2, <1>3 DEF RotationInv

\* GitHub replaces the token c presented: nobody is about to store another
\* token of that session, for c would have held an older one.
LEMMA Rotating ==
    ASSUME TypeOK, RotationInv, NEW c \in Callers, pc[c] = "post", Alone(c),
           UNCHANGED refresh,
           reg[c].refresh.gen = live[reg[c].refresh.owner],
           live' = [live EXCEPT ![reg[c].refresh.owner] = reg[c].refresh.gen + 1],
           \/ pc'[c] \notin Holding
           \/ /\ pc'[c] = "putRefresh"
              /\ reg'[c].refresh.owner = reg[c].refresh.owner
              /\ reg'[c].refresh.gen = reg[c].refresh.gen + 1
    PROVE  RotationInv'
<1> DEFINE p == reg[c].refresh
<1>0. /\ p.owner \in Sessions /\ p.gen \in Nat
      /\ live'[p.owner] = p.gen + 1
      /\ \A s \in Sessions : s # p.owner => live'[s] = live[s]
  BY HeldTypes DEF TypeOK, Holding
<1>1. (refresh # None => refresh.gen <= live[refresh.owner])'
  BY <1>0, HeldTypes DEF RotationInv
<1>2. ASSUME NEW d \in Callers, (pc[d] \in Holding)'
      PROVE  (reg[d].refresh.gen <= live[reg[d].refresh.owner])'
  BY <1>0, <1>2, HeldTypes DEF Alone, RotationInv
<1>3. ASSUME NEW d \in Callers \ {c}, pc[d] = "putRefresh"
      PROVE  reg[d].refresh.owner # p.owner
  BY <1>3, HeldTypes DEF RotationInv, Exclusive, At, Holding
<1>4. ASSUME NEW d \in Callers, At(d, "putRefresh")'
      PROVE  (reg[d].refresh.gen = live[reg[d].refresh.owner] /\ Exclusive(d))'
  <2>1. CASE d = c
    <3>1. reg'[c].refresh.owner = p.owner /\ reg'[c].refresh.gen = p.gen + 1
      BY <1>4, <2>1 DEF At, Holding
    <3>2. refresh # None /\ refresh.owner = p.owner => refresh.gen < p.gen + 1
      BY <1>0, HeldTypes DEF RotationInv
    <3>3. ASSUME NEW e \in Callers \ {c}, pc'[e] \in Holding,
                 reg'[e].refresh.owner = p.owner
          PROVE  reg'[e].refresh.gen < p.gen + 1
      BY <1>0, <3>3, HeldTypes DEF Alone, RotationInv
    <3> QED
      BY <1>0, <2>1, <3>1, <3>2, <3>3 DEF Exclusive
  <2>2. CASE d # c
    <3> DEFINE q == reg[d].refresh
    <3>1. pc[d] = "putRefresh" /\ reg'[d] = reg[d] /\ q.owner # p.owner
      BY <1>3, <1>4, <2>2 DEF Alone, At
    <3>2. q.owner \in Sessions /\ q.gen = live[q.owner] /\ Exclusive(d)
      BY <3>1, HeldTypes DEF RotationInv, At, Holding
    <3>3. ASSUME NEW e \in Callers \ {d}, pc'[e] \in Holding,
                 reg'[e].refresh.owner = q.owner
          PROVE  reg'[e].refresh.gen < q.gen
      BY <3>1, <3>2, <3>3 DEF Alone, Exclusive, Holding
    <3> QED
      BY <1>0, <3>1, <3>2, <3>3 DEF Exclusive
  <2> QED
    BY <2>1, <2>2
<1> QED
  BY <1>1, <1>2, <1>4 DEF RotationInv

\* A login is the first to have a token of its session.
LEMMA Beginning ==
    ASSUME TypeOK, RotationInv, NEW c \in Callers, NEW s \in Sessions,
           NEW expiring \in BOOLEAN, Login(c, s, expiring)
    PROVE  RotationInv'
<1>0. live[s] = -1 /\ live' = [live EXCEPT ![s] = 0] /\ UNCHANGED refresh
  BY DEF Login, secrets
<1>1. /\ live'[s] = 0
      /\ \A t \in Sessions : t # s => live'[t] = live[t]
      /\ Alone(c)
  BY <1>0 DEF TypeOK, Login, Begin, Alone
<1>2. refresh # None => refresh.owner # s
  BY <1>0, HeldTypes DEF RotationInv
<1>3. ASSUME NEW d \in Callers, pc[d] \in Holding
      PROVE  reg[d].refresh.owner # s
  BY <1>0, <1>3, HeldTypes DEF RotationInv
<1>4. (refresh # None => refresh.gen <= live[refresh.owner])'
  BY <1>0, <1>1, <1>2, HeldTypes DEF RotationInv
<1>5. CASE expiring
  <2>1. pc'[c] = "putRefresh" /\ reg'[c].refresh = NewRefresh(s, 0)
    <3>1. reg[c] \in Registers
      BY DEF TypeOK
    <3>2. \A x, y : [reg[c] EXCEPT !.access = x, !.refresh = y].refresh = y
      BY <3>1 DEF Registers
    <3> QED
      BY <1>5, <3>2 DEF Login, Begin, TypeOK
  <2>2. reg'[c].refresh.owner = s /\ reg'[c].refresh.gen = 0
    BY <2>1 DEF NewRefresh
  <2>3. ASSUME NEW d \in Callers, (pc[d] \in Holding)'
        PROVE  (reg[d].refresh.gen <= live[reg[d].refresh.owner])'
    BY <1>1, <1>3, <2>2, <2>3, HeldTypes DEF Alone, RotationInv
  <2>4. ASSUME NEW d \in Callers, At(d, "putRefresh")'
        PROVE  (reg[d].refresh.gen = live[reg[d].refresh.owner] /\ Exclusive(d))'
    <3>1. CASE d = c
      BY <1>0, <1>1, <1>2, <1>3, <2>2, <3>1 DEF Alone, Exclusive
    <3>2. CASE d # c
      <4>1. At(d, "putRefresh") /\ reg'[d] = reg[d]
        BY <1>1, <2>4, <3>2 DEF Alone, At
      <4>2. /\ reg[d].refresh.owner # s /\ reg[d].refresh.owner \in Sessions
            /\ reg[d].refresh.gen = live[reg[d].refresh.owner] /\ Exclusive(d)
        BY <1>3, <4>1, HeldTypes DEF RotationInv, At, Holding
      <4> QED
        BY <1>0, <1>1, <2>2, <4>1, <4>2 DEF Alone, Exclusive
    <3> QED
      BY <3>1, <3>2
  <2> QED
    BY <1>4, <2>3, <2>4 DEF RotationInv
<1>6. CASE ~expiring
  <2>1. pc'[c] = "putAccess"
    BY <1>6 DEF Login, Begin, TypeOK
  <2>2. ASSUME NEW d \in Callers, (pc[d] \in Holding)'
        PROVE  d # c /\ pc[d] \in Holding /\ reg'[d] = reg[d]
    BY <1>1, <2>1, <2>2 DEF Alone, Holding
  <2>3. ASSUME NEW d \in Callers, (pc[d] \in Holding)'
        PROVE  (reg[d].refresh.gen <= live[reg[d].refresh.owner])'
    BY <1>1, <1>3, <2>2, <2>3, HeldTypes DEF RotationInv
  <2>4. ASSUME NEW d \in Callers, At(d, "putRefresh")'
        PROVE  (reg[d].refresh.gen = live[reg[d].refresh.owner] /\ Exclusive(d))'
    <3>1. At(d, "putRefresh") /\ reg'[d] = reg[d]
      BY <1>1, <2>1, <2>4 DEF Alone, At
    <3>2. /\ reg[d].refresh.owner # s /\ reg[d].refresh.owner \in Sessions
          /\ reg[d].refresh.gen = live[reg[d].refresh.owner] /\ Exclusive(d)
      BY <1>3, <3>1, HeldTypes DEF RotationInv, At, Holding
    <3> QED
      BY <1>0, <1>1, <2>2, <3>1, <3>2 DEF Exclusive
  <2> QED
    BY <1>4, <2>3, <2>4 DEF RotationInv
<1> QED
  BY <1>5, <1>6

\* c stores the successor: no other call is about to store one of that session.
LEMMA Replacing ==
    ASSUME TypeOK, RotationInv, NEW c \in Callers, PutRefresh(c),
           refresh' = reg[c].refresh, Goto(c, "putAccess"), UNCHANGED reg
    PROVE  RotationInv'
<1> DEFINE p == reg[c].refresh
<1>0. /\ UNCHANGED live /\ Alone(c) /\ pc'[c] = "putAccess"
      /\ p.owner \in Sessions /\ p.gen \in Nat
      /\ p.gen = live[p.owner] /\ Exclusive(c)
  BY HeldTypes DEF TypeOK, PutRefresh, world, Goto, Alone, At, Holding, RotationInv
<1>1. (refresh # None => refresh.gen <= live[refresh.owner])'
  BY <1>0, HeldTypes
<1>2. ASSUME NEW d \in Callers, (pc[d] \in Holding)'
      PROVE  d # c /\ pc[d] \in Holding
  BY <1>0, <1>2 DEF Alone, Holding
<1>3. ASSUME NEW d \in Callers, (pc[d] \in Holding)'
      PROVE  (reg[d].refresh.gen <= live[reg[d].refresh.owner])'
  BY <1>0, <1>2, <1>3 DEF RotationInv
<1>4. ASSUME NEW d \in Callers, At(d, "putRefresh")'
      PROVE  (reg[d].refresh.gen = live[reg[d].refresh.owner] /\ Exclusive(d))'
  <2>1. d # c /\ At(d, "putRefresh")
    BY <1>0, <1>4 DEF Alone, At
  <2>2. reg[d].refresh.gen = live[reg[d].refresh.owner] /\ Exclusive(d)
    BY <2>1 DEF RotationInv
  <2>3. reg[d].refresh.owner # p.owner
    BY <1>0, <2>1, <2>2, HeldTypes DEF Exclusive, At, Holding
  <2>4. \A e \in Callers : pc'[e] \in Holding => pc[e] \in Holding
    BY <1>2
  <2> QED
    BY <1>0, <2>2, <2>3, <2>4 DEF Exclusive
<1> QED
  BY <1>1, <1>3, <1>4 DEF RotationInv

LEMMA RotationInit == Init => RotationInv
<1> SUFFICES ASSUME Init PROVE RotationInv
  OBVIOUS
<1>1. \A c \in Callers : pc[c] = "idle"
  BY DEF Init
<1>2. refresh # None => refresh.gen <= live[refresh.owner]
  BY DEF Init, Fresh, Legacy
<1> QED
  BY <1>1, <1>2 DEF RotationInv, At, Holding

\* Which steps leave the call without a refresh token.
LEMMA LeavingActions ==
    ASSUME TypeOK
    PROVE  /\ \A c \in Callers : Call(c) =>
                \/ Leaves(c)
                \/ \E s \in Sessions, expiring \in BOOLEAN : Login(c, s, expiring)
           /\ \A c \in Callers : Step(c) \/ Crash(c) =>
                \/ Leaves(c)
                \/ LoadRefresh(c) \/ LoadMeta(c) \/ RotateMeta(c) \/ Post(c) \/ PutRefresh(c)
<1> USE DEF At, Holding
<1>0. pc \in [Callers -> Labels] /\ reg \in [Callers -> Registers]
  BY DEF TypeOK
\* The calls that begin, except Login.
<1>1. ASSUME NEW c \in Callers, NEW pat \in Opt(Pats), NEW force \in BOOLEAN, GetToken(c, pat, force)
      PROVE  Leaves(c)
  BY <1>0, <1>1 DEF GetToken, Start, Begin, secrets, world, Leaves, Alone
<1>2. ASSUME NEW c \in Callers, NEW pat \in Opt(Pats), GetStatus(c, pat) PROVE Leaves(c)
  BY <1>0, <1>2 DEF GetStatus, Start, Begin, secrets, world, Leaves, Alone
<1>3. ASSUME NEW c \in Callers, AppLogin(c) PROVE Leaves(c)
  BY <1>0, <1>3 DEF AppLogin, Start, Begin, secrets, world, Leaves, Alone
<1>4. ASSUME NEW c \in Callers, Logout(c) PROVE Leaves(c)
  BY <1>0, <1>4 DEF Logout, Start, Begin, secrets, world, Leaves, Alone
<1>5. ASSUME NEW c \in Callers, PurgeExpiredTokens(c) PROVE Leaves(c)
  BY <1>0, <1>5 DEF PurgeExpiredTokens, Start, Begin, secrets, world, Leaves, Alone
<1>5a. ASSUME NEW c \in Callers, ListCachedTokens(c) PROVE Leaves(c)
  BY <1>0, <1>5a DEF ListCachedTokens, Start, Begin, secrets, world, Leaves, Alone
\* The steps that leave the call without a refresh token.
<1>6. ASSUME NEW c \in Callers, CacheGet(c) PROVE Leaves(c)
  BY <1>0, <1>6 DEF CacheGet, Goto, Return, secrets, world, Leaves, Alone
<1>7. ASSUME NEW c \in Callers, LoadAccess(c) PROVE Leaves(c)
  BY <1>0, <1>7 DEF LoadAccess, Goto, Return, secrets, world, Leaves, Alone
<1>8. ASSUME NEW c \in Callers, CacheAccess(c) PROVE Leaves(c)
  BY <1>0, <1>8 DEF CacheAccess, Goto, Return, world, Leaves, Alone
<1>9. ASSUME NEW c \in Callers, CacheMinted(c) PROVE Leaves(c)
  BY <1>0, <1>9 DEF CacheMinted, Goto, Return, world, Leaves, Alone
<1>10. ASSUME NEW c \in Callers, PutAccess(c) PROVE Leaves(c)
  BY <1>0, <1>10 DEF PutAccess, Goto, Return, StoreFailed, world, Leaves, Alone
<1>11. ASSUME NEW c \in Callers, PutMeta(c) PROVE Leaves(c)
  BY <1>0, <1>11 DEF PutMeta, Goto, Return, StoreFailed, world, Leaves, Alone
<1>12. ASSUME NEW c \in Callers, PutCache(c) PROVE Leaves(c)
  BY <1>0, <1>12 DEF PutCache, Goto, Return, world, Leaves, Alone
<1>13. ASSUME NEW c \in Callers, AppCache(c) PROVE Leaves(c)
  BY <1>0, <1>13 DEF AppCache, Goto, Return, world, Leaves, Alone
<1>14. ASSUME NEW c \in Callers, AppAccess(c) PROVE Leaves(c)
  BY <1>0, <1>14 DEF AppAccess, Goto, Return, world, Leaves, Alone
<1>15. ASSUME NEW c \in Callers, AppMeta(c) PROVE Leaves(c)
  BY <1>0, <1>15 DEF AppMeta, Goto, Return, world, Leaves, Alone
<1>16. ASSUME NEW c \in Callers, PatCacheGet(c) PROVE Leaves(c)
  BY <1>0, <1>16 DEF PatCacheGet, Goto, Return, secrets, world, Leaves, Alone
<1>17. ASSUME NEW c \in Callers, PatValidate(c) PROVE Leaves(c)
  BY <1>0, <1>17 DEF PatValidate, Goto, Return, secrets, world, Leaves, Alone
<1>18. ASSUME NEW c \in Callers, PatCache(c) PROVE Leaves(c)
  BY <1>0, <1>18 DEF PatCache, Goto, Return, world, Leaves, Alone
<1>19. ASSUME NEW c \in Callers, ListClear(c) PROVE Leaves(c)
  BY <1>0, <1>19 DEF ListClear, Goto, Return, secrets, world, Leaves, Alone
<1>20. ASSUME NEW c \in Callers, Clear(c) PROVE Leaves(c)
  BY <1>0, <1>20 DEF Clear, Goto, Return, world, Leaves, Alone
<1>21. ASSUME NEW c \in Callers, DelRefresh(c) PROVE Leaves(c)
  BY <1>0, <1>21 DEF DelRefresh, Goto, Return, world, Leaves, Alone
<1>22. ASSUME NEW c \in Callers, DelAccess(c) PROVE Leaves(c)
  BY <1>0, <1>22 DEF DelAccess, Goto, Return, world, Leaves, Alone
<1>23. ASSUME NEW c \in Callers, DelMeta(c) PROVE Leaves(c)
  BY <1>0, <1>23 DEF DelMeta, Goto, Return, world, Leaves, Alone
<1>24. ASSUME NEW c \in Callers, ListPurge(c) PROVE Leaves(c)
  BY <1>0, <1>24 DEF ListPurge, Goto, Return, secrets, world, Leaves, Alone
<1>25. ASSUME NEW c \in Callers, PurgeGet(c) PROVE Leaves(c)
  BY <1>0, <1>25 DEF PurgeGet, Goto, Return, secrets, world, Leaves, Alone
<1>26. ASSUME NEW c \in Callers, PurgeDelete(c) PROVE Leaves(c)
  BY <1>0, <1>26 DEF PurgeDelete, Goto, Return, world, Leaves, Alone
<1>27. ASSUME NEW c \in Callers, PatStatus(c) PROVE Leaves(c)
  BY <1>0, <1>27 DEF PatStatus, Goto, Return, secrets, world, Leaves, Alone
<1>28. ASSUME NEW c \in Callers, HasRefresh(c) PROVE Leaves(c)
  BY <1>0, <1>28 DEF HasRefresh, Goto, Return, secrets, world, Leaves, Alone
<1>29. ASSUME NEW c \in Callers, HasAccess(c) PROVE Leaves(c)
  BY <1>0, <1>29 DEF HasAccess, Goto, Return, secrets, world, Leaves, Alone
<1>30. ASSUME NEW c \in Callers, StatusMeta(c) PROVE Leaves(c)
  BY <1>0, <1>30 DEF StatusMeta, Goto, Return, secrets, world, Leaves, Alone
<1>31. ASSUME NEW c \in Callers, ListRefresh(c) PROVE Leaves(c)
  BY <1>0, <1>31 DEF ListRefresh, Goto, Return, secrets, world, Leaves, Alone
<1>32. ASSUME NEW c \in Callers, ListKeys(c) PROVE Leaves(c)
  BY <1>0, <1>32 DEF ListKeys, Goto, Return, secrets, world, Leaves, Alone
<1>33. ASSUME NEW c \in Callers, ListEntry(c) PROVE Leaves(c)
  BY <1>0, <1>33 DEF ListEntry, Goto, Return, secrets, world, Leaves, Alone
<1>34. ASSUME NEW c \in Callers, ListAccess(c) PROVE Leaves(c)
  BY <1>0, <1>34 DEF ListAccess, Goto, Return, secrets, world, Leaves, Alone
<1>35. ASSUME NEW c \in Callers, ListDirect(c) PROVE Leaves(c)
  BY <1>0, <1>35 DEF ListDirect, Goto, Return, secrets, world, Leaves, Alone
<1>36. ASSUME NEW c \in Callers, Crash(c) PROVE Leaves(c)
  BY <1>0, <1>36 DEF Crash, Goto, Return, secrets, world, Leaves, Alone
<1>c. ASSUME NEW c \in Callers, Call(c)
      PROVE  Leaves(c) \/ \E s \in Sessions, expiring \in BOOLEAN : Login(c, s, expiring)
  BY <1>c, <1>1, <1>2, <1>3, <1>4, <1>5, <1>5a DEF Call
<1>s. ASSUME NEW c \in Callers, Step(c)
      PROVE  \/ Leaves(c)
             \/ LoadRefresh(c) \/ LoadMeta(c) \/ RotateMeta(c) \/ Post(c) \/ PutRefresh(c)
  BY <1>s, <1>6, <1>7, <1>8, <1>9, <1>10, <1>11, <1>12, <1>13, <1>14, <1>15, <1>16,
       <1>17, <1>18, <1>19, <1>20, <1>21, <1>22, <1>23, <1>24, <1>25, <1>26, <1>27,
       <1>28, <1>29, <1>30, <1>31, <1>32, <1>33, <1>34, <1>35 DEF Step
<1> QED
  BY <1>36, <1>c, <1>s

LEMMA RotationNext == TypeOK /\ RotationInv /\ [Next]_vars => RotationInv'
<1> SUFFICES ASSUME TypeOK, RotationInv, [Next]_vars PROVE RotationInv'
  OBVIOUS
<1> USE DEF At, Holding
<1>0. pc \in [Callers -> Labels] /\ reg \in [Callers -> Registers]
  BY DEF TypeOK
<1>m. ASSUME NEW c \in Callers
      PROVE  /\ \A x \in Opt(MetadataRecords) : [reg[c] EXCEPT !.meta = x].refresh = reg[c].refresh
             /\ \A y : [reg[c] EXCEPT !.refresh = y, !.minting = TRUE].refresh = y
             /\ \A x, y : [reg[c] EXCEPT !.access = x, !.refresh = y].refresh = y
  <2>1. reg[c] \in Registers
    BY <1>0
  <2> QED
    BY <2>1 DEF Registers
<1>x. ASSUME NEW c \in Callers, LoadRefresh(c) PROVE RotationInv'
  <2>1. CASE Return(c, Error)
    <3>1. Leaves(c)
      BY <1>0, <1>x, <2>1 DEF LoadRefresh, Return, secrets, world, Leaves, Alone
    <3> QED
      BY <3>1, Leaving
  <2>2. CASE /\ refresh # None /\ Goto(c, "loadMeta")
             /\ reg' = [reg EXCEPT ![c].refresh = refresh, ![c].minting = TRUE]
    <3>1. reg'[c].refresh = refresh
      BY <1>0, <1>m, <2>2
    <3>2. Holds(c)
      BY <1>0, <1>x, <2>2, <3>1 DEF LoadRefresh, Goto, secrets, world, Holds, Alone
    <3> QED
      BY <3>2, Keeping
  <2> QED
    BY <1>x, <2>1, <2>2 DEF LoadRefresh
<1>y. ASSUME NEW c \in Callers, LoadMeta(c) PROVE RotationInv'
  <2>1. Leaves(c) \/ Holds(c)
    BY <1>0, <1>y DEF LoadMeta, Goto, Return, secrets, world, Leaves, Holds, Alone
  <2> QED
    BY <2>1, Leaving, Keeping
<1>z. ASSUME NEW c \in Callers, RotateMeta(c) PROVE RotationInv'
  <2>1. reg'[c].refresh = reg[c].refresh
    <3>1. metadata \in Opt(MetadataRecords) /\ reg \in [Callers -> Registers]
      BY DEF TypeOK
    <3>2. CASE UNCHANGED reg
      BY <3>2
    <3>3. CASE reg' = [reg EXCEPT ![c].meta = metadata]
      <4>1. reg'[c] = [reg[c] EXCEPT !.meta = metadata]
        BY <3>1, <3>3
      <4> QED
        BY <1>m, <3>1, <4>1
    <3> QED
      BY <1>z, <3>2, <3>3 DEF RotateMeta
  <2>2. Holds(c)
    BY <1>0, <1>z, <2>1 DEF RotateMeta, Goto, secrets, world, Holds, Alone
  <2> QED
    BY <2>2, Keeping
<1>p. ASSUME NEW c \in Callers, Post(c) PROVE RotationInv'
  <2> DEFINE r == reg[c].refresh
  <2>1. ASSUME UNCHANGED live,
               \/ Return(c, Error)
               \/ /\ Goto(c, "cacheMinted")
                  /\ reg' = [reg EXCEPT ![c].access = NewAccess(r.owner)]
        PROVE  RotationInv'
    <3>1. Leaves(c)
      BY <1>0, <1>p, <2>1 DEF Post, Goto, Return, secrets, Leaves, Alone
    <3> QED
      BY <3>1, Leaving
  <2>2. ASSUME Accepted(r), live' = [live EXCEPT ![r.owner] = r.gen + 1],
               \/ Return(c, Error)
               \/ /\ reg' = [reg EXCEPT ![c].access = NewAccess(r.owner),
                                        ![c].refresh = NewRefresh(r.owner, r.gen + 1)]
                  /\ Goto(c, IF reg[c].meta = None THEN "cacheMinted" ELSE "putRefresh")
        PROVE  RotationInv'
    <3>1. Alone(c) /\ UNCHANGED refresh /\ pc[c] = "post"
      BY <1>0, <1>p, <2>2 DEF Post, Goto, Return, secrets, Alone
    <3>2. \/ pc'[c] \notin Holding
          \/ /\ pc'[c] = "putRefresh"
             /\ reg'[c].refresh.owner = r.owner /\ reg'[c].refresh.gen = r.gen + 1
      <4>1. CASE Return(c, Error)
        BY <1>0, <4>1 DEF Return
      <4>2. CASE /\ reg' = [reg EXCEPT ![c].access = NewAccess(r.owner),
                                       ![c].refresh = NewRefresh(r.owner, r.gen + 1)]
                 /\ Goto(c, IF reg[c].meta = None THEN "cacheMinted" ELSE "putRefresh")
        <5>1. reg'[c] = [reg[c] EXCEPT !.access = NewAccess(r.owner),
                                       !.refresh = NewRefresh(r.owner, r.gen + 1)]
          BY <1>0, <4>2
        <5>2. reg'[c].refresh = NewRefresh(r.owner, r.gen + 1)
          BY <1>m, <5>1
        <5>3. reg'[c].refresh.owner = r.owner /\ reg'[c].refresh.gen = r.gen + 1
          BY <5>2 DEF NewRefresh
        <5> QED
          BY <1>0, <4>2, <5>3 DEF Goto
      <4> QED
        BY <2>2, <4>1, <4>2
    <3>3. r.gen = live[r.owner]
      BY <2>2 DEF Accepted
    <3> QED
      BY <2>2, <3>1, <3>2, <3>3, Rotating
  <2> QED
    BY <1>p, <2>1, <2>2 DEF Post
<1>q. ASSUME NEW c \in Callers, PutRefresh(c) PROVE RotationInv'
  <2>1. ASSUME refresh' = reg[c].refresh, Goto(c, "putAccess"), UNCHANGED reg
        PROVE  RotationInv'
    BY <1>q, <2>1, Replacing
  <2>2. ASSUME UNCHANGED refresh, StoreFailed(c) PROVE RotationInv'
    <3>1. Leaves(c)
      BY <1>0, <1>q, <2>2 DEF PutRefresh, StoreFailed, Goto, Return, world, Leaves, Alone
    <3> QED
      BY <3>1, Leaving
  <2> QED
    BY <1>q, <2>1, <2>2 DEF PutRefresh
<1>l. ASSUME NEW c \in Callers, NEW s \in Sessions, NEW expiring \in BOOLEAN,
             Login(c, s, expiring)
      PROVE  RotationInv'
  BY <1>l, Beginning
\* Steps outside the calls.
<1>t. CASE Tick
  BY <1>t DEF Tick, secrets, RotationInv, Exclusive
<1>u. CASE UNCHANGED vars
  BY <1>u DEF vars, secrets, world, RotationInv, Exclusive
<1>c. ASSUME NEW c \in Callers, Call(c) PROVE RotationInv'
  BY <1>c, <1>l, Leaving, LeavingActions
<1>s. ASSUME NEW c \in Callers, Step(c) \/ Crash(c) PROVE RotationInv'
  BY <1>s, <1>p, <1>q, <1>x, <1>y, <1>z, Leaving, LeavingActions
<1> QED
  BY <1>c, <1>s, <1>t, <1>u DEF Next

\* No copy of a refresh token, stored or held by a call, is newer than the one
\* GitHub accepts, and a token that replaces another is held by one call only
\* (refreshAccessToken, storeCredentials).
THEOREM RotationCorrect == Spec => []RotationInv
<1> QED
  BY TypeInit, TypeNext, RotationInit, RotationNext, PTL DEF Spec

\* Only PutRefresh stores a refresh token, and then it is the one GitHub accepts.
LEMMA RefreshStored ==
    ASSUME TypeOK, RotationInv, [Next]_vars, refresh' # refresh, refresh' # None
    PROVE  refresh'.gen = live[refresh'.owner]
<1>1. ASSUME NEW c \in Callers, Call(c) \/ Step(c) \/ Crash(c)
      PROVE  PutRefresh(c) /\ refresh' = reg[c].refresh
  <2>1. ~Leaves(c)
    BY DEF Leaves
  <2>2. ~\E s \in Sessions, expiring \in BOOLEAN : Login(c, s, expiring)
    BY DEF Login, secrets
  <2>3. ~LoadRefresh(c) /\ ~LoadMeta(c) /\ ~RotateMeta(c) /\ ~Post(c)
    BY DEF LoadRefresh, LoadMeta, RotateMeta, Post, secrets
  <2>4. PutRefresh(c)
    BY <1>1, <2>1, <2>2, <2>3, LeavingActions
  <2> QED
    BY <2>4 DEF PutRefresh
<1>2. PICK c \in Callers : PutRefresh(c) /\ refresh' = reg[c].refresh
  BY <1>1 DEF Next, Tick, vars, secrets
<1>3. At(c, "putRefresh")
  BY <1>2 DEF PutRefresh
<1> QED
  BY <1>2, <1>3 DEF RotationInv

\* However calls interleave, fail and die, what is written under the refresh
\* token's key is the token GitHub accepts at that moment (refreshAccessToken,
\* storeCredentials).
THEOREM OnlyLiveRefresh == Spec => OnlyLiveRefreshStored
<1>1. TypeOK /\ RotationInv /\ [Next]_vars =>
        [refresh' # refresh /\ refresh' # None
           => refresh'.gen = live[refresh'.owner]]_vars
  BY RefreshStored
<1> QED
  BY <1>1, TypeCorrect, RotationCorrect, PTL DEF Spec, OnlyLiveRefreshStored

=============================================================================
