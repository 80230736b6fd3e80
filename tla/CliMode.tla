------------------------------- MODULE CliMode -------------------------------
(***************************************************************************)
(* The CLI mode of the GitHub authentication handler, for one profile: the *)
(* secrets it keeps in the host's store and the calls that read and write  *)
(* them.  The store is shared by every process of the CLI and the handlers *)
(* of one process run concurrently, so a call is a sequence of steps, each *)
(* one RPC to the host or one request to GitHub, and the steps of several  *)
(* calls interleave.  An RPC may fail, a reply may be lost and a process   *)
(* may die: these share the budget MaxFaults.                              *)
(***************************************************************************)
EXTENDS Integers, FiniteSets

CONSTANTS
    Callers,      \* calls that can be in progress at a time
    Sessions,     \* OAuth logins; each is used once
    App,          \* the owner of a GitHub App installation token
    Pats,         \* personal access tokens found in GITHUB_TOKEN / GH_TOKEN
    None,         \* an absent secret, an empty string, a nil pointer
    Ops,          \* the operations the environment calls
    AccessLife,   \* lifetime of an expiring access token (and the 8h default)
    RefreshLife,  \* lifetime of a refresh token
    MinValidFor,  \* the validity a GetToken request asks for
    MaxTime,      \* bound: the clock stops here
    MaxGen,       \* bound: rotations of the refresh token of a session
    MaxFaults     \* bound: failed RPCs, lost replies and dead processes

Owners == Sessions \cup {App} \cup Pats
Opt(S) == S \cup {None}

ASSUME DurationsAssumption ==
    /\ AccessLife \in Nat \ {0}
    /\ RefreshLife \in Nat \ {0}
    /\ MinValidFor \in Nat
ASSUME BoundsAssumption == MaxTime \in Nat /\ MaxGen \in Nat /\ MaxFaults \in Nat
ASSUME NoneAssumption   == None \notin Owners
ASSUME OwnersAssumption == App \notin Sessions \cup Pats /\ Sessions \cap Pats = {}

\* farFuture(), and the zero time of a deadline that never comes: later than
\* every deadline a call can compute.
Far   == MaxTime + AccessLife + RefreshLife + MinValidFor + 1
Times == 0..Far

-----------------------------------------------------------------------------
\* Values.  exp is when GitHub stops accepting a token, known to GitHub only;
\* gen counts the rotations of a session's refresh token.
AccessTokens  == [owner : Owners, exp : Times]
RefreshTokens == [owner : Sessions, gen : 0..MaxGen, exp : Times]

\* TokenMetadata: user is whom the claims describe (None: the issuer only),
\* label the SessionID, client whether the ClientID is present.
MetadataRecords ==
    [user : Opt(Owners), label : Opt(Owners), client : BOOLEAN, rexp : Times]

\* tokenCacheEntry; expiresAt is what the handler believes of the token.
CacheEntries ==
    [token : AccessTokens, expiresAt : Times, label : Opt(Owners)]

ASSUME AbsentAssumption ==
    None \notin AccessTokens \cup RefreshTokens \cup MetadataRecords \cup CacheEntries

\* The cached tokens of a profile: under the hash of the host name, under the
\* hash of the App and installation, and under the host name with ":pat:".
CacheKeys == {"host", "app", "pat"}

Labels ==
    { "idle",
      "cacheGet", "loadAccess", "cacheAccess", "loadRefresh", "loadMeta",
      "rotateMeta", "post", "putRefresh", "putAccess", "putMeta", "putCache",
      "cacheMinted", "patCacheGet", "patValidate", "patCache",
      "appCache", "appAccess", "appMeta",
      "listClear", "clear", "delRefresh", "delAccess", "delMeta",
      "listPurge", "purgeGet", "purgeDelete",
      "patStatus", "hasRefresh", "hasAccess", "statusMeta",
      "listRefresh", "listKeys", "listEntry", "listAccess", "listDirect" }

\* What ListCachedTokens tells of a token: where it found it, and which it is.
\* The token itself is not in the answer; it tells the properties which one
\* was meant.
Infos == [at : CacheKeys \cup {"refresh", "direct"}, token : AccessTokens \cup RefreshTokens]

\* The local variables of a call.  access and refresh are the tokens it holds,
\* meta the metadata it has read, keys what is left of a listing, key the
\* entry being purged, found the outcome of the first secretExists, infos the
\* results of a listing so far.
Registers ==
    [ pat : Opt(Pats), access : Opt(AccessTokens), refresh : Opt(RefreshTokens),
      meta : Opt(MetadataRecords), minting : BOOLEAN,
      keys : SUBSET CacheKeys, key : Opt(CacheKeys), found : BOOLEAN,
      infos : SUBSET Infos ]

Blank ==
    [ pat |-> None, access |-> None, refresh |-> None, meta |-> None,
      minting |-> FALSE, keys |-> {}, key |-> None, found |-> FALSE,
      infos |-> {} ]

\* What a call has at hand at a step: no step uses a variable before it is set.
\* A call holds a refresh token from the moment it has read it until it has
\* presented it, and again while it is about to store its successor.
Holding     == {"loadMeta", "rotateMeta", "post", "putRefresh"}
Storing     == {"putRefresh", "putAccess", "putMeta", "putCache"}
WithAccess  == Storing \cup
               {"cacheAccess", "cacheMinted", "appCache", "appAccess", "appMeta", "listDirect"}
WithPat     == {"patCacheGet", "patValidate", "patCache", "patStatus"}

Defined(l, r) ==
    /\ l \in WithAccess => r.access \in AccessTokens
    /\ l \in Holding => r.refresh \in RefreshTokens
    /\ l \in WithPat => r.pat \in Pats
    /\ l = "purgeDelete" => r.key \in CacheKeys

\* What a call answered.  A token answer keeps the PAT its process had.
Answers ==
    [kind : {"none", "ok", "error"}]
    \cup [kind : {"token"}, entry : CacheEntries, pat : Opt(Pats)]
    \cup [kind : {"status"}, authenticated : BOOLEAN, expired : BOOLEAN,
          user : Opt(Owners)]
    \cup [kind : {"list"}, infos : SUBSET Infos]

Nothing == [kind |-> "none"]
Done    == [kind |-> "ok"]
Error   == [kind |-> "error"]
TokenAnswer(e, p)      == [kind |-> "token", entry |-> e, pat |-> p]
StatusAnswer(a, x, u)  ==
    [kind |-> "status", authenticated |-> a, expired |-> x, user |-> u]
ListAnswer(i) == [kind |-> "list", infos |-> i]

VARIABLES
    refresh,   \* the secret under SecretKeyRefreshToken
    access,    \* the secret under SecretKeyAccessToken
    metadata,  \* the secret under SecretKeyMetadata
    cache,     \* the secrets under SecretKeyTokenPrefix
    live,      \* GitHub: the generation it accepts of a session, -1 before login
    now,       \* the clock
    pc, reg,   \* where each call is, and its local variables
    out,       \* the last answer of each caller
    faults,    \* faults so far
    session    \* history: the owner of the last login that no logout followed

secrets == <<refresh, access, metadata, cache>>
world   == <<live, now>>
vars    == <<secrets, world, pc, reg, out, faults, session>>

TypeOK ==
    /\ refresh  \in Opt(RefreshTokens)
    /\ access   \in Opt(AccessTokens)
    /\ metadata \in Opt(MetadataRecords)
    /\ cache \in [CacheKeys -> Opt(CacheEntries)]
    /\ live \in [Sessions -> -1..MaxGen]
    /\ now \in 0..MaxTime
    /\ pc \in [Callers -> Labels]
    /\ reg \in [Callers -> Registers]
    /\ \A c \in Callers : Defined(pc[c], reg[c])
    /\ out \in [Callers -> Answers]
    /\ faults \in 0..MaxFaults
    /\ session \in Opt(Owners)

\* Credentials of the built-in handler that this plugin replaces: a refresh
\* token and its metadata, and no access token.
Legacy(s) ==
    /\ refresh  = [owner |-> s, gen |-> 0, exp |-> RefreshLife]
    /\ metadata = [user |-> s, label |-> s, client |-> TRUE, rexp |-> RefreshLife]
    /\ live = [t \in Sessions |-> IF t = s THEN 0 ELSE -1]
    /\ session = s

Fresh ==
    /\ refresh = None
    /\ metadata = None
    /\ live = [t \in Sessions |-> -1]
    /\ session = None

Init ==
    /\ Fresh \/ \E s \in Sessions : Legacy(s)
    /\ access = None
    /\ cache = [k \in CacheKeys |-> None]
    /\ now = 0
    /\ pc  = [c \in Callers |-> "idle"]
    /\ reg = [c \in Callers |-> Blank]
    /\ out = [c \in Callers |-> Nothing]
    /\ faults = 0

-----------------------------------------------------------------------------
\* Steps of a call.
At(c, l)     == pc[c] = l
Goto(c, l)   == pc' = [pc EXCEPT ![c] = l] /\ UNCHANGED out
Return(c, a) == /\ pc'  = [pc  EXCEPT ![c] = "idle"]
                /\ out' = [out EXCEPT ![c] = a]
                /\ reg' = [reg EXCEPT ![c] = Blank]

\* A call begins, and its caller's last answer is forgotten.
Begin(c, l)  == /\ pc[c] = "idle"
                /\ pc'  = [pc  EXCEPT ![c] = l]
                /\ out' = [out EXCEPT ![c] = Nothing]

\* The RPC or request succeeds, or fails without effect at this end.
Reliable == UNCHANGED faults
Fault    == faults < MaxFaults /\ faults' = faults + 1

Start(c, l, op) == op \in Ops /\ Begin(c, l) /\ Reliable /\ UNCHANGED <<secrets, world>>

IsValidFor(e, d) == now + d < e.expiresAt
Expired(e)       == now > e.expiresAt

-----------------------------------------------------------------------------
\* Defects the code does not have.  None of these is part of Next: each one
\* stands for a definition below, and shows that a property notices it.

\* The token that was presented is stored, not the one that replaced it.
PostKeepsPresented(c) ==
    LET r == reg[c].refresh IN
    /\ pc[c] = "post" /\ Reliable
    /\ r.gen = live[r.owner] /\ r.gen < MaxGen
    /\ live' = [live EXCEPT ![r.owner] = r.gen + 1]
    /\ reg' = [reg EXCEPT ![c].access = [owner |-> r.owner, exp |-> now + AccessLife]]
    /\ Goto(c, "putRefresh")
    /\ UNCHANGED <<secrets, now, session>>

\* A rotated refresh token is not stored.
PostDropsRotated(c) ==
    LET r == reg[c].refresh IN
    /\ pc[c] = "post" /\ Reliable
    /\ r.gen = live[r.owner] /\ r.gen < MaxGen
    /\ live' = [live EXCEPT ![r.owner] = r.gen + 1]
    /\ reg' = [reg EXCEPT ![c].access = [owner |-> r.owner, exp |-> now + AccessLife]]
    /\ Goto(c, "cacheMinted")
    /\ UNCHANGED <<secrets, now, session>>

\* The access token is written under the key of the refresh token.
PutRefreshWrongSecret(c) ==
    /\ pc[c] = "putRefresh"
    /\ refresh' = reg[c].access
    /\ Goto(c, "putAccess") /\ Reliable
    /\ UNCHANGED <<access, metadata, cache, world, reg, session>>

\* The metadata of the first login is kept.
PutMetaKeepsFirst(c) ==
    /\ pc[c] = "putMeta"
    /\ metadata' = IF metadata # None THEN metadata
                   ELSE [ user |-> reg[c].access.owner, label |-> reg[c].access.owner,
                          client |-> TRUE, rexp |-> Far ]
    /\ session' = reg[c].access.owner
    /\ Goto(c, "putCache") /\ Reliable
    /\ UNCHANGED <<refresh, access, cache, world, reg>>

\* A login takes over the session of the metadata it finds in the store.
SessionIDInherited(c) ==
    IF metadata = None \/ metadata.label = None THEN reg[c].access.owner
                                               ELSE metadata.label

\* A login leaves the cache alone.
PutCacheSkipped(c) ==
    /\ pc[c] = "putCache" /\ ~reg[c].minting
    /\ Return(c, Done) /\ Reliable
    /\ UNCHANGED <<secrets, world, session>>

\* A PAT is cached under the key of the logins.
PatCacheSharedKey(c) ==
    /\ pc[c] = "patCache"
    /\ LET e == [token |-> [owner |-> reg[c].pat, exp |-> Far],
                 expiresAt |-> Far, label |-> None] IN
       /\ cache' = [cache EXCEPT !["host"] = e]
       /\ Return(c, TokenAnswer(e, reg[c].pat))
    /\ Reliable
    /\ UNCHANGED <<refresh, access, metadata, world, session>>

\* A logout stops at the first delete that fails, and reports no error.
DelRefreshStops(c) ==
    /\ pc[c] = "delRefresh"
    /\ \/ /\ refresh' = None /\ Goto(c, "delAccess")
          /\ Reliable /\ UNCHANGED <<reg, session>>
       \/ UNCHANGED refresh /\ Return(c, Done) /\ session' = None /\ Fault
    /\ UNCHANGED <<access, metadata, cache, world>>

\* A logout forgets the access token.
DelAccessSkipped(c) ==
    /\ pc[c] = "delAccess" /\ Goto(c, "delMeta") /\ Reliable
    /\ UNCHANGED <<secrets, world, reg, session>>

\* A listing does not look for the access token in the cache.
ListDirectUnchecked(c) ==
    /\ pc[c] = "listDirect"
    /\ Return(c, ListAnswer(reg[c].infos \cup {[at |-> "direct", token |-> reg[c].access]}))
    /\ Reliable
    /\ UNCHANGED <<secrets, world, session>>

-----------------------------------------------------------------------------
\* GetToken.  The environment of the process either has a PAT or it has not,
\* and the request either forces a refresh or it does not.
GetToken(c, pat, force) ==
    /\ Start(c, IF pat = None THEN (IF force THEN "loadAccess" ELSE "cacheGet")
               ELSE (IF force THEN "patValidate" ELSE "patCacheGet"), "GetToken")
    /\ reg' = [reg EXCEPT ![c].pat = pat]
    /\ UNCHANGED session

\* Answer with the cached token, or go on when there is none, when it lacks the
\* requested validity or when the lookup fails.
CacheGet(c) ==
    /\ At(c, "cacheGet")
    /\ \/ /\ cache["host"] # None /\ IsValidFor(cache["host"], MinValidFor)
          /\ Return(c, TokenAnswer(cache["host"], None))
          /\ Reliable
       \/ /\ cache["host"] # None => ~IsValidFor(cache["host"], MinValidFor)
          /\ Goto(c, "loadAccess") /\ UNCHANGED reg /\ Reliable
       \/ Goto(c, "loadAccess") /\ UNCHANGED reg /\ Fault
    /\ UNCHANGED <<secrets, world, session>>

\* "Check if we have a stored access token (non-expiring OAuth App)".
LoadAccess(c) ==
    /\ At(c, "loadAccess")
    /\ \/ /\ access # None
          /\ reg' = [reg EXCEPT ![c].access = access]
          /\ Goto(c, "cacheAccess") /\ Reliable
       \/ access = None /\ Goto(c, "loadRefresh") /\ UNCHANGED reg /\ Reliable
       \/ Goto(c, "loadRefresh") /\ UNCHANGED reg /\ Fault
    /\ UNCHANGED <<secrets, world, session>>

\* The stored access token is cached and returned as good for 365 days,
\* without flow or session.
StoredEntry(t) == [token |-> t, expiresAt |-> Far, label |-> None]

CacheAccess(c) ==
    LET e == StoredEntry(reg[c].access) IN
    /\ At(c, "cacheAccess")
    /\ \/ cache' = [cache EXCEPT !["host"] = e] /\ Reliable
       \/ UNCHANGED cache /\ Fault
    /\ Return(c, TokenAnswer(e, None))
    /\ UNCHANGED <<refresh, access, metadata, world, session>>

-----------------------------------------------------------------------------
\* mintToken and refreshAccessToken.
LoadRefresh(c) ==
    /\ At(c, "loadRefresh")
    /\ \/ /\ refresh # None
          /\ reg' = [reg EXCEPT ![c].refresh = refresh, ![c].minting = TRUE]
          /\ Goto(c, "loadMeta") /\ Reliable
       \/ refresh = None /\ Return(c, Error) /\ Reliable
       \/ Return(c, Error) /\ Fault
    /\ UNCHANGED <<secrets, world, session>>

LoadMeta(c) ==
    /\ At(c, "loadMeta")
    /\ \/ /\ metadata # None /\ metadata.client
          /\ Goto(c, "rotateMeta") /\ UNCHANGED reg /\ Reliable
       \/ (metadata # None => ~metadata.client) /\ Return(c, Error) /\ Reliable
       \/ Return(c, Error) /\ Fault
    /\ UNCHANGED <<secrets, world, session>>

\* refreshAccessToken loads the metadata again; a failure is remembered as nil.
RotateMeta(c) ==
    /\ At(c, "rotateMeta")
    /\ \/ reg' = [reg EXCEPT ![c].meta = metadata] /\ Reliable
       \/ UNCHANGED reg /\ Fault
    /\ Goto(c, "post")
    /\ UNCHANGED <<secrets, world, session>>

\* GitHub accepts the refresh token it issued last for a session, until it
\* expires, and replaces it or not.
Accepted(r)      == r.gen = live[r.owner] /\ now <= r.exp
NewAccess(s)     == [owner |-> s, exp |-> now + AccessLife]
NewRefresh(s, g) == [owner |-> s, gen |-> g, exp |-> now + RefreshLife]

Post(c) ==
    LET r == reg[c].refresh IN
    /\ At(c, "post")
    /\ \/ \* the request does not arrive, or it is answered with an error
          /\ (~Accepted(r) /\ Reliable) \/ Fault
          /\ Return(c, Error) /\ UNCHANGED live
       \/ \* a new access token, and the refresh token is kept
          /\ Accepted(r) /\ Reliable
          /\ reg' = [reg EXCEPT ![c].access = NewAccess(r.owner)]
          /\ Goto(c, "cacheMinted") /\ UNCHANGED live
       \/ \* both are new: the credentials are stored if there is metadata
          /\ Accepted(r) /\ Reliable /\ r.gen < MaxGen
          /\ live' = [live EXCEPT ![r.owner] = r.gen + 1]
          /\ reg' = [reg EXCEPT ![c].access = NewAccess(r.owner),
                                ![c].refresh = NewRefresh(r.owner, r.gen + 1)]
          /\ Goto(c, IF reg[c].meta = None THEN "cacheMinted" ELSE "putRefresh")
       \/ \* both are new and the reply is lost
          /\ Accepted(r) /\ Fault /\ r.gen < MaxGen
          /\ live' = [live EXCEPT ![r.owner] = r.gen + 1]
          /\ Return(c, Error)
    /\ UNCHANGED <<secrets, now, session>>

\* GetToken caches what mintToken returned and answers with it.
CacheMinted(c) ==
    LET e == [ token |-> reg[c].access, expiresAt |-> now + AccessLife,
               label |-> IF reg[c].meta = None THEN None ELSE reg[c].meta.label ] IN
    /\ At(c, "cacheMinted")
    /\ \/ cache' = [cache EXCEPT !["host"] = e] /\ Reliable
       \/ UNCHANGED cache /\ Fault
    /\ Return(c, TokenAnswer(e, None))
    /\ UNCHANGED <<refresh, access, metadata, world, session>>

-----------------------------------------------------------------------------
\* An OAuth flow has ended with a token response, expiring or not, and Login
\* goes on with storeCredentials.
Login(c, s, expiring) ==
    /\ "Login" \in Ops /\ live[s] = -1
    /\ Begin(c, IF expiring THEN "putRefresh" ELSE "putAccess")
    /\ live' = [live EXCEPT ![s] = 0]
    /\ reg' = [reg EXCEPT
         ![c].access = IF expiring THEN NewAccess(s) ELSE [owner |-> s, exp |-> Far],
         ![c].refresh = IF expiring THEN NewRefresh(s, 0) ELSE None]
    /\ Reliable /\ UNCHANGED <<secrets, now, session>>

\* storeCredentials, for a login and for a rotated refresh token.  A write that
\* fails ends it: the login fails, the mint logs and goes on.
StoreFailed(c) ==
    /\ Fault
    /\ IF reg[c].minting THEN Goto(c, "cacheMinted") /\ UNCHANGED reg
                         ELSE Return(c, Error)

PutRefresh(c) ==
    /\ At(c, "putRefresh")
    /\ \/ refresh' = reg[c].refresh /\ Goto(c, "putAccess") /\ UNCHANGED reg /\ Reliable
       \/ UNCHANGED refresh /\ StoreFailed(c)
    /\ UNCHANGED <<access, metadata, cache, world, session>>

PutAccess(c) ==
    /\ At(c, "putAccess")
    /\ \/ access' = reg[c].access /\ Goto(c, "putMeta") /\ UNCHANGED reg /\ Reliable
       \/ UNCHANGED access /\ StoreFailed(c)
    /\ UNCHANGED <<refresh, metadata, cache, world, session>>

\* The session of the metadata that was read, or a new one: a login's own.
SessionID(c) ==
    LET m == reg[c].meta IN
    IF m = None \/ m.label = None THEN reg[c].access.owner ELSE m.label

\* The claims are those of the access token, or the issuer only when asking
\* GitHub for them fails.
PutMeta(c) ==
    LET Record(u) == [ user |-> u, label |-> SessionID(c), client |-> TRUE,
                       rexp |-> IF reg[c].refresh = None THEN Far
                                ELSE now + RefreshLife ] IN
    /\ At(c, "putMeta")
    /\ \/ /\ \/ metadata' = Record(reg[c].access.owner) /\ Reliable
             \/ metadata' = Record(None) /\ Fault
          /\ session' = IF reg[c].minting THEN session ELSE reg[c].access.owner
          /\ Goto(c, "putCache") /\ UNCHANGED reg
       \/ UNCHANGED <<metadata, session>> /\ StoreFailed(c)
    /\ UNCHANGED <<refresh, access, cache, world>>

\* The cache is best-effort.  A mint goes on, a login is over.
PutCache(c) ==
    LET e == [ token |-> reg[c].access, label |-> SessionID(c),
               expiresAt |-> IF reg[c].refresh = None THEN Far
                             ELSE now + AccessLife ] IN
    /\ At(c, "putCache")
    /\ \/ cache' = [cache EXCEPT !["host"] = e] /\ Reliable
       \/ UNCHANGED cache /\ Fault
    /\ IF reg[c].minting
       THEN Goto(c, "cacheMinted") /\ UNCHANGED reg
       ELSE Return(c, Done)
    /\ UNCHANGED <<refresh, access, metadata, world, session>>

-----------------------------------------------------------------------------
\* appLogin, once GitHub has issued the installation token.
AppLogin(c) ==
    /\ Start(c, "appCache", "AppLogin")
    /\ reg' = [reg EXCEPT ![c].access = NewAccess(App)]
    /\ UNCHANGED session

AppCache(c) ==
    LET e == [token |-> reg[c].access, expiresAt |-> reg[c].access.exp, label |-> None] IN
    /\ At(c, "appCache")
    /\ \/ cache' = [cache EXCEPT !["app"] = e] /\ Reliable
       \/ UNCHANGED cache /\ Fault
    /\ Goto(c, "appAccess")
    /\ UNCHANGED <<refresh, access, metadata, world, reg, session>>

AppAccess(c) ==
    /\ At(c, "appAccess")
    /\ \/ access' = reg[c].access /\ Goto(c, "appMeta") /\ UNCHANGED reg /\ Reliable
       \/ UNCHANGED access /\ Return(c, Error) /\ Fault
    /\ UNCHANGED <<refresh, metadata, cache, world, session>>

\* Metadata of a service principal: no client, no session, no expiry.
AppMeta(c) ==
    /\ At(c, "appMeta")
    /\ \/ /\ metadata' = [user |-> App, label |-> None, client |-> FALSE, rexp |-> Far]
          /\ Return(c, Done) /\ session' = App /\ Reliable
       \/ UNCHANGED <<metadata, session>> /\ Return(c, Error) /\ Fault
    /\ UNCHANGED <<refresh, access, cache, world>>

-----------------------------------------------------------------------------
\* getPATToken: cached under the host name for 365 days, never stored elsewhere.
PatCacheGet(c) ==
    LET e == cache["pat"] IN
    /\ At(c, "patCacheGet")
    /\ \/ /\ e # None /\ IsValidFor(e, MinValidFor)
          /\ Return(c, TokenAnswer(e, reg[c].pat)) /\ Reliable
       \/ /\ e # None => ~IsValidFor(e, MinValidFor)
          /\ Goto(c, "patValidate") /\ UNCHANGED reg /\ Reliable
       \/ Goto(c, "patValidate") /\ UNCHANGED reg /\ Fault
    /\ UNCHANGED <<secrets, world, session>>

\* fetchUserClaims with the token of the environment.
PatValidate(c) ==
    /\ At(c, "patValidate")
    /\ \/ Goto(c, "patCache") /\ UNCHANGED reg /\ Reliable
       \/ Return(c, Error) /\ Fault
    /\ UNCHANGED <<secrets, world, session>>

PatCache(c) ==
    LET e == StoredEntry([owner |-> reg[c].pat, exp |-> Far]) IN
    /\ At(c, "patCache")
    /\ \/ cache' = [cache EXCEPT !["pat"] = e] /\ Reliable
       \/ UNCHANGED cache /\ Fault
    /\ Return(c, TokenAnswer(e, reg[c].pat))
    /\ UNCHANGED <<refresh, access, metadata, world, session>>

-----------------------------------------------------------------------------
\* Logout: a listing of the cache, one delete per listed key, then the three
\* credentials.  No failure stops it.
Cached == {k \in CacheKeys : cache[k] # None}

Logout(c) ==
    /\ Start(c, "listClear", "Logout")
    /\ UNCHANGED <<reg, session>>

ListClear(c) ==
    /\ At(c, "listClear")
    /\ \/ reg' = [reg EXCEPT ![c].keys = Cached] /\ Goto(c, "clear") /\ Reliable
       \/ UNCHANGED reg /\ Goto(c, "delRefresh") /\ Fault
    /\ UNCHANGED <<secrets, world, session>>

Clear(c) ==
    /\ At(c, "clear")
    /\ \/ \E k \in reg[c].keys :
            /\ reg' = [reg EXCEPT ![c].keys = @ \ {k}]
            /\ \/ cache' = [cache EXCEPT ![k] = None] /\ Reliable
               \/ UNCHANGED cache /\ Fault
            /\ UNCHANGED <<pc, out>>
       \/ reg[c].keys = {} /\ Goto(c, "delRefresh") /\ UNCHANGED <<reg, cache>> /\ Reliable
    /\ UNCHANGED <<refresh, access, metadata, world, session>>

DelRefresh(c) ==
    /\ At(c, "delRefresh")
    /\ (refresh' = None /\ Reliable) \/ (UNCHANGED refresh /\ Fault)
    /\ Goto(c, "delAccess")
    /\ UNCHANGED <<access, metadata, cache, world, reg, session>>

DelAccess(c) ==
    /\ At(c, "delAccess")
    /\ (access' = None /\ Reliable) \/ (UNCHANGED access /\ Fault)
    /\ Goto(c, "delMeta")
    /\ UNCHANGED <<refresh, metadata, cache, world, reg, session>>

DelMeta(c) ==
    /\ At(c, "delMeta")
    /\ (metadata' = None /\ Reliable) \/ (UNCHANGED metadata /\ Fault)
    /\ Return(c, Done)
    /\ session' = None
    /\ UNCHANGED <<refresh, access, cache, world>>

-----------------------------------------------------------------------------
\* PurgeExpiredTokens: a listing, then one read and perhaps one delete per key.
PurgeExpiredTokens(c) ==
    /\ Start(c, "listPurge", "Purge")
    /\ UNCHANGED <<reg, session>>

ListPurge(c) ==
    /\ At(c, "listPurge")
    /\ \/ reg' = [reg EXCEPT ![c].keys = Cached] /\ Goto(c, "purgeGet") /\ Reliable
       \/ Return(c, Error) /\ Fault
    /\ UNCHANGED <<secrets, world, session>>

PurgeGet(c) ==
    /\ At(c, "purgeGet")
    /\ \/ \E k \in reg[c].keys :
            IF cache[k] # None /\ Expired(cache[k])
            THEN /\ reg' = [reg EXCEPT ![c].keys = @ \ {k}, ![c].key = k]
                 /\ Goto(c, "purgeDelete") /\ Reliable
            ELSE /\ reg' = [reg EXCEPT ![c].keys = @ \ {k}]
                 /\ UNCHANGED <<pc, out>> /\ Reliable
       \/ \E k \in reg[c].keys :
            reg' = [reg EXCEPT ![c].keys = @ \ {k}] /\ UNCHANGED <<pc, out>> /\ Fault
       \/ reg[c].keys = {} /\ Return(c, Done) /\ Reliable
    /\ UNCHANGED <<secrets, world, session>>

PurgeDelete(c) ==
    /\ At(c, "purgeDelete")
    /\ \/ cache' = [cache EXCEPT ![reg[c].key] = None] /\ Reliable
       \/ UNCHANGED cache /\ Fault
    /\ Goto(c, "purgeGet")
    /\ reg' = [reg EXCEPT ![c].key = None]
    /\ UNCHANGED <<refresh, access, metadata, world, session>>

-----------------------------------------------------------------------------
\* GetStatus.  With a PAT it asks GitHub whom the PAT belongs to.
GetStatus(c, pat) ==
    /\ Start(c, IF pat = None THEN "hasRefresh" ELSE "patStatus", "GetStatus")
    /\ reg' = [reg EXCEPT ![c].pat = pat]
    /\ UNCHANGED session

Unauthenticated == StatusAnswer(FALSE, FALSE, None)

PatStatus(c) ==
    /\ At(c, "patStatus")
    /\ \/ Return(c, StatusAnswer(TRUE, FALSE, reg[c].pat)) /\ Reliable
       \/ Return(c, Unauthenticated) /\ Fault
    /\ UNCHANGED <<secrets, world, session>>

HasRefresh(c) ==
    /\ At(c, "hasRefresh")
    /\ \/ reg' = [reg EXCEPT ![c].found = (refresh # None)] /\ Reliable
       \/ UNCHANGED reg /\ Fault
    /\ Goto(c, "hasAccess")
    /\ UNCHANGED <<secrets, world, session>>

HasAccess(c) ==
    /\ At(c, "hasAccess")
    /\ \E there \in BOOLEAN :
         /\ (there = (access # None) /\ Reliable) \/ (~there /\ Fault)
         /\ IF reg[c].found \/ there THEN Goto(c, "statusMeta") /\ UNCHANGED reg
                                     ELSE Return(c, Unauthenticated)
    /\ UNCHANGED <<secrets, world, session>>

StatusMeta(c) ==
    /\ At(c, "statusMeta")
    /\ \/ /\ metadata # None /\ Reliable
          /\ LET expired == now > metadata.rexp IN
             Return(c, StatusAnswer(~expired, expired, metadata.user))
       \/ metadata = None /\ Return(c, Unauthenticated) /\ Reliable
       \/ Return(c, Unauthenticated) /\ Fault
    /\ UNCHANGED <<secrets, world, session>>

-----------------------------------------------------------------------------
\* ListCachedTokens: the refresh token, the cached tokens, and the access token
\* unless there is one in the cache under the host name.  Its reads of the
\* metadata only word the answer and are left out.
ListCachedTokens(c) ==
    /\ Start(c, "listRefresh", "List")
    /\ UNCHANGED <<reg, session>>

Info(k, t) == [at |-> k, token |-> t]

ListRefresh(c) ==
    /\ At(c, "listRefresh")
    /\ \/ /\ refresh # None
          /\ reg' = [reg EXCEPT ![c].infos = {Info("refresh", refresh)}]
          /\ Reliable
       \/ refresh = None /\ UNCHANGED reg /\ Reliable
       \/ UNCHANGED reg /\ Fault
    /\ Goto(c, "listKeys")
    /\ UNCHANGED <<secrets, world, session>>

ListKeys(c) ==
    /\ At(c, "listKeys")
    /\ \/ reg' = [reg EXCEPT ![c].keys = Cached] /\ Goto(c, "listEntry") /\ Reliable
       \/ UNCHANGED reg /\ Goto(c, "listAccess") /\ Fault
    /\ UNCHANGED <<secrets, world, session>>

\* cacheListEntries skips an entry that is gone or that cannot be read.
ListEntry(c) ==
    /\ At(c, "listEntry")
    /\ \/ \E k \in reg[c].keys :
            /\ \/ /\ cache[k] # None /\ Reliable
                  /\ reg' = [reg EXCEPT ![c].keys = @ \ {k},
                                        ![c].infos = @ \cup {Info(k, cache[k].token)}]
               \/ /\ (cache[k] = None /\ Reliable) \/ Fault
                  /\ reg' = [reg EXCEPT ![c].keys = @ \ {k}]
            /\ UNCHANGED <<pc, out>>
       \/ reg[c].keys = {} /\ Goto(c, "listAccess") /\ UNCHANGED reg /\ Reliable
    /\ UNCHANGED <<secrets, world, session>>

ListAccess(c) ==
    /\ At(c, "listAccess")
    /\ \/ /\ access # None
          /\ reg' = [reg EXCEPT ![c].access = access]
          /\ Goto(c, "listDirect") /\ Reliable
       \/ access = None /\ Return(c, ListAnswer(reg[c].infos)) /\ Reliable
       \/ Return(c, ListAnswer(reg[c].infos)) /\ Fault
    /\ UNCHANGED <<secrets, world, session>>

\* "Direct access token not in cache".
ListDirect(c) ==
    LET direct == reg[c].infos \cup {Info("direct", reg[c].access)} IN
    /\ At(c, "listDirect")
    /\ \/ cache["host"] # None /\ Return(c, ListAnswer(reg[c].infos)) /\ Reliable
       \/ cache["host"] = None /\ Return(c, ListAnswer(direct)) /\ Reliable
       \/ Return(c, ListAnswer(direct)) /\ Fault
    /\ UNCHANGED <<secrets, world, session>>

-----------------------------------------------------------------------------
Tick ==
    /\ now < MaxTime
    /\ now' = now + 1
    /\ UNCHANGED <<secrets, live, pc, reg, out, faults, session>>

\* The process of a call dies, or its context is cancelled, between two steps.
Crash(c) ==
    /\ pc[c] # "idle"
    /\ Return(c, Nothing) /\ Fault
    /\ UNCHANGED <<secrets, world, session>>

Call(c) ==
    \/ \E pat \in Opt(Pats), force \in BOOLEAN : GetToken(c, pat, force)
    \/ \E s \in Sessions, expiring \in BOOLEAN : Login(c, s, expiring)
    \/ \E pat \in Opt(Pats) : GetStatus(c, pat)
    \/ AppLogin(c) \/ Logout(c) \/ PurgeExpiredTokens(c) \/ ListCachedTokens(c)

Step(c) ==
    \/ CacheGet(c) \/ LoadAccess(c) \/ CacheAccess(c)
    \/ LoadRefresh(c) \/ LoadMeta(c) \/ RotateMeta(c) \/ Post(c) \/ CacheMinted(c)
    \/ PutRefresh(c) \/ PutAccess(c) \/ PutMeta(c) \/ PutCache(c)
    \/ AppCache(c) \/ AppAccess(c) \/ AppMeta(c)
    \/ PatCacheGet(c) \/ PatValidate(c) \/ PatCache(c)
    \/ ListClear(c) \/ Clear(c) \/ DelRefresh(c) \/ DelAccess(c) \/ DelMeta(c)
    \/ ListPurge(c) \/ PurgeGet(c) \/ PurgeDelete(c)
    \/ PatStatus(c) \/ HasRefresh(c) \/ HasAccess(c) \/ StatusMeta(c)
    \/ ListRefresh(c) \/ ListKeys(c) \/ ListEntry(c) \/ ListAccess(c) \/ ListDirect(c)

Next == Tick \/ \E c \in Callers : Call(c) \/ Step(c) \/ Crash(c)

Spec == Init /\ [][Next]_vars

\* The host answers every RPC and the HTTP client gives up after its timeout
\* and retries, so a call that has begun takes its next step.
FairSpec == Spec /\ \A c \in Callers : WF_vars(Step(c))

-----------------------------------------------------------------------------
\* Properties.
Quiet == \A c \in Callers : pc[c] = "idle"

\* A refresh token is only ever stored while it is the one GitHub accepts for
\* its session: no call puts back a token that a rotation has replaced, however
\* refreshes, logins, logouts, failures and crashes interleave
\* (refreshAccessToken and storeCredentials).
OnlyLiveRefreshStored ==
    [][refresh' # refresh /\ refresh' # None
         => refresh'.gen = live[refresh'.owner]]_vars

\* Why that holds.  Nobody else has the token that c is about to store, or a later one.
Exclusive(c) ==
    LET mine == reg[c].refresh IN
    /\ refresh # None /\ refresh.owner = mine.owner => refresh.gen < mine.gen
    /\ \A d \in Callers \ {c} :
         pc[d] \in Holding /\ reg[d].refresh.owner = mine.owner
           => reg[d].refresh.gen < mine.gen

\* No copy of a refresh token is newer than what GitHub accepts, and a successor
\* on its way to the store is current and in one call only (refreshAccessToken
\* and storeCredentials): two calls never both hold the result of a rotation.
RotationInv ==
    /\ refresh # None => refresh.gen <= live[refresh.owner]
    /\ \A c \in Callers : pc[c] \in Holding =>
         reg[c].refresh.gen <= live[reg[c].refresh.owner]
    /\ \A c \in Callers : At(c, "putRefresh") =>
         reg[c].refresh.gen = live[reg[c].refresh.owner] /\ Exclusive(c)

\* A call whose process has no PAT never answers with a PAT, and one that has a
\* PAT never answers with a token of a login (the two cache keys of GetToken
\* and getPATToken).
PatsApart ==
    \A c \in Callers : out[c].kind = "token" =>
        (out[c].entry.token.owner \in Pats <=> out[c].pat # None)

\* Nothing has failed yet.
Unfailing == faults = 0

\* The stored refresh token has been replaced at GitHub.
DeadRefresh == refresh # None /\ refresh.gen < live[refresh.owner]

\* With a reliable host and network, and while nobody logs out, a replaced refresh
\* token in the store is always about to be overwritten by the call that replaced
\* it, so that racing calls never leave a session that cannot be refreshed
\* (refreshAccessToken).
SuccessorOnItsWay ==
    Unfailing /\ DeadRefresh => \E c \in Callers :
        At(c, "putRefresh") /\ reg[c].refresh.owner = refresh.owner

\* The same as something that must happen: a replaced refresh token does not
\* stay in the store.
DeadRefreshReplaced == DeadRefresh ~> ~DeadRefresh

\* The properties of what a call leaves behind hold of calls that do not overlap
\* (see the README for what a race does).

\* After a logout and before the next login nothing of the profile is left in
\* the store (logoutInternal; cli_mode.go: "by clearing stored credentials and
\* cached tokens").
LogoutSticks ==
    Unfailing /\ session = None /\ Quiet =>
        /\ refresh = None /\ access = None /\ metadata = None
        /\ Cached \subseteq {"pat"}

\* After an OAuth login, and whatever tokens were there before it, GetToken
\* answers with tokens of that login (storeCredentials, GetToken).
TokenFollowsLogin ==
    Unfailing => \A c \in Callers :
        out[c].kind = "token" /\ out[c].pat = None /\ session \in Sessions
            => out[c].entry.token.owner = session

\* The same of a GitHub App login, which stores its token "as primary access
\* token".
TokenFollowsAppLogin ==
    \A c \in Callers :
        out[c].kind = "token" /\ out[c].pat = None /\ session = App
            => out[c].entry.token.owner = App

\* Without a PAT, GetStatus names the user of the last login, and reports nobody
\* only when nobody is logged in (the stored credentials that GetStatus reads).
StatusFollowsLogin ==
    Unfailing => \A c \in Callers : out[c].kind = "status" /\ out[c].user \notin Pats =>
        IF out[c].authenticated \/ out[c].expired
        THEN session # None /\ out[c].user = session
        ELSE session = None

\* "so that the token cached by GetToken reflects the original login context":
\* a session recorded with a token or with the credentials is the session they
\* were issued to.
LabelsReflectLogin == Unfailing =>
    /\ \A k \in CacheKeys : cache[k] # None =>
         cache[k].label \in {None, cache[k].token.owner}
    /\ metadata # None /\ metadata.user # None =>
         metadata.label \in {None, metadata.user}

\* Logout goes on when a delete fails: a logout in which one operation failed
\* still ends with GetStatus reporting nobody (logoutInternal).
LoggedOutStatus == faults <= 1 =>
    \A c \in Callers :
        out[c].kind = "status" /\ out[c].user \notin Pats /\ session = None
            => ~out[c].authenticated

\* ListCachedTokens tells what the last login left, whatever was there before:
\* after an OAuth login its access token once, from the cache or directly, or,
\* where there is none, its refresh token; after a logout at most a PAT.
ListingFollowsLogin ==
    Unfailing => \A c \in Callers : out[c].kind = "list" =>
        LET infos == out[c].infos
            main  == {i \in infos : i.at \in {"host", "direct"}} IN
        /\ session \in Sessions =>
             \/ \E i \in main : i.token.owner = session /\ main = {i}
             \/ main = {} /\ \E i \in infos : i.at = "refresh" /\ i.token.owner = session
        /\ session = None => \A i \in infos : i.at = "pat"

\* "Direct access token not in cache": a token that is listed directly is not
\* listed as a cached token too.
DirectNotInCache ==
    \A c \in Callers : out[c].kind = "list" =>
        \A i, j \in out[c].infos : i.at = "direct" /\ j.at \in CacheKeys
                                       => i.token # j.token

\* PurgeExpiredTokens "removes expired access tokens": the entry it deletes has
\* expired.
PurgesOnlyExpired ==
    [][\A c \in Callers : At(c, "purgeDelete") /\ pc'[c] = "purgeGet" =>
         LET k == reg[c].key IN
         cache[k] # None /\ cache'[k] = None => Expired(cache[k])]_vars

\* "GetToken returns a valid access token": the token has not expired when the
\* call returns.
ReturnsValidToken ==
    [][\A c \in Callers : out'[c] # out[c] /\ out'[c].kind = "token"
         => now <= out'[c].entry.token.exp]_vars

=============================================================================
