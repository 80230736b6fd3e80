------------------------------ MODULE Profiles ------------------------------
(***************************************************************************)
(* Profiles: several sets of credentials in one store, kept apart by       *)
(* nothing but the names of the secrets.  A name is the sequence of its    *)
(* parts between dots, without the common "scafctl.auth.github".  Calls in *)
(* different profiles interleave, one RPC to the host at a time.  The calls*)
(* are those that write or delete what a login stores: logins, logouts and *)
(* purges.  Tokens that GetToken mints, PATs, the races of calls in one    *)
(* profile and what may fail are in CliMode.                               *)
(***************************************************************************)
EXTENDS Integers, Sequences

CONSTANTS
    Callers,      \* calls that can be in progress at a time
    Parts,        \* the parts that names are made of
    Requested,    \* the profiles that calls name, valid or not
    Separators,   \* parts of a profile name with one of / \ :
    HostKey,      \* the hash of the host name with ":_github"
    AppKey,       \* the hash of the App and installation with its suffix
    None

Default == <<>>
Fixed   == {"refresh_token", "access_token", "metadata"}

CacheKeys == {HostKey, AppKey}

ASSUME PartsAssumption == Fixed \cup CacheKeys \cup {"token"} \subseteq Parts
ASSUME RequestedAssumption == Requested \subseteq Seq(Parts)
ASSUME CacheKeyAssumption == CacheKeys \cap Fixed = {}

-----------------------------------------------------------------------------
(* Names *)

\* Defect: only the other separators are refused, the dot is not.
ValidDotted(p) == \A i \in DOMAIN p : p[i] \notin Separators

\* validateProfile: none of the separators, and no dot between two parts.
Valid(p) == Len(p) <= 1 /\ \A i \in DOMAIN p : p[i] \notin Separators

\* profileSecretKey, after validateProfile.
Secret(p, key) == p \o <<key>>

\* Defect: every profile has the prefix of the default one.
TokenPrefixShared(p) == <<"token">>

\* profileTokenPrefix, after validateProfile; its last dot is Under's.
TokenPrefix(p) == p \o <<"token">>

Cached(p, k) == TokenPrefix(p) \o <<k>>

Own(p) == {Secret(p, key) : key \in Fixed} \cup {Cached(p, k) : k \in CacheKeys}
Names  == UNION {Own(p) : p \in Requested}

\* The host's pattern prefix + "*".
Under(prefix, n) == Len(n) > Len(prefix) /\ SubSeq(n, 1, Len(prefix)) = prefix

-----------------------------------------------------------------------------
(* State *)

\* by is the profile a value was stored in, and of what kind it is.
Values == [by : Requested, kind : Fixed \cup {"entry"}]
Value(p, kind) == [by |-> p, kind |-> kind]

Labels ==
    { "idle", "putRefresh", "putAccess", "putMeta", "putCache",
      "appCache", "appAccess", "appMeta",
      "listClear", "clear", "delRefresh", "delAccess", "delMeta",
      "listPurge", "purgeGet", "purgeDelete" }

VARIABLES
    store,      \* the host's secrets
    pc,         \* the point each call is at
    profile,    \* the profile of each call
    keys,       \* what is left of the keys a call has listed
    key,        \* the entry that a purge is about to delete
    signedIn,   \* history: profiles whose last login no logout followed
    renewable   \* history: those with a refresh token since their last logout

history == <<signedIn, renewable>>
vars    == <<store, pc, profile, keys, key, history>>

ASSUME NoneAssumption == None \notin Values \cup Names

Busy(p) == \E c \in Callers : pc[c] # "idle" /\ profile[c] = p

Init ==
    /\ store = [n \in Names |-> None]
    /\ pc = [c \in Callers |-> "idle"]
    /\ profile = [c \in Callers |-> Default]
    /\ keys = [c \in Callers |-> {}]
    /\ key = [c \in Callers |-> None]
    /\ signedIn = {}
    /\ renewable = {}

-----------------------------------------------------------------------------
(* Steps *)

Goto(c, l) == pc' = [pc EXCEPT ![c] = l]

\* Nothing of a call outlives it.
Return(c) ==
    /\ pc' = [pc EXCEPT ![c] = "idle"]
    /\ profile' = [profile EXCEPT ![c] = Default]
    /\ UNCHANGED <<keys, key>>

Stay == UNCHANGED <<profile, keys, key>>

\* Every operation validates the profile first; an invalid one is refused.
Call(c, p, first) ==
    /\ pc[c] = "idle" /\ ~Busy(p)
    /\ Valid(p)
    /\ profile' = [profile EXCEPT ![c] = p]
    /\ Goto(c, first)
    /\ UNCHANGED <<store, keys, key, history>>

\* An OAuth login; without a refresh token in GitHub's answer the one of an
\* earlier login stays.
Login(c, p, renewing)    == Call(c, p, IF renewing THEN "putRefresh" ELSE "putAccess")
AppLogin(c, p)           == Call(c, p, "appCache")
Logout(c, p)             == Call(c, p, "listClear")
PurgeExpiredTokens(c, p) == Call(c, p, "listPurge")

\* SetSecret.
Put(c, at, name, kind) ==
    /\ pc[c] = at
    /\ store' = [store EXCEPT ![name] = Value(profile[c], kind)]

\* storeCredentials.
PutRefresh(c) ==
    /\ Put(c, "putRefresh", Secret(profile[c], "refresh_token"), "refresh_token")
    /\ renewable' = renewable \cup {profile[c]}
    /\ Goto(c, "putAccess")
    /\ Stay /\ UNCHANGED signedIn

PutAccess(c) ==
    /\ Put(c, "putAccess", Secret(profile[c], "access_token"), "access_token")
    /\ Goto(c, "putMeta")
    /\ Stay /\ UNCHANGED history

PutMeta(c) ==
    /\ Put(c, "putMeta", Secret(profile[c], "metadata"), "metadata")
    /\ Goto(c, "putCache")
    /\ Stay /\ UNCHANGED history

PutCache(c) ==
    /\ Put(c, "putCache", Cached(profile[c], HostKey), "entry")
    /\ signedIn' = signedIn \cup {profile[c]}
    /\ Return(c) /\ UNCHANGED renewable

\* appLogin.
AppCache(c) ==
    /\ Put(c, "appCache", Cached(profile[c], AppKey), "entry")
    /\ Goto(c, "appAccess")
    /\ Stay /\ UNCHANGED history

AppAccess(c) ==
    /\ Put(c, "appAccess", Secret(profile[c], "access_token"), "access_token")
    /\ Goto(c, "appMeta")
    /\ Stay /\ UNCHANGED history

AppMeta(c) ==
    /\ Put(c, "appMeta", Secret(profile[c], "metadata"), "metadata")
    /\ signedIn' = signedIn \cup {profile[c]}
    /\ Return(c) /\ UNCHANGED renewable

\* ListSecrets with the token prefix of the profile.
Listed(p) == {n \in Names : store[n] # None /\ Under(TokenPrefix(p), n)}

List(c, at, next) ==
    /\ pc[c] = at
    /\ keys' = [keys EXCEPT ![c] = Listed(profile[c])]
    /\ Goto(c, next)
    /\ UNCHANGED <<store, profile, key, history>>

\* cacheClear, then the three deletes of logoutInternal.
ListClear(c) == List(c, "listClear", "clear")

Clear(c) ==
    /\ pc[c] = "clear"
    /\ \E n \in keys[c] :
        /\ store' = [store EXCEPT ![n] = None]
        /\ keys' = [keys EXCEPT ![c] = @ \ {n}]
    /\ UNCHANGED <<pc, profile, key, history>>

Cleared(c) ==
    /\ pc[c] = "clear" /\ keys[c] = {}
    /\ Goto(c, "delRefresh")
    /\ Stay /\ UNCHANGED <<store, history>>

Delete(c, at, k) ==
    /\ pc[c] = at
    /\ store' = [store EXCEPT ![Secret(profile[c], k)] = None]

DelRefresh(c) ==
    /\ Delete(c, "delRefresh", "refresh_token")
    /\ Goto(c, "delAccess")
    /\ Stay /\ UNCHANGED history

DelAccess(c) ==
    /\ Delete(c, "delAccess", "access_token")
    /\ Goto(c, "delMeta")
    /\ Stay /\ UNCHANGED history

DelMeta(c) ==
    /\ Delete(c, "delMeta", "metadata")
    /\ signedIn' = signedIn \ {profile[c]}
    /\ renewable' = renewable \ {profile[c]}
    /\ Return(c)

\* cachePurgeExpired.
ListPurge(c) == List(c, "listPurge", "purgeGet")

\* A token's entry has expired or has not; anything else that is listed, or
\* is gone by now, is left alone.  Metadata parses as an entry, with the zero
\* time for its expiry.
PurgeGet(c) ==
    /\ pc[c] = "purgeGet"
    /\ \E n \in keys[c] :
        /\ keys' = [keys EXCEPT ![c] = @ \ {n}]
        /\ \/ /\ store[n] # None /\ store[n].kind = "entry"
              /\ key' = [key EXCEPT ![c] = n] /\ Goto(c, "purgeDelete")
           \/ UNCHANGED <<key, pc>>
    /\ UNCHANGED <<store, profile, history>>

\* Defect: the loop does not go on with the next key.
PurgeDeleteAgain(c) ==
    /\ pc[c] = "purgeDelete"
    /\ store' = [store EXCEPT ![key[c]] = None]
    /\ key' = [key EXCEPT ![c] = None]
    /\ Goto(c, "purgeDelete")
    /\ UNCHANGED <<profile, keys, history>>

PurgeDelete(c) ==
    /\ pc[c] = "purgeDelete"
    /\ store' = [store EXCEPT ![key[c]] = None]
    /\ key' = [key EXCEPT ![c] = None]
    /\ Goto(c, "purgeGet")
    /\ UNCHANGED <<profile, keys, history>>

Purged(c) ==
    /\ pc[c] = "purgeGet" /\ keys[c] = {}
    /\ Return(c)
    /\ UNCHANGED <<store, history>>

-----------------------------------------------------------------------------
Step(c) ==
    \/ PutRefresh(c) \/ PutAccess(c) \/ PutMeta(c) \/ PutCache(c)
    \/ AppCache(c) \/ AppAccess(c) \/ AppMeta(c)
    \/ ListClear(c) \/ Clear(c) \/ Cleared(c)
    \/ DelRefresh(c) \/ DelAccess(c) \/ DelMeta(c)
    \/ ListPurge(c) \/ PurgeGet(c) \/ PurgeDelete(c) \/ Purged(c)

Next ==
    \E c \in Callers :
        \/ \E p \in Requested :
            \/ \E renewing \in BOOLEAN : Login(c, p, renewing)
            \/ AppLogin(c, p) \/ Logout(c, p) \/ PurgeExpiredTokens(c, p)
        \/ Step(c)

Spec == Init /\ [][Next]_vars

-----------------------------------------------------------------------------
(* Properties *)

TypeOK ==
    /\ store \in [Names -> Values \cup {None}]
    /\ pc \in [Callers -> Labels]
    /\ profile \in [Callers -> Requested \cup {Default}]
    /\ keys \in [Callers -> SUBSET Names]
    /\ key \in [Callers -> Names \cup {None}]
    /\ signedIn \subseteq Requested
    /\ renewable \subseteq Requested
    /\ \A c \in Callers : pc[c] # "idle" => profile[c] \in {p \in Requested : Valid(p)}
    /\ \A c \in Callers : pc[c] = "purgeDelete" => key[c] \in Names

\* The one valid profile whose secrets lie under the token prefix of another,
\* the default one.
Nested == <<"token">>
Apart  == {p \in Requested : Valid(p) /\ p # Nested}

\* What the logins and logouts of a profile leave of a credential: a refresh
\* token outlives the logins that bring none.
Kept(p, k) ==
    IF p \in (IF k = "refresh_token" THEN renewable ELSE signedIn)
    THEN Value(p, k) ELSE None

\* A profile at rest: its logins and its last logout are what the store shows,
\* no matter which other profiles log in, log out and purge meanwhile.
SessionKept(p) == ~Busy(p) => \A k \in Fixed : store[Secret(p, k)] = Kept(p, k)

\* No operation in a profile touches the credentials of another: a session
\* survives every logout and purge elsewhere and ends with its own logout.
\* The profile "token" is excepted: see SessionsKept.
SessionsKeptApart == \A p \in Apart : SessionKept(p)

\* The same for every valid profile.
SessionsKept == \A p \in Requested : Valid(p) => SessionKept(p)

\* A logout removes the cached tokens of its profile, those of its OAuth logins
\* and those of its App logins, and no call in another profile puts any back.
LogoutClears ==
    \A p \in Requested, k \in CacheKeys :
        Valid(p) /\ ~Busy(p) /\ p \notin signedIn => store[Cached(p, k)] = None
=============================================================================
