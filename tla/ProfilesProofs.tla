--------------------------- MODULE ProfilesProofs ---------------------------
(***************************************************************************)
(* Theorems about Profiles, for all profile names, any number of calls and *)
(* any keys of cached tokens: types, that the names of secrets keep apart  *)
(* what they should, that sessions survive calls in other profiles, and    *)
(* that a logout leaves no cached token.                                   *)
(***************************************************************************)
EXTENDS Profiles, SequenceTheorems, TLAPS

USE PartsAssumption, RequestedAssumption, CacheKeyAssumption, NoneAssumption

ValidProfiles == {p \in Requested : Valid(p)}

(***************************************************************************)
(* Names. A valid profile has at most one part, which makes all names of   *)
(* credentials sequences of one or two parts, and those of cached tokens   *)
(* sequences of two or three.                                              *)
(***************************************************************************)
LEMMA OnePart ==
    ASSUME NEW s \in Seq(Parts), NEW k \in Parts
    PROVE  /\ s \o <<k>> \in Seq(Parts)
           /\ Len(s \o <<k>>) = Len(s) + 1
           /\ \A i \in 1 .. Len(s) : (s \o <<k>>)[i] = s[i]
           /\ (s \o <<k>>)[Len(s) + 1] = k
<1>1. <<k>> \in Seq(Parts) /\ Len(<<k>>) = 1 /\ <<k>>[1] = k
  OBVIOUS
<1>2. Len(s) \in Nat
  OBVIOUS
<1> QED BY <1>1, <1>2, ConcatProperties

LEMMA ProfileParts ==
    ASSUME NEW p \in ValidProfiles
    PROVE  /\ p \in Seq(Parts)
           /\ Len(p) = 0 \/ Len(p) = 1
           /\ p = Default => Len(p) = 0
           /\ Len(p) = 0 => p = Default
<1>1. p \in Seq(Parts) /\ Len(p) <= 1
  BY DEF ValidProfiles, Valid
<1>2. Len(p) \in Nat
  BY <1>1, LenProperties
<1>3. Len(p) = 0 <=> p = Default
  BY <1>1, EmptySeq DEF Default
<1>4. \A n \in Nat : n <= 1 => n = 0 \/ n = 1
  OBVIOUS
<1> QED BY <1>1, <1>2, <1>3, <1>4

LEMMA FixedKeys == Fixed \subseteq Parts /\ CacheKeys \subseteq Parts /\ CacheKeys \cap Fixed = {}
  BY DEF Fixed

LEMMA SecretParts ==
    ASSUME NEW p \in ValidProfiles, NEW k \in Parts
    PROVE  /\ Secret(p, k) \in Seq(Parts)
           /\ Len(Secret(p, k)) = Len(p) + 1
           /\ \A i \in 1 .. Len(p) : Secret(p, k)[i] = p[i]
           /\ Secret(p, k)[Len(p) + 1] = k
  BY ProfileParts, OnePart DEF Secret

LEMMA PrefixParts ==
    ASSUME NEW p \in ValidProfiles
    PROVE  /\ TokenPrefix(p) \in Seq(Parts)
           /\ Len(TokenPrefix(p)) = Len(p) + 1
           /\ \A i \in 1 .. Len(p) : TokenPrefix(p)[i] = p[i]
           /\ TokenPrefix(p)[Len(p) + 1] = "token"
  BY ProfileParts, OnePart DEF TokenPrefix

LEMMA CachedParts ==
    ASSUME NEW p \in ValidProfiles, NEW k \in CacheKeys
    PROVE  /\ Cached(p, k) \in Seq(Parts)
           /\ Len(Cached(p, k)) = Len(p) + 2
           /\ \A i \in 1 .. Len(p) : Cached(p, k)[i] = p[i]
           /\ Cached(p, k)[Len(p) + 2] = k
<1>1. Len(p) \in Nat
  BY ProfileParts
<1>2. /\ TokenPrefix(p) \in Seq(Parts)
      /\ Len(TokenPrefix(p)) = Len(p) + 1
      /\ \A i \in 1 .. Len(p) : TokenPrefix(p)[i] = p[i]
  BY PrefixParts
<1>3. /\ Cached(p, k) \in Seq(Parts)
      /\ Len(Cached(p, k)) = Len(TokenPrefix(p)) + 1
      /\ \A i \in 1 .. Len(TokenPrefix(p)) : Cached(p, k)[i] = TokenPrefix(p)[i]
      /\ Cached(p, k)[Len(TokenPrefix(p)) + 1] = k
  BY <1>2, FixedKeys, OnePart DEF Cached
<1> HIDE DEF Cached, TokenPrefix
<1> QED BY <1>1, <1>2, <1>3

\* Two profiles are equal when their parts are.
LEMMA SameProfile ==
    ASSUME NEW p \in ValidProfiles, NEW q \in ValidProfiles, Len(p) = Len(q),
           \A i \in 1 .. Len(p) : p[i] = q[i]
    PROVE  p = q
  BY ProfileParts, SeqEqual

\* The name of a credential determines the profile and the credential.
LEMMA SecretInjective ==
    ASSUME NEW p \in ValidProfiles, NEW q \in ValidProfiles,
           NEW j \in Fixed, NEW k \in Fixed, Secret(p, j) = Secret(q, k)
    PROVE  p = q /\ j = k
<1>1. j \in Parts /\ k \in Parts /\ Len(p) \in Nat /\ Len(q) \in Nat
  BY FixedKeys, ProfileParts
<1>2. Len(p) = Len(q)
  BY <1>1, SecretParts
<1>3. \A i \in 1 .. Len(p) : p[i] = q[i]
  <2>1. /\ \A i \in 1 .. Len(p) : Secret(p, j)[i] = p[i]
        /\ \A i \in 1 .. Len(q) : Secret(q, k)[i] = q[i]
    BY <1>1, SecretParts
  <2> QED BY <1>2, <2>1
<1>4. Secret(p, j)[Len(p) + 1] = j /\ Secret(q, k)[Len(q) + 1] = k
  BY <1>1, SecretParts
<1>5. p = q
  BY <1>2, <1>3, SameProfile
<1> QED BY <1>4, <1>5

\* No credential has the name of a cached token.
LEMMA SecretNotCached ==
    ASSUME NEW p \in ValidProfiles, NEW q \in ValidProfiles,
           NEW k \in Fixed, NEW h \in CacheKeys
    PROVE  Secret(p, k) # Cached(q, h)
<1> SUFFICES ASSUME Secret(p, k) = Cached(q, h) PROVE FALSE
  OBVIOUS
<1>1. k \in Parts /\ k # h /\ Len(p) \in Nat /\ Len(q) \in Nat
  BY FixedKeys, ProfileParts
<1>2. Len(p) + 1 = Len(q) + 2
  BY <1>1, SecretParts, CachedParts
<1>3. Secret(p, k)[Len(p) + 1] = k /\ Cached(q, h)[Len(q) + 2] = h
  BY <1>1, SecretParts, CachedParts
<1> QED BY <1>1, <1>2, <1>3

LEMMA CachedInjective ==
    ASSUME NEW p \in ValidProfiles, NEW q \in ValidProfiles,
           NEW j \in CacheKeys, NEW k \in CacheKeys, Cached(p, j) = Cached(q, k)
    PROVE  p = q
<1>1. Len(p) \in Nat /\ Len(q) \in Nat
  BY ProfileParts
<1>2. Len(p) = Len(q)
  BY <1>1, CachedParts
<1>3. \A i \in 1 .. Len(p) : p[i] = q[i]
  BY <1>1, <1>2, CachedParts
<1> QED BY <1>2, <1>3, SameProfile

\* The theorem about names: the pattern with which a profile lists its cached
\* tokens matches no credential of any valid profile but the one named "token"
\* (profileTokenPrefix, profileSecretKey and validateProfile).
THEOREM PatternsApart ==
    ASSUME NEW p \in Apart, NEW q \in ValidProfiles, NEW k \in Fixed
    PROVE  ~Under(TokenPrefix(q), Secret(p, k))
<1> SUFFICES ASSUME Under(TokenPrefix(q), Secret(p, k)) PROVE FALSE
  OBVIOUS
<1>1. k \in Parts /\ p \in ValidProfiles /\ p # Nested
  BY FixedKeys DEF Apart, ValidProfiles
<1>2. Len(p) \in {0, 1} /\ Len(q) \in {0, 1}
  BY <1>1, ProfileParts
<1>3. Len(Secret(p, k)) = Len(p) + 1 /\ Len(TokenPrefix(q)) = Len(q) + 1
  BY <1>1, SecretParts, PrefixParts
<1>4. Len(p) = 1 /\ Len(q) = 0
  BY <1>2, <1>3 DEF Under
<1>5. SubSeq(Secret(p, k), 1, 1) = TokenPrefix(q)
  BY <1>3, <1>4 DEF Under
<1>6. SubSeq(Secret(p, k), 1, 1)[1] = Secret(p, k)[1]
  <2>1. Secret(p, k) \in Seq(Parts) /\ Len(Secret(p, k)) = Len(p) + 1
    BY <1>1, SecretParts
  <2> HIDE DEF Secret
  <2> QED BY <2>1, <1>4
<1>7. Secret(p, k)[1] = p[1] /\ TokenPrefix(q)[1] = "token"
  BY <1>1, <1>4, SecretParts, PrefixParts
<1>8. p[1] = "token"
  BY <1>5, <1>6, <1>7
<1>9. p = Nested
  <2>1. Nested \in Seq(Parts) /\ Len(Nested) = 1 /\ Nested[1] = "token"
    BY DEF Nested
  <2>2. p \in Seq(Parts)
    BY <1>1, ProfileParts
  <2>3. \A i \in 1 .. Len(p) : p[i] = Nested[i]
    BY <1>4, <1>8, <2>1
  <2> HIDE DEF Nested
  <2> QED BY <1>4, <2>1, <2>2, <2>3, SeqEqual
<1> QED BY <1>1, <1>9

LEMMA NamesOfValid ==
    ASSUME NEW p \in ValidProfiles
    PROVE  /\ \A k \in Fixed : Secret(p, k) \in Names
           /\ \A k \in CacheKeys : Cached(p, k) \in Names
  BY DEF ValidProfiles, Names, Own

(***************************************************************************)
(* TypeOK is inductive.                                                    *)
(***************************************************************************)
LEMMA InitType == Init => TypeOK
  BY DEF Init, TypeOK, Labels

LEMMA NextType == TypeOK /\ [Next]_vars => TypeOK'
<1> SUFFICES ASSUME TypeOK, [Next]_vars PROVE TypeOK'
  OBVIOUS
<1> USE DEF Labels, history
<1>0. \A c \in Callers : pc[c] # "idle" =>
        /\ profile[c] \in Requested /\ profile[c] \in ValidProfiles
        /\ \A k \in CacheKeys : Cached(profile[c], k) \in Names
        /\ \A k \in Fixed : Secret(profile[c], k) \in Names
        /\ \A k \in Fixed \cup {"entry"} : Value(profile[c], k) \in Values
  BY NamesOfValid DEF TypeOK, ValidProfiles, Value, Values
<1>1. ASSUME NEW c \in Callers, NEW p \in Requested, NEW l \in Labels \ {"purgeDelete"},
             Call(c, p, l)
      PROVE  TypeOK'
  BY <1>1 DEF Call, Goto, TypeOK
\* A write under a name of the store, and a step to another point or to the end.
<1>2. ASSUME NEW c \in Callers, pc[c] # "idle", NEW n \in Names, NEW v \in Values \cup {None},
             store' = [store EXCEPT ![n] = v],
             \/ (\E l \in Labels \ {"purgeDelete"} : Goto(c, l)) /\ Stay
             \/ Return(c),
             signedIn' \subseteq Requested, renewable' \subseteq Requested
      PROVE  TypeOK'
  <2>1. store' \in [Names -> Values \cup {None}]
    BY <1>2 DEF TypeOK
  <2>2. CASE \E l \in Labels \ {"purgeDelete"} : Goto(c, l) /\ Stay
    BY <1>2, <2>1, <2>2 DEF Goto, Stay, TypeOK
  <2>3. CASE Return(c)
    BY <1>2, <2>1, <2>3 DEF Return, TypeOK
  <2> QED BY <1>2, <2>2, <2>3
<1>3. signedIn \subseteq Requested /\ renewable \subseteq Requested
  BY DEF TypeOK
<1>4. ASSUME NEW c \in Callers, NEW a \in Labels \ {"idle"},
             NEW l \in Labels \ {"purgeDelete"}, List(c, a, l)
      PROVE  TypeOK'
  BY <1>4 DEF List, Goto, Listed, TypeOK
<1>5. ASSUME NEW c \in Callers, Clear(c) PROVE TypeOK'
  BY <1>5 DEF Clear, TypeOK
<1>6. ASSUME NEW c \in Callers, Cleared(c) PROVE TypeOK'
  BY <1>6 DEF Cleared, Goto, Stay, TypeOK
<1>7. ASSUME NEW c \in Callers, PutRefresh(c) \/ PutAccess(c) \/ PutMeta(c) PROVE TypeOK'
  BY <1>0, <1>2, <1>3, <1>7 DEF PutRefresh, PutAccess, PutMeta, Put, Fixed
<1>8. ASSUME NEW c \in Callers, PutCache(c) PROVE TypeOK'
  BY <1>0, <1>2, <1>3, <1>8 DEF PutCache, Put, CacheKeys
<1>9. ASSUME NEW c \in Callers, AppCache(c) PROVE TypeOK'
  BY <1>0, <1>2, <1>3, <1>9 DEF AppCache, Put, CacheKeys
<1>10. ASSUME NEW c \in Callers, AppAccess(c) \/ AppMeta(c) PROVE TypeOK'
  BY <1>0, <1>2, <1>3, <1>10 DEF AppAccess, AppMeta, Put, Fixed
<1>11. ASSUME NEW c \in Callers, DelRefresh(c) \/ DelAccess(c) \/ DelMeta(c) PROVE TypeOK'
  BY <1>0, <1>2, <1>3, <1>11 DEF DelRefresh, DelAccess, DelMeta, Delete, Fixed
<1>12. ASSUME NEW c \in Callers, PurgeGet(c) PROVE TypeOK'
  BY <1>12 DEF PurgeGet, Goto, TypeOK
<1>13. ASSUME NEW c \in Callers, PurgeDelete(c) PROVE TypeOK'
  BY <1>13 DEF PurgeDelete, Goto, TypeOK
<1>14. ASSUME NEW c \in Callers, Purged(c) PROVE TypeOK'
  BY <1>14 DEF Purged, Return, TypeOK
<1>15. CASE UNCHANGED vars
  BY <1>15 DEF vars, TypeOK
<1>16. ASSUME NEW c \in Callers, Step(c) PROVE TypeOK'
  BY <1>4, <1>5, <1>6, <1>7, <1>8, <1>9, <1>10, <1>11, <1>12, <1>13, <1>14, <1>16
     DEF Step, ListClear, ListPurge
<1>17. ASSUME NEW c \in Callers, NEW p \in Requested,
              \/ \E renewing \in BOOLEAN : Login(c, p, renewing)
              \/ AppLogin(c, p) \/ Logout(c, p) \/ PurgeExpiredTokens(c, p)
       PROVE  TypeOK'
  BY <1>1, <1>17 DEF Login, AppLogin, Logout, PurgeExpiredTokens
<1> QED BY <1>15, <1>16, <1>17 DEF Next

\* The store holds only values stored by a profile, and calls hold only names
\* (cache.go, token.go).
THEOREM TypeCorrect == Spec => []TypeOK
  BY InitType, NextType, PTL DEF Spec

(***************************************************************************)
(* SessionsKeptApart is not inductive. Calls in progress are in different  *)
(* profiles, a call that loops holds keys under its own pattern only, and  *)
(* a credential shows, at every point of a call, what the call has done to *)
(* it so far, or what earlier calls left of it.                            *)
(***************************************************************************)
InTurn == \A c, d \in Callers :
    pc[c] # "idle" /\ pc[d] # "idle" /\ profile[c] = profile[d] => c = d

Looping == {"clear", "purgeGet", "purgeDelete"}

\* The keys of a call are its own profile's.
KeysOf(c) ==
    /\ pc[c] \notin Looping => keys[c] = {}
    /\ \A n \in keys[c] : Under(TokenPrefix(profile[c]), n)
    /\ pc[c] = "purgeDelete" => Under(TokenPrefix(profile[c]), key[c])

KeysListed == \A c \in Callers : KeysOf(c)

\* What a call at l has done, of what it has not yet done with.
PutBy(l) == IF l \in {"putMeta", "appMeta"} THEN {"access_token"}
            ELSE IF l = "putCache" THEN {"access_token", "metadata"} ELSE {}
DeletedBy(l) == IF l = "delAccess" THEN {"refresh_token"}
                ELSE IF l = "delMeta" THEN {"refresh_token", "access_token"} ELSE {}

\* A credential of p while its call is at l.
Shows(p, k, l) ==
    /\ k \in PutBy(l) => store[Secret(p, k)] = Value(p, k)
    /\ k \in DeletedBy(l) => store[Secret(p, k)] = None
    /\ k \notin PutBy(l) \cup DeletedBy(l) => store[Secret(p, k)] = Kept(p, k)

Sessions ==
    /\ \A c \in Callers : pc[c] # "idle" /\ profile[c] \in Apart =>
         \A k \in Fixed : Shows(profile[c], k, pc[c])
    /\ SessionsKeptApart

Inv == InTurn /\ KeysListed /\ Sessions

LEMMA InitInv == Init => Inv
<1> SUFFICES ASSUME Init PROVE Inv
  OBVIOUS
<1>1. InTurn /\ KeysListed
  BY DEF Init, InTurn, KeysListed, KeysOf
<1>2. SessionsKeptApart
  BY NamesOfValid DEF Init, SessionsKeptApart, SessionKept, Kept, Apart, ValidProfiles
<1>3. Sessions
  BY <1>2 DEF Init, Sessions
<1> QED BY <1>1, <1>3 DEF Inv

LEMMA ProfileOfCall ==
    ASSUME TypeOK, NEW c \in Callers, pc[c] # "idle"
    PROVE  profile[c] \in ValidProfiles
  BY DEF TypeOK, ValidProfiles

\* A step of a call concerns this call only, and leaves its profile as it is.
LEMMA StepMoves ==
    ASSUME TypeOK, NEW c \in Callers, Step(c)
    PROVE  /\ pc[c] # "idle"
           /\ \A d \in Callers \ {c} : /\ pc'[d] = pc[d] /\ profile'[d] = profile[d]
                                       /\ keys'[d] = keys[d] /\ key'[d] = key[d]
           /\ pc'[c] # "idle" => profile'[c] = profile[c]
<1> USE DEF TypeOK
<1>1. CASE PutRefresh(c) \/ PutAccess(c) \/ PutMeta(c) \/ AppCache(c) \/ AppAccess(c)
  BY <1>1 DEF PutRefresh, PutAccess, PutMeta, AppCache, AppAccess, Put, Goto, Stay
<1>2. CASE PutCache(c) \/ AppMeta(c) \/ DelMeta(c) \/ Purged(c)
  BY <1>2 DEF PutCache, AppMeta, DelMeta, Put, Delete, Purged, Return
<1>3. CASE ListClear(c) \/ ListPurge(c)
  BY <1>3 DEF ListClear, ListPurge, List, Goto
<1>4. CASE Clear(c)
  BY <1>4 DEF Clear
<1>5. CASE Cleared(c) \/ DelRefresh(c) \/ DelAccess(c)
  BY <1>5 DEF Cleared, DelRefresh, DelAccess, Delete, Goto, Stay
<1>6. CASE PurgeGet(c) \/ PurgeDelete(c)
  BY <1>6 DEF PurgeGet, PurgeDelete, Goto
<1> QED BY <1>1, <1>2, <1>3, <1>4, <1>5, <1>6 DEF Step

\* A call begins: where, and in which profile.
Begins(c, p) ==
    \E l \in {"putRefresh", "putAccess", "appCache", "listClear", "listPurge"} : Call(c, p, l)

LEMMA Beginning ==
    ASSUME [Next]_vars
    PROVE  \/ \E c \in Callers : Step(c)
           \/ \E c \in Callers, p \in Requested : Begins(c, p)
           \/ UNCHANGED vars
  BY DEF Next, Begins, Login, AppLogin, Logout, PurgeExpiredTokens

\* What it changes.
LEMMA CallMoves ==
    ASSUME TypeOK, NEW c \in Callers, NEW p \in Requested, Begins(c, p)
    PROVE  /\ pc[c] = "idle" /\ ~Busy(p) /\ Valid(p) /\ profile'[c] = p
           /\ pc'[c] \in {"putRefresh", "putAccess", "appCache", "listClear", "listPurge"}
           /\ \A d \in Callers \ {c} : pc'[d] = pc[d] /\ profile'[d] = profile[d]
           /\ UNCHANGED <<store, keys, key, signedIn, renewable>>
  BY DEF Begins, Call, Goto, TypeOK, history

LEMMA NextTurn == TypeOK /\ InTurn /\ [Next]_vars => InTurn'
<1> SUFFICES ASSUME TypeOK, InTurn, [Next]_vars PROVE InTurn'
  OBVIOUS
<1>1. ASSUME NEW c \in Callers, Step(c) PROVE InTurn'
  <2>1. \A d \in Callers : pc'[d] # "idle" => pc[d] # "idle" /\ profile'[d] = profile[d]
    BY <1>1, StepMoves
  <2> QED BY <2>1 DEF InTurn
<1>2. ASSUME NEW c \in Callers, NEW p \in Requested, Begins(c, p) PROVE InTurn'
  BY <1>2, CallMoves DEF InTurn, Busy
<1>3. CASE UNCHANGED vars
  BY <1>3 DEF vars, InTurn
<1> QED BY <1>1, <1>2, <1>3, Beginning

LEMMA NextKeys == TypeOK /\ KeysListed /\ [Next]_vars => KeysListed'
<1> SUFFICES ASSUME TypeOK, KeysListed, [Next]_vars PROVE KeysListed'
  OBVIOUS
<1>a. \A c \in Callers : KeysOf(c)
  BY DEF KeysListed
<1>b. SUFFICES \A c \in Callers : KeysOf(c)'
  BY DEF KeysListed
<1>1. ASSUME NEW c \in Callers, Step(c), KeysOf(c)' PROVE \A d \in Callers : KeysOf(d)'
  BY <1>a, <1>1, StepMoves DEF KeysOf
<1> USE DEF Looping, TypeOK
<1>2. ASSUME NEW c \in Callers, Step(c) PROVE KeysOf(c)'
  <2>1. CASE PutRefresh(c) \/ PutAccess(c) \/ PutMeta(c) \/ AppCache(c) \/ AppAccess(c)
    BY <1>a, <2>1
       DEF PutRefresh, PutAccess, PutMeta, AppCache, AppAccess, Put, Goto, Stay, KeysOf
  <2>2. CASE PutCache(c) \/ AppMeta(c) \/ DelMeta(c) \/ Purged(c)
    BY <1>a, <2>2 DEF PutCache, AppMeta, DelMeta, Put, Delete, Purged, Return, KeysOf
  <2>3. CASE ListClear(c) \/ ListPurge(c)
    BY <1>a, <2>3 DEF ListClear, ListPurge, List, Listed, Goto, KeysOf
  <2>4. CASE Clear(c)
    BY <1>a, <2>4 DEF Clear, KeysOf
  <2>5. CASE Cleared(c) \/ DelRefresh(c) \/ DelAccess(c)
    BY <1>a, <2>5 DEF Cleared, DelRefresh, DelAccess, Delete, Goto, Stay, KeysOf
  <2>6. CASE PurgeGet(c)
    BY <1>a, <2>6 DEF PurgeGet, Goto, KeysOf
  <2>7. CASE PurgeDelete(c)
    BY <1>a, <2>7 DEF PurgeDelete, Goto, KeysOf
  <2> QED BY <1>2, <2>1, <2>2, <2>3, <2>4, <2>5, <2>6, <2>7 DEF Step
<1>3. ASSUME NEW c \in Callers, NEW p \in Requested, Begins(c, p)
      PROVE  \A d \in Callers : KeysOf(d)'
  BY <1>a, <1>3, CallMoves DEF KeysOf
<1>4. CASE UNCHANGED vars
  BY <1>a, <1>4 DEF vars, KeysOf
<1> QED BY <1>1, <1>2, <1>3, <1>4, Beginning

\* Nothing of p changes.
Untouched(p) ==
    /\ \A k \in Fixed : store'[Secret(p, k)] = store[Secret(p, k)]
    /\ p \in signedIn' <=> p \in signedIn
    /\ p \in renewable' <=> p \in renewable

ShowsAfter(p, k, l) == Shows(p, k, l)'

\* A step keeps Sessions if it leaves other profiles alone, and its own
\* credentials as they should be where it leads.
LEMMA StepSessions ==
    ASSUME TypeOK, InTurn, Sessions, NEW c \in Callers, Step(c),
           NEW q, q = profile[c], NEW l, l = pc'[c],
           \A p \in Apart : p # q => Untouched(p),
           q \in Apart => \A k \in Fixed : ShowsAfter(q, k, l)
    PROVE  Sessions'
<1>1. /\ pc[c] # "idle"
      /\ \A d \in Callers \ {c} : pc'[d] = pc[d] /\ profile'[d] = profile[d]
      /\ l # "idle" => profile'[c] = q
  BY StepMoves
<1>2. ASSUME NEW d \in Callers, pc'[d] # "idle", profile'[d] \in Apart, NEW k \in Fixed,
             NEW p, p = profile'[d], NEW m, m = pc'[d]
      PROVE  ShowsAfter(p, k, m)
  <2>1. CASE d = c
    BY <1>1, <1>2, <2>1
  <2>2. CASE d # c
    <3>1. pc[d] = m /\ profile[d] = p /\ p # q /\ p \in Apart
      BY <1>1, <1>2, <2>2 DEF InTurn
    <3>2. Shows(p, k, m)
      BY <1>2, <3>1 DEF Sessions
    <3>3. Untouched(p)
      BY <3>1
    <3> QED BY <3>2, <3>3 DEF ShowsAfter, Shows, Kept, Untouched
  <2> QED BY <2>1, <2>2
<1>3. ASSUME NEW p \in Apart, ~Busy(p)', NEW k \in Fixed
      PROVE  store'[Secret(p, k)] = Kept(p, k)'
  <2>1. CASE p = q
    <3>1. l = "idle"
      BY <1>1, <1>3, <2>1 DEF Busy
    <3>2. ShowsAfter(q, k, "idle")
      BY <2>1, <3>1
    <3> QED BY <2>1, <3>2 DEF ShowsAfter, Shows, PutBy, DeletedBy
  <2>2. CASE p # q
    <3>1. ~Busy(p)
      BY <1>1, <1>3, <2>2 DEF Busy
    <3>2. store[Secret(p, k)] = Kept(p, k)
      BY <3>1 DEF Sessions, SessionsKeptApart, SessionKept
    <3>3. Untouched(p)
      BY <2>2
    <3> QED BY <3>2, <3>3 DEF Kept, Untouched
  <2> QED BY <2>1, <2>2
<1>4. SessionsKeptApart'
  BY <1>3 DEF SessionsKeptApart, SessionKept
<1> QED BY <1>2, <1>4 DEF Sessions, ShowsAfter

\* A cached token, or a key that was listed, is no credential of these profiles.
LEMMA Elsewhere ==
    ASSUME TypeOK, NEW q \in ValidProfiles, NEW n \in Names, NEW v,
           (\E h \in CacheKeys : n = Cached(q, h)) \/ Under(TokenPrefix(q), n),
           store' = [store EXCEPT ![n] = v]
    PROVE  \A p \in Apart, k \in Fixed : store'[Secret(p, k)] = store[Secret(p, k)]
<1>1. Apart \subseteq ValidProfiles
  BY DEF Apart, ValidProfiles
<1>2. \A p \in Apart, k \in Fixed : Secret(p, k) # n
  BY <1>1, SecretNotCached, PatternsApart
<1>3. \A p \in Apart, k \in Fixed : Secret(p, k) \in Names
  BY <1>1, NamesOfValid
<1> QED BY <1>2, <1>3 DEF TypeOK

Writes(q, k, v) == store' = [store EXCEPT ![Secret(q, k)] = v]

\* A credential of q is one of q alone.
LEMMA OwnCredential ==
    ASSUME TypeOK, NEW q \in ValidProfiles, NEW k \in Fixed, NEW v, Writes(q, k, v)
    PROVE  \A p \in ValidProfiles, j \in Fixed :
             store'[Secret(p, j)] = IF p = q /\ j = k THEN v ELSE store[Secret(p, j)]
  BY NamesOfValid, SecretInjective DEF TypeOK, Writes

LEMMA NextSessions == TypeOK /\ Inv /\ [Next]_vars => Sessions'
<1> SUFFICES ASSUME TypeOK, Inv, [Next]_vars PROVE Sessions'
  OBVIOUS
<1>a. Sessions /\ InTurn /\ KeysListed
  BY DEF Inv
<1>b. Apart \subseteq ValidProfiles
  BY DEF Apart, ValidProfiles
<1> USE DEF history
\* A step that writes no credential and does not end a login or a logout.
<1>1. ASSUME NEW c \in Callers, Step(c),
             \A p \in Apart, k \in Fixed : store'[Secret(p, k)] = store[Secret(p, k)],
             UNCHANGED <<signedIn, renewable>>,
             PutBy(pc'[c]) = PutBy(pc[c]), DeletedBy(pc'[c]) = DeletedBy(pc[c])
      PROVE  Sessions'
  <2>a. PICK q, l : q = profile[c] /\ l = pc'[c]
    OBVIOUS
  <2>1. \A p \in Apart : Untouched(p)
    BY <1>1 DEF Untouched
  <2>2. ASSUME q \in Apart, NEW k \in Fixed PROVE ShowsAfter(q, k, l)
    <3>1. Shows(q, k, pc[c])
      BY <1>a, <1>1, <2>a, <2>2, StepMoves DEF Sessions
    <3> QED BY <1>1, <2>a, <2>2, <3>1 DEF ShowsAfter, Shows, Kept
  <2> QED BY <1>a, <1>1, <2>a, <2>1, <2>2, StepSessions
\* A step that writes the credential k of its profile.
<1>2. ASSUME NEW c \in Callers, Step(c), NEW k \in Fixed, NEW v, NEW l, l = pc'[c],
             NEW q, q = profile[c],
             Writes(q, k, v),
             \A p : p # q => (p \in signedIn' <=> p \in signedIn),
             \A p : p # q => (p \in renewable' <=> p \in renewable),
             \A j \in Fixed :
               (/\ Shows(q, j, pc[c])
                /\ store'[Secret(q, j)] = IF j = k THEN v ELSE store[Secret(q, j)])
               => ShowsAfter(q, j, l)
      PROVE  Sessions'
  <2>1. q \in ValidProfiles /\ pc[c] # "idle"
    BY <1>2, ProfileOfCall, StepMoves
  <2>2. \A p \in ValidProfiles, j \in Fixed :
          store'[Secret(p, j)] = IF p = q /\ j = k THEN v ELSE store[Secret(p, j)]
    BY <1>2, <2>1, OwnCredential
  <2>3. \A p \in Apart : p # q => Untouched(p)
    BY <1>b, <1>2, <2>2 DEF Untouched
  <2>4. q \in Apart => \A j \in Fixed : Shows(q, j, pc[c])
    BY <1>a, <1>2, <2>1 DEF Sessions
  <2>5. q \in Apart => \A j \in Fixed : ShowsAfter(q, j, l)
    BY <1>2, <2>1, <2>2, <2>4
  <2> QED BY <1>a, <1>2, <2>3, <2>5, StepSessions
<1> USE DEF TypeOK
<1>3. ASSUME NEW c \in Callers, Step(c) PROVE Sessions'
  <2>1. PICK q : q = profile[c]
    OBVIOUS
  <2>2. CASE ListClear(c) \/ ListPurge(c) \/ Cleared(c) \/ PurgeGet(c) \/ Purged(c)
    <3>1. /\ UNCHANGED <<store, signedIn, renewable>>
          /\ pc[c] \in {"listClear", "listPurge", "clear", "purgeGet"}
          /\ pc'[c] \in {"clear", "purgeGet", "delRefresh", "purgeDelete", "idle"}
      BY <2>2 DEF ListClear, ListPurge, List, Cleared, PurgeGet, Purged, Goto, Stay, Return
    <3>2. PutBy(pc'[c]) = PutBy(pc[c]) /\ DeletedBy(pc'[c]) = DeletedBy(pc[c])
      BY <3>1 DEF PutBy, DeletedBy
    <3> QED BY <1>1, <1>3, <3>1, <3>2
  <2>3. CASE Clear(c) \/ PurgeDelete(c) \/ AppCache(c)
    <3>1. \E n \in Names : \E v :
            /\ store' = [store EXCEPT ![n] = v]
            /\ (\E h \in CacheKeys : n = Cached(q, h)) \/ Under(TokenPrefix(q), n)
      <4>1. pc[c] # "idle" /\ profile[c] \in ValidProfiles /\ KeysOf(c)
        BY <1>a, <1>3, StepMoves, ProfileOfCall DEF KeysListed
      <4>2. CASE Clear(c)
        BY <2>1, <4>1, <4>2 DEF Clear, KeysOf
      <4>3. CASE PurgeDelete(c)
        BY <2>1, <4>1, <4>3 DEF PurgeDelete, KeysOf
      <4>4. CASE AppCache(c)
        BY <2>1, <4>1, <4>4, NamesOfValid DEF AppCache, Put, CacheKeys
      <4> QED BY <2>3, <4>2, <4>3, <4>4
    <3>2. q \in ValidProfiles
      BY <1>3, <2>1, StepMoves, ProfileOfCall
    <3>3. \A p \in Apart, k \in Fixed : store'[Secret(p, k)] = store[Secret(p, k)]
      BY <3>1, <3>2, Elsewhere
    <3>4. /\ UNCHANGED <<signedIn, renewable>>
          /\ pc[c] \in {"clear", "purgeDelete", "appCache"}
          /\ pc'[c] \in {"clear", "purgeGet", "appAccess"}
      BY <2>3 DEF Clear, PurgeDelete, AppCache, Put, Goto, Stay
    <3>5. PutBy(pc'[c]) = PutBy(pc[c]) /\ DeletedBy(pc'[c]) = DeletedBy(pc[c])
      BY <3>4 DEF PutBy, DeletedBy
    <3> QED BY <1>1, <1>3, <3>3, <3>4, <3>5
  <2>4. CASE PutRefresh(c)
    <3>1. /\ pc[c] = "putRefresh" /\ pc'[c] = "putAccess"
          /\ Writes(q, "refresh_token", Value(q, "refresh_token"))
          /\ renewable' = renewable \cup {q} /\ signedIn' = signedIn
      BY <2>1, <2>4 DEF Writes, PutRefresh, Put, Goto, Stay
    <3>2. ASSUME NEW j \in Fixed, Shows(q, j, pc[c]), NEW l, l = pc'[c],
                 store'[Secret(q, j)] = IF j = "refresh_token" THEN Value(q, "refresh_token")
                                        ELSE store[Secret(q, j)]
          PROVE  ShowsAfter(q, j, l)
      BY <3>1, <3>2 DEF ShowsAfter, Shows, Kept, PutBy, DeletedBy, Fixed
    <3>3. "refresh_token" \in Fixed
      BY DEF Fixed
    <3>4. /\ \A p : p # q => (p \in signedIn' <=> p \in signedIn)
          /\ \A p : p # q => (p \in renewable' <=> p \in renewable)
      BY <3>1
    <3> QED BY <1>2, <1>3, <2>1, <3>1, <3>2, <3>3, <3>4
  <2>5. CASE PutAccess(c) \/ AppAccess(c)
    <3>1. /\ \/ pc[c] = "putAccess" /\ pc'[c] = "putMeta"
             \/ pc[c] = "appAccess" /\ pc'[c] = "appMeta"
          /\ Writes(q, "access_token", Value(q, "access_token"))
          /\ UNCHANGED <<signedIn, renewable>>
      BY <2>1, <2>5 DEF Writes, PutAccess, AppAccess, Put, Goto, Stay
    <3>2. ASSUME NEW j \in Fixed, Shows(q, j, pc[c]), NEW l, l = pc'[c],
                 store'[Secret(q, j)] = IF j = "access_token" THEN Value(q, "access_token")
                                        ELSE store[Secret(q, j)]
          PROVE  ShowsAfter(q, j, l)
      BY <3>1, <3>2 DEF ShowsAfter, Shows, Kept, PutBy, DeletedBy, Fixed
    <3>3. "access_token" \in Fixed
      BY DEF Fixed
    <3>4. /\ \A p : p # q => (p \in signedIn' <=> p \in signedIn)
          /\ \A p : p # q => (p \in renewable' <=> p \in renewable)
      BY <3>1
    <3> QED BY <1>2, <1>3, <2>1, <3>1, <3>2, <3>3, <3>4
  <2>6. CASE PutMeta(c)
    <3>1. /\ pc[c] = "putMeta" /\ pc'[c] = "putCache"
          /\ Writes(q, "metadata", Value(q, "metadata"))
          /\ UNCHANGED <<signedIn, renewable>>
      BY <2>1, <2>6 DEF Writes, PutMeta, Put, Goto, Stay
    <3>2. ASSUME NEW j \in Fixed, Shows(q, j, pc[c]), NEW l, l = pc'[c],
                 store'[Secret(q, j)] = IF j = "metadata" THEN Value(q, "metadata")
                                        ELSE store[Secret(q, j)]
          PROVE  ShowsAfter(q, j, l)
      BY <3>1, <3>2 DEF ShowsAfter, Shows, Kept, PutBy, DeletedBy, Fixed
    <3>3. "metadata" \in Fixed
      BY DEF Fixed
    <3>4. /\ \A p : p # q => (p \in signedIn' <=> p \in signedIn)
          /\ \A p : p # q => (p \in renewable' <=> p \in renewable)
      BY <3>1
    <3> QED BY <1>2, <1>3, <2>1, <3>1, <3>2, <3>3, <3>4
  <2>7. CASE AppMeta(c)
    <3>1. /\ pc[c] = "appMeta" /\ pc'[c] = "idle"
          /\ Writes(q, "metadata", Value(q, "metadata"))
          /\ signedIn' = signedIn \cup {q} /\ renewable' = renewable
      BY <2>1, <2>7 DEF Writes, AppMeta, Put, Return
    <3>2. ASSUME NEW j \in Fixed, Shows(q, j, pc[c]), NEW l, l = pc'[c],
                 store'[Secret(q, j)] = IF j = "metadata" THEN Value(q, "metadata")
                                        ELSE store[Secret(q, j)]
          PROVE  ShowsAfter(q, j, l)
      BY <3>1, <3>2 DEF ShowsAfter, Shows, Kept, PutBy, DeletedBy, Fixed
    <3>3. "metadata" \in Fixed
      BY DEF Fixed
    <3>4. /\ \A p : p # q => (p \in signedIn' <=> p \in signedIn)
          /\ \A p : p # q => (p \in renewable' <=> p \in renewable)
      BY <3>1
    <3> QED BY <1>2, <1>3, <2>1, <3>1, <3>2, <3>3, <3>4
  <2>8. CASE DelRefresh(c)
    <3>1. /\ pc[c] = "delRefresh" /\ pc'[c] = "delAccess"
          /\ Writes(q, "refresh_token", None)
          /\ UNCHANGED <<signedIn, renewable>>
      BY <2>1, <2>8 DEF Writes, DelRefresh, Delete, Goto, Stay
    <3>2. ASSUME NEW j \in Fixed, Shows(q, j, pc[c]), NEW l, l = pc'[c],
                 store'[Secret(q, j)] = IF j = "refresh_token" THEN None
                                        ELSE store[Secret(q, j)]
          PROVE  ShowsAfter(q, j, l)
      BY <3>1, <3>2 DEF ShowsAfter, Shows, Kept, PutBy, DeletedBy, Fixed
    <3>3. "refresh_token" \in Fixed
      BY DEF Fixed
    <3>4. /\ \A p : p # q => (p \in signedIn' <=> p \in signedIn)
          /\ \A p : p # q => (p \in renewable' <=> p \in renewable)
      BY <3>1
    <3> QED BY <1>2, <1>3, <2>1, <3>1, <3>2, <3>3, <3>4
  <2>9. CASE DelAccess(c)
    <3>1. /\ pc[c] = "delAccess" /\ pc'[c] = "delMeta"
          /\ Writes(q, "access_token", None)
          /\ UNCHANGED <<signedIn, renewable>>
      BY <2>1, <2>9 DEF Writes, DelAccess, Delete, Goto, Stay
    <3>2. ASSUME NEW j \in Fixed, Shows(q, j, pc[c]), NEW l, l = pc'[c],
                 store'[Secret(q, j)] = IF j = "access_token" THEN None
                                        ELSE store[Secret(q, j)]
          PROVE  ShowsAfter(q, j, l)
      BY <3>1, <3>2 DEF ShowsAfter, Shows, Kept, PutBy, DeletedBy, Fixed
    <3>3. "access_token" \in Fixed
      BY DEF Fixed
    <3>4. /\ \A p : p # q => (p \in signedIn' <=> p \in signedIn)
          /\ \A p : p # q => (p \in renewable' <=> p \in renewable)
      BY <3>1
    <3> QED BY <1>2, <1>3, <2>1, <3>1, <3>2, <3>3, <3>4
  <2>10. CASE DelMeta(c)
    <3>1. /\ pc[c] = "delMeta" /\ pc'[c] = "idle"
          /\ Writes(q, "metadata", None)
          /\ signedIn' = signedIn \ {q} /\ renewable' = renewable \ {q}
      BY <2>1, <2>10 DEF Writes, DelMeta, Delete, Return
    <3>2. ASSUME NEW j \in Fixed, Shows(q, j, pc[c]), NEW l, l = pc'[c],
                 store'[Secret(q, j)] = IF j = "metadata" THEN None
                                        ELSE store[Secret(q, j)]
          PROVE  ShowsAfter(q, j, l)
      BY <3>1, <3>2 DEF ShowsAfter, Shows, Kept, PutBy, DeletedBy, Fixed
    <3>3. "metadata" \in Fixed
      BY DEF Fixed
    <3>4. /\ \A p : p # q => (p \in signedIn' <=> p \in signedIn)
          /\ \A p : p # q => (p \in renewable' <=> p \in renewable)
      BY <3>1
    <3> QED BY <1>2, <1>3, <2>1, <3>1, <3>2, <3>3, <3>4
  <2>11. CASE PutCache(c)
    <3>1. /\ pc[c] = "putCache" /\ pc'[c] = "idle"
          /\ store' = [store EXCEPT ![Cached(q, HostKey)] = Value(q, "entry")]
          /\ signedIn' = signedIn \cup {q} /\ renewable' = renewable
      BY <2>1, <2>11 DEF PutCache, Put, Return
    <3>2. q \in ValidProfiles
      BY <1>3, <2>1, StepMoves, ProfileOfCall
    <3>3. \A p \in Apart, k \in Fixed : store'[Secret(p, k)] = store[Secret(p, k)]
      BY <3>1, <3>2, Elsewhere, NamesOfValid DEF CacheKeys
    <3>4. \A p \in Apart : p # q => Untouched(p)
      BY <3>1, <3>3 DEF Untouched
    <3>5. ASSUME q \in Apart, NEW k \in Fixed PROVE ShowsAfter(q, k, "idle")
      <4>1. Shows(q, k, "putCache")
        BY <1>a, <2>1, <3>1, <3>5 DEF Sessions
      <4> QED BY <3>1, <3>3, <3>5, <4>1 DEF ShowsAfter, Shows, Kept, PutBy, DeletedBy, Fixed
    <3> QED BY <1>a, <1>3, <2>1, <3>1, <3>4, <3>5, StepSessions
  <2> QED BY <1>3, <2>2, <2>3, <2>4, <2>5, <2>6, <2>7, <2>8, <2>9, <2>10, <2>11 DEF Step
<1>4. ASSUME NEW c \in Callers, NEW p \in Requested, Begins(c, p) PROVE Sessions'
  <2>1. SessionsKeptApart'
    BY <1>a, <1>4, CallMoves DEF Sessions, SessionsKeptApart, SessionKept, Busy, Kept
  <2>2. ASSUME NEW d \in Callers, pc'[d] # "idle", profile'[d] \in Apart, NEW k \in Fixed,
               NEW r, r = profile'[d], NEW m, m = pc'[d]
        PROVE  ShowsAfter(r, k, m)
    <3>1. CASE d = c
      <4>1. store[Secret(p, k)] = Kept(p, k)
        BY <1>a, <1>4, <2>2, <3>1, CallMoves DEF Sessions, SessionsKeptApart, SessionKept
      <4> QED BY <1>4, <2>2, <3>1, <4>1, CallMoves DEF ShowsAfter, Shows, Kept, PutBy, DeletedBy
    <3>2. CASE d # c
      <4>1. Shows(r, k, m)
        BY <1>a, <1>4, <2>2, <3>2, CallMoves DEF Sessions
      <4> QED BY <1>4, <4>1, CallMoves DEF ShowsAfter, Shows, Kept
    <3> QED BY <3>1, <3>2
  <2> QED BY <2>1, <2>2 DEF Sessions, ShowsAfter
<1>5. CASE UNCHANGED vars
  BY <1>a, <1>5 DEF vars, Sessions, Shows, Kept, SessionsKeptApart, SessionKept, Busy
<1> QED BY <1>3, <1>4, <1>5, Beginning

LEMMA InvCorrect == Spec => []Inv
<1>1. Inv /\ TypeOK /\ [Next]_vars => Inv'
  BY NextTurn, NextKeys, NextSessions DEF Inv
<1> QED BY InitInv, <1>1, TypeCorrect, PTL DEF Spec

\* No operation in a profile touches the credentials of another, whatever the
\* profiles are called and however the calls interleave (logoutInternal,
\* cacheClear, cachePurgeExpired, storeCredentials, appLogin).
THEOREM SessionsKeptCorrect == Spec => []SessionsKeptApart
<1>1. Inv => SessionsKeptApart
  BY DEF Inv, Sessions
<1> QED BY <1>1, InvCorrect, PTL

(***************************************************************************)
(* LogoutClears: no session, no cached token. A logout that has listed a   *)
(* cached token of its profile goes on to delete it before it ends, and a  *)
(* cached token that a login has yet to complete is that of a GitHub App.  *)
(***************************************************************************)
Gone(p) == \A k \in CacheKeys : store[Cached(p, k)] = None

Clearing(c) ==
    /\ pc[c] = "clear" => \A k \in CacheKeys : \/ Cached(profile[c], k) \in keys[c]
                                               \/ store[Cached(profile[c], k)] = None
    /\ pc[c] \in {"delRefresh", "delAccess", "delMeta"} => Gone(profile[c])

Filling(p) == \E c \in Callers : pc[c] \in {"appAccess", "appMeta"} /\ profile[c] = p

ClearInv ==
    /\ \A p \in ValidProfiles : p \notin signedIn /\ ~Filling(p) => Gone(p)
    /\ \A c \in Callers : Clearing(c)

LEMMA CachedUnderPrefix ==
    ASSUME NEW p \in ValidProfiles, NEW k \in CacheKeys
    PROVE  Under(TokenPrefix(p), Cached(p, k))
<1>1. Len(p) \in Nat /\ TokenPrefix(p) \in Seq(Parts) /\ Len(TokenPrefix(p)) = Len(p) + 1
  BY ProfileParts, PrefixParts
<1>2. /\ Cached(p, k) \in Seq(Parts)
      /\ Len(Cached(p, k)) = Len(TokenPrefix(p)) + 1
      /\ \A i \in 1 .. Len(TokenPrefix(p)) : Cached(p, k)[i] = TokenPrefix(p)[i]
  BY <1>1, FixedKeys, OnePart DEF Cached
<1> DEFINE s == SubSeq(Cached(p, k), 1, Len(TokenPrefix(p)))
<1>3. \A i \in 1 .. Len(TokenPrefix(p)) : Cached(p, k)[i] \in Parts
  BY <1>1, <1>2
<1>4. /\ s \in Seq(Parts) /\ Len(s) = Len(TokenPrefix(p))
      /\ \A i \in 1 .. Len(TokenPrefix(p)) : s[i] = Cached(p, k)[i]
  BY <1>1, <1>2, <1>3, SubSeqProperties
<1>5. s = TokenPrefix(p)
  BY <1>1, <1>2, <1>4, SeqEqual
<1> QED BY <1>1, <1>2, <1>5 DEF Under

LEMMA InitClear == Init => ClearInv
  BY NamesOfValid DEF Init, ClearInv, Clearing, Gone

\* Only a login puts a cached token where there was none, under its own names.
LEMMA CachedGoes ==
    ASSUME TypeOK, NEW c \in Callers, Step(c), NEW p \in ValidProfiles, NEW k \in CacheKeys,
           PutCache(c) \/ AppCache(c) => p # profile[c],
           store[Cached(p, k)] = None
    PROVE  store'[Cached(p, k)] = None
<1>1. Cached(p, k) \in Names /\ pc[c] # "idle" /\ profile[c] \in ValidProfiles
  BY NamesOfValid, StepMoves, ProfileOfCall
<1>2. ASSUME NEW n, store' = [store EXCEPT ![n] = None] PROVE store'[Cached(p, k)] = None
  BY <1>1, <1>2 DEF TypeOK
<1>3. ASSUME NEW j \in Fixed, NEW v, store' = [store EXCEPT ![Secret(profile[c], j)] = v]
      PROVE  store'[Cached(p, k)] = None
  BY <1>1, <1>3, SecretNotCached DEF TypeOK
<1>4. ASSUME NEW j \in CacheKeys, NEW v, store' = [store EXCEPT ![Cached(profile[c], j)] = v],
             p # profile[c]
      PROVE  store'[Cached(p, k)] = None
  BY <1>1, <1>4, CachedInjective DEF TypeOK
<1>5. CASE PutRefresh(c) \/ PutAccess(c) \/ PutMeta(c) \/ AppAccess(c) \/ AppMeta(c)
  BY <1>3, <1>5 DEF PutRefresh, PutAccess, PutMeta, AppAccess, AppMeta, Put, Fixed
<1>6. CASE Clear(c) \/ DelRefresh(c) \/ DelAccess(c) \/ DelMeta(c) \/ PurgeDelete(c)
  BY <1>2, <1>6 DEF Clear, DelRefresh, DelAccess, Delete, DelMeta, PurgeDelete
<1>7. CASE PutCache(c) \/ AppCache(c)
  BY <1>4, <1>7 DEF PutCache, AppCache, Put, CacheKeys
<1>8. CASE ListClear(c) \/ ListPurge(c) \/ Cleared(c) \/ PurgeGet(c) \/ Purged(c)
  BY <1>8 DEF ListClear, ListPurge, List, Cleared, PurgeGet, Purged
<1> QED BY <1>5, <1>6, <1>7, <1>8 DEF Step

\* No step but the last of a login or a logout changes who is signed in, and
\* what an App login has cached it signs in with.
LEMMA SigningIn ==
    ASSUME TypeOK, NEW c \in Callers, Step(c), NEW p, p \notin signedIn', ~Filling(p)'
    PROVE  /\ p \notin signedIn \/ (DelMeta(c) /\ p = profile[c])
           /\ ~Filling(p)
           /\ PutCache(c) \/ AppCache(c) => p # profile[c]
<1> USE DEF TypeOK, history
<1>1. \A d \in Callers \ {c} : pc'[d] = pc[d] /\ profile'[d] = profile[d]
  BY StepMoves
<1>2. CASE PutRefresh(c) \/ PutAccess(c) \/ PutMeta(c) \/ DelRefresh(c) \/ DelAccess(c)
  BY <1>1, <1>2 DEF PutRefresh, PutAccess, PutMeta, DelRefresh, DelAccess, Put, Delete, Filling,
                    PutCache, AppCache
<1>3. CASE PutCache(c) \/ AppMeta(c)
  BY <1>1, <1>3 DEF PutCache, AppMeta, AppCache, Put, Filling
<1>4. CASE AppCache(c) \/ AppAccess(c)
  <2>1. /\ UNCHANGED <<signedIn, profile>> /\ pc'[c] \in {"appAccess", "appMeta"}
        /\ pc[c] \in {"appCache", "appAccess"}
    BY <1>4 DEF AppCache, AppAccess, Put, Goto, Stay
  <2>2. p # profile[c] /\ p \notin signedIn
    BY <2>1 DEF Filling
  <2> QED BY <1>1, <2>1, <2>2 DEF Filling
<1>5. CASE DelMeta(c)
  BY <1>1, <1>5 DEF DelMeta, Delete, PutCache, AppCache, Put, Filling
<1>6. CASE ListClear(c) \/ ListPurge(c) \/ Cleared(c) \/ Purged(c)
  BY <1>1, <1>6 DEF ListClear, ListPurge, List, Cleared, Purged, PutCache, AppCache, Put, Filling
<1>7. CASE Clear(c) \/ PurgeGet(c) \/ PurgeDelete(c)
  BY <1>1, <1>7 DEF Clear, PurgeGet, PurgeDelete, PutCache, AppCache, Put, Filling
<1> QED BY <1>2, <1>3, <1>4, <1>5, <1>6, <1>7 DEF Step

LEMMA NextClear == TypeOK /\ Inv /\ ClearInv /\ [Next]_vars => ClearInv'
<1> SUFFICES ASSUME TypeOK, Inv, ClearInv, [Next]_vars PROVE ClearInv'
  OBVIOUS
<1>1. ASSUME NEW c \in Callers, Step(c) PROVE ClearInv'
  <2>1. /\ pc[c] # "idle" /\ profile[c] \in ValidProfiles
        /\ \A d \in Callers : pc'[d] # "idle" => pc[d] # "idle" /\ profile'[d] = profile[d]
        /\ \A d \in Callers \ {c} : pc'[d] = pc[d] /\ keys'[d] = keys[d]
    BY <1>1, StepMoves, ProfileOfCall
  <2>2. ASSUME NEW p \in ValidProfiles, p \notin signedIn', ~Filling(p)', NEW k \in CacheKeys
        PROVE  store'[Cached(p, k)] = None
    <3>1. /\ p \notin signedIn \/ (DelMeta(c) /\ p = profile[c])
          /\ ~Filling(p)
          /\ PutCache(c) \/ AppCache(c) => p # profile[c]
      BY <1>1, <2>2, SigningIn
    <3>2. CASE p \notin signedIn
      <4>1. store[Cached(p, k)] = None
        BY <3>1, <3>2 DEF ClearInv, Gone
      <4> QED BY <1>1, <3>1, <4>1, CachedGoes
    <3>3. CASE DelMeta(c) /\ p = profile[c]
      <4>1. store[Cached(p, k)] = None
        BY <3>3 DEF DelMeta, Delete, ClearInv, Clearing, Gone
      <4> QED BY <1>1, <3>1, <4>1, CachedGoes
    <3> QED BY <3>1, <3>2, <3>3
  <2>3. \A p \in ValidProfiles : p \notin signedIn' /\ ~Filling(p)' => Gone(p)'
    BY <2>2 DEF Gone
  <2>4. ASSUME NEW d \in Callers, d # c, pc'[d] # "idle" PROVE Clearing(d)'
    <3>1. /\ pc[d] # "idle" /\ pc'[d] = pc[d] /\ profile'[d] = profile[d]
          /\ keys'[d] = keys[d] /\ profile[d] \in ValidProfiles
          /\ profile[d] # profile[c] /\ Clearing(d)
      BY <2>1, <2>4, ProfileOfCall DEF Inv, InTurn, ClearInv
    <3>2. \A k \in CacheKeys : store[Cached(profile[d], k)] = None
                                 => store'[Cached(profile[d], k)] = None
      BY <1>1, <3>1, CachedGoes
    <3> QED BY <3>1, <3>2 DEF Clearing, Gone
  <2>5. ASSUME NEW d \in Callers, pc'[d] = "idle" PROVE Clearing(d)'
    BY <2>5 DEF Clearing
  <2>6. Clearing(c)'
    <3>1. CASE ListClear(c)
      <4>1. pc'[c] = "clear" /\ keys'[c] = Listed(profile[c]) /\ store' = store
            /\ profile' = profile
        BY <3>1 DEF ListClear, List, Goto, TypeOK
      <4>2. \A k \in CacheKeys : store[Cached(profile[c], k)] # None
                                   => Cached(profile[c], k) \in Listed(profile[c])
        BY <2>1, NamesOfValid, CachedUnderPrefix DEF Listed
      <4> QED BY <4>1, <4>2 DEF Clearing
    <3>2. CASE Clear(c)
      <4>1. PICK n \in keys[c] : /\ store' = [store EXCEPT ![n] = None]
                                 /\ keys' = [keys EXCEPT ![c] = @ \ {n}]
        BY <3>2 DEF Clear
      <4>2. pc'[c] = "clear" /\ pc[c] = "clear" /\ profile' = profile
        BY <3>2 DEF Clear
      <4>3. \A k \in CacheKeys : \/ Cached(profile[c], k) \in keys'[c]
                                 \/ store'[Cached(profile[c], k)] = None
        BY <2>1, <4>1, <4>2, NamesOfValid DEF ClearInv, Clearing, TypeOK
      <4> QED BY <4>2, <4>3 DEF Clearing
    <3>3. CASE Cleared(c) \/ DelRefresh(c) \/ DelAccess(c)
      <4>1. /\ pc'[c] # "clear" /\ Gone(profile[c]) /\ profile' = profile
            /\ ~PutCache(c) /\ ~AppCache(c)
        BY <3>3 DEF Cleared, DelRefresh, DelAccess, Delete, Goto, Stay, ClearInv, Clearing, Gone,
                    PutCache, AppCache, Put, TypeOK
      <4>2. Gone(profile[c])'
        BY <1>1, <2>1, <4>1, CachedGoes DEF Gone
      <4> QED BY <4>1, <4>2 DEF Clearing
    <3>4. CASE ~(ListClear(c) \/ Clear(c) \/ Cleared(c) \/ DelRefresh(c) \/ DelAccess(c))
      <4>1. pc'[c] \notin {"clear", "delRefresh", "delAccess", "delMeta"}
        BY <1>1, <3>4
           DEF Step, PutRefresh, PutAccess, PutMeta, PutCache, AppCache, AppAccess, AppMeta, Put,
               Goto, ListPurge, List, DelMeta, Delete, Return, PurgeGet, PurgeDelete, Purged,
               TypeOK
      <4> QED BY <4>1 DEF Clearing
    <3> QED BY <3>1, <3>2, <3>3, <3>4
  <2> QED BY <2>3, <2>4, <2>5, <2>6 DEF ClearInv
<1>2. ASSUME NEW c \in Callers, NEW p \in Requested, Begins(c, p) PROVE ClearInv'
  <2>1. /\ pc[c] = "idle" /\ UNCHANGED <<store, keys, signedIn>>
        /\ pc'[c] \notin {"clear", "delRefresh", "delAccess", "delMeta", "appAccess", "appMeta"}
        /\ \A d \in Callers \ {c} : pc'[d] = pc[d] /\ profile'[d] = profile[d]
    BY <1>2, CallMoves
  <2>2. \A q : Filling(q) => Filling(q)'
    BY <2>1 DEF Filling
  <2>3. \A q \in ValidProfiles : Gone(q) => Gone(q)'
    BY <2>1 DEF Gone
  <2>4. \A d \in Callers : Clearing(d)'
    BY <2>1 DEF ClearInv, Clearing, Gone
  <2> QED BY <2>1, <2>2, <2>3, <2>4 DEF ClearInv
<1>3. CASE UNCHANGED vars
  BY <1>3 DEF vars, history, ClearInv, Clearing, Gone, Filling
<1> QED BY <1>1, <1>2, <1>3, Beginning

\* A logout leaves no cached token of its profile behind, and no call in
\* another profile puts one back (cacheClear, profileTokenPrefix).
THEOREM LogoutClearsCorrect == Spec => []LogoutClears
<1>1. ClearInv => LogoutClears
  BY DEF ClearInv, LogoutClears, ValidProfiles, Gone, Filling, Busy
<1>2. Spec => []ClearInv
  BY InitClear, NextClear, InvCorrect, TypeCorrect, PTL DEF Spec
<1> QED BY <1>1, <1>2, PTL
=============================================================================
