---------------------- MODULE CliModeSequentialProofs ----------------------
(***************************************************************************)
(* What calls of CliMode that do not overlap leave behind, proved for      *)
(* every set of sessions and personal access tokens and every bound, with  *)
(* one caller: any order of calls one at a time is one of its behaviours.  *)
(***************************************************************************)
EXTENDS CliModeProofs

\* One call at a time, by processes that may differ from call to call.
OneCaller == \E c : Callers = {c}

-----------------------------------------------------------------------------
(***************************************************************************)
(* The inductive invariant: what the store shows while no call writes to   *)
(* it, and what each call that does has written so far.                    *)
(***************************************************************************)

\* The store shows a login of the session s, and cached tokens of no other.
Creds(s) ==
    /\ metadata # None /\ metadata.user = s /\ metadata.label = s
    /\ access # None => access.owner = s
    /\ access = None => refresh # None /\ refresh.owner = s
    /\ cache["host"] # None => cache["host"].token.owner = s

\* It shows a login of the App.
AppCreds ==
    /\ metadata # None /\ metadata.user = App
    /\ access # None

\* It shows that nobody is logged in.
Empty ==
    /\ refresh = None /\ access = None /\ metadata = None
    /\ cache["host"] = None /\ cache["app"] = None

\* The store agrees with what the last login or logout of the profile was.
Settled ==
    \/ session = None /\ Empty
    \/ session = App /\ AppCreds
    \/ session \in Sessions /\ Creds(session)

\* What a call at l with the local variables r is doing.
Minting(l, r)   == \/ l \in {"loadMeta", "rotateMeta", "post", "cacheMinted"}
                   \/ l \in Storing /\ r.minting
LoggingIn(l, r) == l \in Storing /\ ~r.minting
AppLoggingIn(l) == l \in {"appCache", "appAccess", "appMeta"}
LoggingOut(l)   == l \in {"clear", "delRefresh", "delAccess", "delMeta"}

\* A call that only reads finds a settled store and remembers what it has read.
ReadPoint(l, r) ==
    /\ ~LoggingIn(l, r) /\ ~AppLoggingIn(l) /\ ~LoggingOut(l) => Settled
    /\ l = "cacheAccess" => r.access = access
    /\ l = "loadRefresh" => access = None
    /\ l = "hasAccess" => r.found = (refresh # None)

\* A mint works for the session of the last login.
MintPoint(l, r) ==
    /\ l \in {"loadMeta", "rotateMeta", "post"} => r.minting
    /\ Minting(l, r) =>
         /\ session \in Sessions
         /\ l \notin {"loadMeta", "rotateMeta"} /\ r.meta # None => r.meta.label = session
         /\ l \in Holding => r.refresh.owner = session
         /\ l \in WithAccess => r.access.owner = session

\* A login has stored its token, then its metadata.
LoginPoint(l, r) == LoggingIn(l, r) =>
    /\ r.meta = None
    /\ r.access.owner \in Sessions
    /\ l \in {"putMeta", "putCache"} => access # None /\ access.owner = r.access.owner
    /\ l = "putCache" =>
         /\ session = r.access.owner
         /\ metadata # None /\ metadata.user = session /\ metadata.label = session

\* A login of the App stores its token and then its metadata.
AppPoint(l, r) == AppLoggingIn(l) =>
    /\ r.access.owner = App
    /\ l = "appMeta" => access # None

\* What a logout has not deleted yet is on its list or ahead of it.
LogoutPoint(l, r) ==
    /\ l = "clear" => Cached \subseteq r.keys
    /\ l \in {"delRefresh", "delAccess", "delMeta"} => Cached = {}
    /\ l \in {"delAccess", "delMeta"} => refresh = None
    /\ l = "delMeta" => access = None

\* A listing has found what is there, as far as it has got.
ListPoint(l, r) ==
    /\ l = "listRefresh" => r.infos = {}
    /\ l \in {"listKeys", "listEntry", "listAccess", "listDirect"} =>
         /\ \A i \in r.infos :
              \/ refresh # None /\ i = Info("refresh", refresh)
              \/ /\ l # "listKeys"
                 /\ \E k \in CacheKeys : cache[k] # None /\ i = Info(k, cache[k].token)
         /\ refresh # None => Info("refresh", refresh) \in r.infos
    /\ (l = "listEntry" /\ "host" \notin r.keys) \/ l \in {"listAccess", "listDirect"} =>
         (cache["host"] # None => Info("host", cache["host"].token) \in r.infos)
    /\ l = "listDirect" => access # None /\ r.access = access

Point(l, r) == /\ ReadPoint(l, r) /\ MintPoint(l, r) /\ LoginPoint(l, r)
               /\ AppPoint(l, r) /\ LogoutPoint(l, r) /\ ListPoint(l, r)

\* What a listing says of a login: its access token once, or its refresh token;
\* and of none.
Tells(infos, s) ==
    LET main == {i \in infos : i.at \in {"host", "direct"}} IN
    /\ s \in Sessions =>
         \/ \E i \in main : i.token.owner = s /\ main = {i}
         \/ main = {} /\ \E i \in infos : i.at = "refresh" /\ i.token.owner = s
    /\ s = None => \A i \in infos : i.at = "pat"

\* An answer that fits the session s.
Fits(a, s) ==
    /\ a.kind = "token" /\ a.pat = None /\ s \in Sessions => a.entry.token.owner = s
    /\ a.kind = "status" /\ a.user \notin Pats =>
         IF a.authenticated \/ a.expired THEN s # None /\ a.user = s ELSE s = None
    /\ a.kind = "list" => Tells(a.infos, s)

\* What holds of a call: at its point, and of its answer when it has returned.
CallInv(c) ==
    /\ Point(pc[c], reg[c])
    /\ pc[c] = "idle" => reg[c] = Blank /\ Fits(out[c], session)
    /\ pc[c] # "idle" => out[c] = Nothing

\* What LabelsReflectLogin says.
Labelled ==
    /\ \A k \in CacheKeys : cache[k] # None =>
         cache[k].label \in {None, cache[k].token.owner}
    /\ metadata # None /\ metadata.user # None =>
         metadata.label \in {None, metadata.user}

\* Without faults labels are right, and calls find and leave the store as said.
SequentialInv == Unfailing => Labelled /\ \A c \in Callers : CallInv(c)

-----------------------------------------------------------------------------
\* Steps of a call.

\* What holds after the step of c.
CallInvAfter(c)  == CallInv(c)'
PointAfter(c, l) == Point(l, reg[c])'
StepInv(c)       == CallInvAfter(c) /\ Labelled'

\* A call returns to a settled store.
LEMMA EndPoint ==
    ASSUME TypeOK, NEW c \in Callers, NEW a, Return(c, a), Settled', Fits(a, session')
    PROVE  CallInvAfter(c)
<1>1. pc'[c] = "idle" /\ reg'[c] = Blank /\ out'[c] = a
  BY DEF TypeOK, Return
<1> QED
  BY <1>1 DEF CallInvAfter, CallInv, Point, ReadPoint, MintPoint, LoginPoint, AppPoint, LogoutPoint, ListPoint,
              Minting, LoggingIn, AppLoggingIn, LoggingOut, Storing

\* A call begins at l or moves there.
Enters(c, l) == pc'[c] = l /\ out'[c] = Nothing

LEMMA BeginEnters ==
    ASSUME TypeOK, NEW c \in Callers, NEW l, Begin(c, l)
    PROVE  Enters(c, l)
  BY DEF TypeOK, Begin, Enters

LEMMA GotoEnters ==
    ASSUME TypeOK, NEW c \in Callers, CallInv(c), pc[c] # "idle", NEW l, Goto(c, l)
    PROVE  Enters(c, l)
  BY DEF TypeOK, Goto, CallInv, Enters

LEMMA MovePoint ==
    ASSUME NEW c \in Callers, NEW l \in Labels, l # "idle", Enters(c, l), PointAfter(c, l)
    PROVE  CallInvAfter(c)
  BY DEF CallInvAfter, PointAfter, CallInv, Enters

\* Labels at which a call needs nothing but a settled store.
Plain == { "cacheGet", "loadAccess", "listClear", "listPurge", "purgeGet", "purgeDelete",
           "patCacheGet", "patValidate", "patCache", "patStatus", "hasRefresh",
           "statusMeta" }

LEMMA PlainMove ==
    ASSUME NEW c \in Callers, NEW l \in Plain, Enters(c, l), Settled'
    PROVE  CallInvAfter(c)
  BY DEF CallInvAfter, CallInv, Enters, Plain, Point, ReadPoint, MintPoint, LoginPoint,
         AppPoint, LogoutPoint, ListPoint, Minting, LoggingIn, AppLoggingIn, LoggingOut, Storing

\* At those labels, at rest and at a few others the store is settled.
LEMMA SettledPoint ==
    ASSUME NEW c \in Callers, CallInv(c),
           pc[c] \in Plain \cup {"idle", "cacheAccess", "loadRefresh", "loadMeta",
                                 "rotateMeta", "post", "cacheMinted", "hasAccess",
                                 "listRefresh", "listKeys", "listEntry", "listAccess",
                                 "listDirect"}
    PROVE  Settled
  BY DEF CallInv, Plain, Point, ReadPoint, LoggingIn, AppLoggingIn, LoggingOut, Storing

\* It stays settled when entries are removed from the cache.
LEMMA SettledKept ==
    ASSUME Settled, UNCHANGED <<refresh, access, metadata, session>>,
           cache'["host"] \in {None, cache["host"]}, cache'["app"] \in {None, cache["app"]}
    PROVE  Settled'
  BY DEF Settled, Creds, AppCreds, Empty

\* So it does when nothing is written.
LEMMA SettledUnchanged ==
    ASSUME Settled, UNCHANGED <<secrets, session>>
    PROVE  Settled'
  BY DEF secrets, Settled, Creds, AppCreds, Empty

\* Labels stay right when entries are removed from the cache.
LEMMA LabelledKept ==
    ASSUME Labelled, UNCHANGED metadata,
           \A k \in CacheKeys : cache'[k] \in {None, cache[k]}
    PROVE  Labelled'
  BY DEF Labelled

\* Answers that say nothing of a login.
LEMMA PlainFits ==
    ASSUME NEW a \in {Nothing, Done, Error}, NEW s
    PROVE  Fits(a, s)
  BY DEF Fits, Nothing, Done, Error

\* Answers with a token and answers with a status.
LEMMA TokenFits ==
    ASSUME NEW e, NEW p, NEW s, p = None /\ s \in Sessions => e.token.owner = s
    PROVE  Fits(TokenAnswer(e, p), s)
  BY DEF Fits, TokenAnswer

LEMMA StatusFits ==
    ASSUME NEW a, NEW x, NEW u, NEW s,
           u \notin Pats =>
             IF a \/ x THEN s # None /\ u = s ELSE s = None
    PROVE  Fits(StatusAnswer(a, x, u), s)
  BY DEF Fits, StatusAnswer

LEMMA ListFits ==
    ASSUME NEW i, NEW s, Tells(i, s)
    PROVE  Fits(ListAnswer(i), s)
  BY DEF Fits, ListAnswer

-----------------------------------------------------------------------------
\* Calls begin.
LEMMA SequentialCall ==
    ASSUME TypeOK, Labelled, NEW c \in Callers, CallInv(c), Call(c)
    PROVE  StepInv(c)
<1>1. /\ UNCHANGED <<secrets, session>> /\ pc[c] = "idle"
  BY DEF Call, GetToken, Login, GetStatus, AppLogin, Logout, PurgeExpiredTokens,
         ListCachedTokens, Start, Begin, secrets, world
<1>2. Settled' /\ Labelled'
  BY <1>1, SettledPoint, SettledUnchanged, LabelledKept DEF secrets
<1>3. reg[c] = Blank
  BY <1>1 DEF CallInv
<1>4. ASSUME NEW l \in Plain, Begin(c, l) PROVE CallInvAfter(c)
  BY <1>2, <1>4, BeginEnters, PlainMove
<1>5. /\ "cacheGet" \in Plain /\ "loadAccess" \in Plain /\ "patCacheGet" \in Plain
      /\ "patValidate" \in Plain /\ "hasRefresh" \in Plain /\ "patStatus" \in Plain
      /\ "listClear" \in Plain /\ "listPurge" \in Plain
  BY DEF Plain
<1>6. ASSUME NEW s \in Sessions, NEW expiring \in BOOLEAN, Login(c, s, expiring)
      PROVE  CallInvAfter(c)
  <2>1. reg'[c].access.owner = s /\ reg'[c].meta = None /\ reg'[c].minting = FALSE
    BY <1>3, <1>6 DEF Login, TypeOK, NewAccess, Blank
  <2>2. ASSUME NEW l \in {"putRefresh", "putAccess"} PROVE PointAfter(c, l) /\ l \in Labels
    BY <2>1, <2>2
    DEF PointAfter, Point, ReadPoint, MintPoint, LoginPoint, AppPoint, LogoutPoint, ListPoint, Minting,
        LoggingIn, AppLoggingIn, LoggingOut, Storing, Labels
  <2>3. Begin(c, "putRefresh") \/ Begin(c, "putAccess")
    BY <1>6 DEF Login
  <2> QED
    BY <2>2, <2>3, BeginEnters, MovePoint
<1>7. ASSUME AppLogin(c) PROVE CallInvAfter(c)
  <2>1. reg'[c].access.owner = App /\ Begin(c, "appCache")
    BY <1>3, <1>7 DEF AppLogin, Start, TypeOK, NewAccess, Blank
  <2>2. PointAfter(c, "appCache") /\ "appCache" \in Labels
    BY <2>1
    DEF PointAfter, Point, ReadPoint, MintPoint, LoginPoint, AppPoint, LogoutPoint, ListPoint, Minting,
        LoggingIn, AppLoggingIn, LoggingOut, Storing, Labels
  <2> QED
    BY <2>1, <2>2, BeginEnters, MovePoint
<1>8. ASSUME NEW pat, NEW force, GetToken(c, pat, force) PROVE CallInvAfter(c)
  BY <1>4, <1>5, <1>8 DEF GetToken, Start
<1>9. ASSUME NEW pat, GetStatus(c, pat) PROVE CallInvAfter(c)
  BY <1>4, <1>5, <1>9 DEF GetStatus, Start
<1>10. ASSUME Logout(c) \/ PurgeExpiredTokens(c) PROVE CallInvAfter(c)
  BY <1>4, <1>5, <1>10 DEF Logout, PurgeExpiredTokens, Start
<1>11. ASSUME ListCachedTokens(c) PROVE CallInvAfter(c)
  <2>1. reg'[c].infos = {} /\ Begin(c, "listRefresh")
    BY <1>3, <1>11 DEF ListCachedTokens, Start, Blank
  <2>2. PointAfter(c, "listRefresh") /\ "listRefresh" \in Labels
    BY <1>2, <2>1
    DEF PointAfter, Point, ReadPoint, MintPoint, LoginPoint, AppPoint, LogoutPoint, ListPoint,
        Minting, LoggingIn, AppLoggingIn, LoggingOut, Storing, Labels
  <2> QED
    BY <2>1, <2>2, BeginEnters, MovePoint
<1> QED
  BY <1>2, <1>6, <1>7, <1>8, <1>9, <1>10, <1>11 DEF Call, StepInv

-----------------------------------------------------------------------------
\* Steps that only read.
Reads(c) ==
    \/ CacheGet(c) \/ LoadAccess(c) \/ LoadRefresh(c) \/ LoadMeta(c) \/ RotateMeta(c)
    \/ Post(c) \/ PatCacheGet(c) \/ PatValidate(c) \/ ListClear(c) \/ ListPurge(c)
    \/ PurgeGet(c) \/ PatStatus(c) \/ HasRefresh(c) \/ HasAccess(c) \/ StatusMeta(c)

LEMMA ReadsSettled ==
    ASSUME TypeOK, Labelled, NEW c \in Callers, CallInv(c), Reads(c)
    PROVE  /\ UNCHANGED <<secrets, session>> /\ pc[c] # "idle"
           /\ Settled /\ Settled' /\ Labelled'
<1> USE DEF At
<1>1. UNCHANGED <<secrets, session>>
  BY DEF Reads, CacheGet, LoadAccess, LoadRefresh, LoadMeta, RotateMeta, Post, PatCacheGet,
         PatValidate, ListClear, ListPurge, PurgeGet, PatStatus, HasRefresh, HasAccess,
         StatusMeta, secrets, world
<1>2. pc[c] \in { "cacheGet", "loadAccess", "loadRefresh", "loadMeta", "rotateMeta",
                  "post", "patCacheGet", "patValidate", "listClear", "listPurge",
                  "purgeGet", "patStatus", "hasRefresh", "hasAccess", "statusMeta" }
  BY DEF Reads, CacheGet, LoadAccess, LoadRefresh, LoadMeta, RotateMeta, Post, PatCacheGet,
         PatValidate, ListClear, ListPurge, PurgeGet, PatStatus, HasRefresh, HasAccess,
         StatusMeta
<1>3. Settled
  BY <1>2, SettledPoint DEF Plain
<1> QED
  BY <1>1, <1>2, <1>3, SettledUnchanged, LabelledKept DEF secrets

\* Such a step returns, or moves on with what it has read of a settled store.
LEMMA SequentialRead ==
    ASSUME TypeOK, Labelled, NEW c \in Callers, CallInv(c), Reads(c), ~Fault
    PROVE  StepInv(c)
<1> USE DEF At
<1>1. /\ UNCHANGED <<refresh, access, metadata, cache, session>> /\ pc[c] # "idle"
      /\ Settled /\ Settled' /\ Labelled'
  BY ReadsSettled DEF secrets
<1> SUFFICES CallInvAfter(c)
  BY <1>1 DEF StepInv
<1>2. reg[c] \in Registers /\ Point(pc[c], reg[c]) /\ faults \in Nat
  BY BoundsAssumption DEF TypeOK, CallInv
<1>3. ASSUME NEW l \in Plain, Goto(c, l) PROVE CallInvAfter(c)
  BY <1>1, <1>3, GotoEnters, PlainMove
<1>4. ASSUME NEW a \in {Nothing, Done, Error}, Return(c, a) PROVE CallInvAfter(c)
  BY <1>1, <1>4, PlainFits, EndPoint
<1>5. ASSUME NEW l \in Labels, l # "idle", Goto(c, l), PointAfter(c, l)
      PROVE  CallInvAfter(c)
  BY <1>1, <1>5, GotoEnters, MovePoint
<1>6. CASE CacheGet(c)
  <2>1. CASE Goto(c, "loadAccess")
    BY <1>3, <2>1 DEF Plain
  <2>2. CASE cache["host"] # None /\ Return(c, TokenAnswer(cache["host"], None))
    <3>1. Fits(TokenAnswer(cache["host"], None), session')
      BY <1>1, <2>2, TokenFits, OwnerFacts DEF Settled, Creds
    <3> QED
      BY <1>1, <2>2, <3>1, EndPoint
  <2> QED
    BY <1>6, <2>1, <2>2 DEF CacheGet
<1>7. CASE LoadAccess(c)
  <2>1. CASE reg' = [reg EXCEPT ![c].access = access] /\ Goto(c, "cacheAccess")
    <3>1. reg'[c].access = access
      BY <1>2, <2>1 DEF TypeOK, Registers
    <3>2. PointAfter(c, "cacheAccess") /\ "cacheAccess" \in Labels
      BY <1>1, <3>1
      DEF PointAfter, Point, ReadPoint, MintPoint, LoginPoint, AppPoint, LogoutPoint, ListPoint, Minting,
          LoggingIn, AppLoggingIn, LoggingOut, Storing, Labels
    <3> QED
      BY <1>5, <2>1, <3>2
  <2>2. CASE access = None /\ Goto(c, "loadRefresh")
    <3>1. PointAfter(c, "loadRefresh") /\ "loadRefresh" \in Labels
      BY <1>1, <2>2
      DEF PointAfter, Point, ReadPoint, MintPoint, LoginPoint, AppPoint, LogoutPoint, ListPoint, Minting,
          LoggingIn, AppLoggingIn, LoggingOut, Storing, Labels
    <3> QED
      BY <1>5, <2>2, <3>1
  <2> QED
    BY <1>7, <2>1, <2>2 DEF LoadAccess
<1>8. CASE LoadRefresh(c)
  <2>1. CASE /\ refresh # None /\ Goto(c, "loadMeta")
             /\ reg' = [reg EXCEPT ![c].refresh = refresh, ![c].minting = TRUE]
    <3>1. reg'[c].refresh = refresh /\ reg'[c].minting = TRUE
      BY <1>2, <2>1 DEF TypeOK, Registers
    <3>2. access = None
      BY <1>2, <1>8 DEF LoadRefresh, Point, ReadPoint
    <3>3. session \in Sessions /\ refresh.owner = session
      BY <1>1, <2>1, <3>2 DEF Settled, AppCreds, Empty, Creds
    <3>4. PointAfter(c, "loadMeta") /\ "loadMeta" \in Labels
      BY <1>1, <3>1, <3>3
      DEF PointAfter, Point, ReadPoint, MintPoint, LoginPoint, AppPoint, LogoutPoint, ListPoint, Minting,
          LoggingIn, AppLoggingIn, LoggingOut, Storing, WithAccess, Labels
    <3> QED
      BY <1>5, <2>1, <3>4
  <2> QED
    BY <1>4, <1>8, <2>1 DEF LoadRefresh
<1>9. CASE LoadMeta(c)
  <2>1. CASE Goto(c, "rotateMeta") /\ UNCHANGED reg
    <3>1. PointAfter(c, "rotateMeta") /\ "rotateMeta" \in Labels
      BY <1>1, <1>2, <1>9, <2>1
      DEF PointAfter, Point, ReadPoint, MintPoint, LoginPoint, AppPoint, LogoutPoint, ListPoint, Minting,
          LoggingIn, AppLoggingIn, LoggingOut, Storing, WithAccess, Holding, Labels, LoadMeta
    <3> QED
      BY <1>5, <2>1, <3>1
  <2> QED
    BY <1>4, <1>9, <2>1 DEF LoadMeta
<1>10. CASE RotateMeta(c)
  <2>1. reg' = [reg EXCEPT ![c].meta = metadata] /\ Goto(c, "post")
    BY <1>10 DEF RotateMeta
  <2>2. /\ reg'[c].meta = metadata /\ reg'[c].minting = reg[c].minting
        /\ reg'[c].refresh = reg[c].refresh
    BY <1>2, <2>1 DEF TypeOK, Registers
  <2>3. session \in Sessions /\ reg[c].refresh.owner = session /\ reg[c].minting
    BY <1>2, <1>10 DEF RotateMeta, Point, MintPoint, Minting, Holding
  <2>4. metadata.label = session
    BY <1>1, <2>3, OwnerFacts DEF Settled, Creds
  <2>5. PointAfter(c, "post") /\ "post" \in Labels
    BY <1>1, <2>2, <2>3, <2>4
    DEF PointAfter, Point, ReadPoint, MintPoint, LoginPoint, AppPoint, LogoutPoint, ListPoint, Minting,
        LoggingIn, AppLoggingIn, LoggingOut, Storing, WithAccess, Labels
  <2> QED
    BY <1>5, <2>1, <2>5
<1>11. CASE Post(c)
  <2>1. /\ session \in Sessions /\ reg[c].refresh.owner = session /\ reg[c].minting
        /\ reg[c].meta # None => reg[c].meta.label = session
    BY <1>2, <1>11 DEF Post, Point, MintPoint, Minting, Holding
  <2>2. ASSUME NEW l \in {"cacheMinted", "putRefresh"}, Goto(c, l),
               reg'[c].access.owner = session, reg'[c].minting,
               reg'[c].meta = reg[c].meta,
               l = "putRefresh" => reg'[c].refresh.owner = session
        PROVE  CallInvAfter(c)
    <3>1. PointAfter(c, l) /\ l \in Labels
      BY <1>1, <2>1, <2>2
      DEF PointAfter, Point, ReadPoint, MintPoint, LoginPoint, AppPoint, LogoutPoint, ListPoint, Minting,
          LoggingIn, AppLoggingIn, LoggingOut, Storing, Holding, Labels
    <3> QED
      BY <1>5, <2>2, <3>1
  <2>3. CASE Return(c, Error)
    BY <1>4, <2>3
  <2>4. CASE /\ reg' = [reg EXCEPT ![c].access = NewAccess(reg[c].refresh.owner)]
             /\ Goto(c, "cacheMinted")
    <3>1. /\ reg'[c].access.owner = session /\ reg'[c].minting = reg[c].minting
          /\ reg'[c].meta = reg[c].meta
      BY <1>2, <2>1, <2>4 DEF TypeOK, Registers, NewAccess
    <3> QED
      BY <2>1, <2>2, <2>4, <3>1
  <2>5. CASE /\ reg' = [reg EXCEPT ![c].access = NewAccess(reg[c].refresh.owner),
                          ![c].refresh = NewRefresh(reg[c].refresh.owner,
                                                    reg[c].refresh.gen + 1)]
             /\ Goto(c, IF reg[c].meta = None THEN "cacheMinted" ELSE "putRefresh")
    <3>1. /\ reg'[c].access.owner = session /\ reg'[c].minting = reg[c].minting
          /\ reg'[c].meta = reg[c].meta /\ reg'[c].refresh.owner = session
      BY <1>2, <2>1, <2>5 DEF TypeOK, Registers, NewAccess, NewRefresh
    <3>2. Goto(c, "cacheMinted") \/ Goto(c, "putRefresh")
      BY <2>5
    <3> QED
      BY <2>1, <2>2, <3>1, <3>2
  <2> QED
    BY <1>11, <2>3, <2>4, <2>5 DEF Post
<1>12. CASE PatCacheGet(c)
  <2>1. CASE Goto(c, "patValidate")
    BY <1>3, <2>1 DEF Plain
  <2>2. CASE Return(c, TokenAnswer(cache["pat"], reg[c].pat))
    <3>1. reg[c].pat # None
      BY <1>12, OwnerFacts DEF PatCacheGet, TypeOK, Defined, WithPat
    <3>2. Fits(TokenAnswer(cache["pat"], reg[c].pat), session')
      BY <3>1, TokenFits
    <3> QED
      BY <1>1, <2>2, <3>2, EndPoint
  <2> QED
    BY <1>12, <2>1, <2>2 DEF PatCacheGet
<1>13. CASE PatValidate(c)
  BY <1>3, <1>4, <1>13 DEF PatValidate, Plain
<1>14. CASE ListClear(c)
  <2>1. reg' = [reg EXCEPT ![c].keys = Cached] /\ Goto(c, "clear")
    BY <1>14 DEF ListClear
  <2>2. reg'[c].keys = Cached
    BY <1>2, <2>1 DEF TypeOK, Registers
  <2>3. PointAfter(c, "clear") /\ "clear" \in Labels
    BY <1>1, <2>2
    DEF PointAfter, Point, ReadPoint, MintPoint, LoginPoint, AppPoint, LogoutPoint, ListPoint, Minting,
        LoggingIn, AppLoggingIn, LoggingOut, Storing, Labels, Cached
  <2> QED
    BY <1>5, <2>1, <2>3
<1>15. CASE ListPurge(c)
  BY <1>3, <1>15 DEF ListPurge, Plain
<1>16. CASE PurgeGet(c)
  <2>1. CASE Goto(c, "purgeDelete")
    BY <1>3, <2>1 DEF Plain
  <2>2. CASE UNCHANGED <<pc, out>>
    <3>1. Enters(c, "purgeGet")
      BY <1>16, <2>2 DEF PurgeGet, Enters, CallInv
    <3> QED
      BY <1>1, <3>1, PlainMove DEF Plain
  <2> QED
    BY <1>4, <1>16, <2>1, <2>2 DEF PurgeGet
<1>17. CASE PatStatus(c)
  <2>1. reg[c].pat \in Pats /\ Return(c, StatusAnswer(TRUE, FALSE, reg[c].pat))
    BY <1>17 DEF PatStatus, TypeOK, Defined, WithPat
  <2>2. Fits(StatusAnswer(TRUE, FALSE, reg[c].pat), session')
    BY <2>1, StatusFits
  <2> QED
    BY <1>1, <2>1, <2>2, EndPoint
<1>18. CASE HasRefresh(c)
  <2>1. reg' = [reg EXCEPT ![c].found = (refresh # None)] /\ Goto(c, "hasAccess")
    BY <1>18 DEF HasRefresh
  <2>2. reg'[c].found = (refresh # None)
    BY <1>2, <2>1 DEF TypeOK, Registers
  <2>3. PointAfter(c, "hasAccess") /\ "hasAccess" \in Labels
    BY <1>1, <2>2
    DEF PointAfter, Point, ReadPoint, MintPoint, LoginPoint, AppPoint, LogoutPoint, ListPoint, Minting,
        LoggingIn, AppLoggingIn, LoggingOut, Storing, Labels
  <2> QED
    BY <1>5, <2>1, <2>3
<1>19. ASSUME Return(c, Unauthenticated), session = None PROVE CallInvAfter(c)
  <2>1. Fits(Unauthenticated, session')
    BY <1>1, <1>19, StatusFits DEF Unauthenticated
  <2> QED
    BY <1>1, <1>19, <2>1, EndPoint
<1>20. CASE HasAccess(c)
  <2>1. CASE Goto(c, "statusMeta")
    BY <1>3, <2>1 DEF Plain
  <2>2. CASE access = None /\ ~reg[c].found /\ Return(c, Unauthenticated)
    <3>1. refresh = None
      BY <1>2, <1>20, <2>2 DEF HasAccess, Point, ReadPoint
    <3> QED
      BY <1>1, <1>19, <2>2, <3>1 DEF Settled, AppCreds, Creds
  <2> QED
    BY <1>20, <2>1, <2>2 DEF HasAccess
<1>21. CASE StatusMeta(c)
  <2>1. CASE metadata = None /\ Return(c, Unauthenticated)
    BY <1>1, <1>19, <2>1 DEF Settled, AppCreds, Creds
  <2>2. CASE /\ metadata # None
             /\ LET expired == now > metadata.rexp IN
                Return(c, StatusAnswer(~expired, expired, metadata.user))
    <3>1. session # None /\ metadata.user = session
      BY <1>1, <2>2, OwnerFacts DEF Settled, Empty, AppCreds, Creds
    <3>2. Fits(StatusAnswer(~(now > metadata.rexp), now > metadata.rexp, metadata.user),
               session')
      BY <1>1, <3>1, StatusFits
    <3> QED
      BY <1>1, <2>2, <3>2, EndPoint
  <2> QED
    BY <1>21, <2>1, <2>2 DEF StatusMeta
<1> QED
  BY <1>6, <1>7, <1>8, <1>9, <1>10, <1>11, <1>12, <1>13, <1>14, <1>15, <1>16, <1>17,
     <1>18, <1>20, <1>21 DEF Reads

-----------------------------------------------------------------------------
\* ListCachedTokens.
Listing(c) ==
    ListRefresh(c) \/ ListKeys(c) \/ ListEntry(c) \/ ListAccess(c) \/ ListDirect(c)

\* What a listing tells in the end follows from a settled store.
LEMMA ListingTells ==
    ASSUME Settled, NEW r, ListPoint("listAccess", r)
    PROVE  /\ access = None \/ cache["host"] # None => Tells(r.infos, session)
           /\ access # None /\ cache["host"] = None =>
                Tells(r.infos \cup {Info("direct", access)}, session)
<1>1. /\ \A i \in r.infos :
           \/ refresh # None /\ i = Info("refresh", refresh)
           \/ \E k \in CacheKeys : cache[k] # None /\ i = Info(k, cache[k].token)
      /\ refresh # None => Info("refresh", refresh) \in r.infos
      /\ cache["host"] # None => Info("host", cache["host"].token) \in r.infos
  BY DEF ListPoint
<1>2. \A k, t : Info(k, t).at = k /\ Info(k, t).token = t
  BY DEF Info
<1>3. CASE session = None
  BY <1>1, <1>2, <1>3, OwnerFacts DEF Settled, Empty, Tells, CacheKeys
<1>4. CASE session = App
  BY <1>4, OwnerFacts DEF Tells
<1>5. CASE session \in Sessions /\ Creds(session)
  <2>1. ASSUME NEW x, NEW j \in x, j.at \in {"host", "direct"}, j.token.owner = session,
               \A i \in x : i.at \in {"host", "direct"} => i = j
        PROVE  Tells(x, session)
    <3>1. {i \in x : i.at \in {"host", "direct"}} = {j}
      BY <2>1
    <3> QED
      BY <1>5, <2>1, <3>1, OwnerFacts DEF Tells
  <2>2. ASSUME cache["host"] # None PROVE Tells(r.infos, session)
    <3> DEFINE j == Info("host", cache["host"].token)
    <3>1. j \in r.infos /\ j.at = "host" /\ j.token.owner = session
      BY <1>1, <1>2, <1>5, <2>2 DEF Creds
    <3>2. \A i \in r.infos : i.at \in {"host", "direct"} => i = j
      BY <1>1, <1>2 DEF CacheKeys
    <3> HIDE DEF j
    <3> QED
      BY <2>1, <3>1, <3>2
  <2>3. ASSUME cache["host"] = None PROVE \A i \in r.infos : i.at \notin {"host", "direct"}
    BY <1>1, <1>2, <2>3 DEF CacheKeys
  <2>4. ASSUME cache["host"] = None, access # None
        PROVE  Tells(r.infos \cup {Info("direct", access)}, session)
    <3> DEFINE j == Info("direct", access)
    <3>1. j.at = "direct" /\ j.token.owner = session
      BY <1>2, <1>5, <2>4 DEF Creds
    <3> DEFINE all == r.infos \cup {j}
    <3>2. {i \in all : i.at \in {"host", "direct"}} = {j}
      BY <2>3, <2>4, <3>1
    <3>3. j \in all
      OBVIOUS
    <3> HIDE DEF j, all
    <3>4. Tells(all, session)
      BY <2>1, <3>1, <3>2, <3>3 DEF Tells
    <3> QED
      BY <3>4 DEF all, j
  <2>5. ASSUME cache["host"] = None, access = None PROVE Tells(r.infos, session)
    <3>1. {i \in r.infos : i.at \in {"host", "direct"}} = {}
      BY <2>3, <2>5
    <3>2. \E i \in r.infos : i.at = "refresh" /\ i.token.owner = session
      BY <1>1, <1>2, <1>5, <2>5 DEF Creds
    <3> QED
      BY <1>5, <3>1, <3>2, OwnerFacts DEF Tells
  <2> QED
    BY <2>2, <2>4, <2>5
<1> QED
  BY <1>3, <1>4, <1>5 DEF Settled

LEMMA SequentialListing ==
    ASSUME TypeOK, Labelled, NEW c \in Callers, CallInv(c), Listing(c), ~Fault
    PROVE  StepInv(c)
<1> USE DEF At
<1>1. /\ UNCHANGED <<refresh, access, metadata, cache, session>> /\ pc[c] # "idle"
      /\ Settled /\ ListPoint(pc[c], reg[c])
  <2>1. /\ UNCHANGED <<secrets, session>>
        /\ pc[c] \in {"listRefresh", "listKeys", "listEntry", "listAccess", "listDirect"}
    BY DEF Listing, ListRefresh, ListKeys, ListEntry, ListAccess, ListDirect
  <2> QED
    BY <2>1, SettledPoint DEF secrets, CallInv, Point
<1>2. Settled' /\ Labelled' /\ Cached' = Cached
  BY <1>1, SettledUnchanged, LabelledKept DEF secrets, Cached
<1> SUFFICES CallInvAfter(c)
  BY <1>2 DEF StepInv
<1>3. reg[c] \in Registers /\ faults \in Nat
  BY BoundsAssumption DEF TypeOK
<1>4. ASSUME NEW l \in {"listKeys", "listEntry", "listAccess", "listDirect"},
             Enters(c, l), ListPoint(l, reg'[c])
      PROVE  CallInvAfter(c)
  <2>1. ListPoint(l, reg[c])'
    BY <1>1, <1>4 DEF ListPoint
  <2>2. PointAfter(c, l) /\ l \in Labels /\ l # "idle"
    BY <1>2, <2>1
    DEF PointAfter, Point, ReadPoint, MintPoint, LoginPoint, AppPoint, LogoutPoint,
        Minting, LoggingIn, AppLoggingIn, LoggingOut, Storing, Labels
  <2> QED
    BY <1>4, <2>2, MovePoint
<1>5. ASSUME NEW l, Goto(c, l) PROVE Enters(c, l)
  BY <1>1, <1>5, GotoEnters
<1>6. ASSUME NEW i, Tells(i, session), Return(c, ListAnswer(i)) PROVE CallInvAfter(c)
  <2>1. Fits(ListAnswer(i), session')
    BY <1>1, <1>6, ListFits
  <2> QED
    BY <1>2, <1>6, <2>1, EndPoint
<1>7. CASE ListRefresh(c)
  <2>1. reg[c].infos = {} /\ Goto(c, "listKeys")
    BY <1>1, <1>7 DEF ListRefresh, ListPoint
  <2>2. reg'[c].infos = IF refresh = None THEN {} ELSE {Info("refresh", refresh)}
    <3>1. CASE refresh # None /\ reg' = [reg EXCEPT ![c].infos = {Info("refresh", refresh)}]
      <4> DEFINE found == {Info("refresh", refresh)}
      <4>1. reg' = [reg EXCEPT ![c].infos = found] /\ refresh # None
        BY <3>1
      <4>2. reg \in [Callers -> Registers]
        BY DEF TypeOK
      <4> HIDE DEF found
      <4>3. reg'[c].infos = found
        BY <4>1, <4>2 DEF Registers
      <4> QED
        BY <4>1, <4>3 DEF found
    <3>2. CASE refresh = None /\ UNCHANGED reg
      BY <2>1, <3>2
    <3> QED
      BY <1>7, <3>1, <3>2 DEF ListRefresh
  <2>3. ListPoint("listKeys", reg'[c])
    BY <2>2 DEF ListPoint, Info
  <2> QED
    BY <1>4, <1>5, <2>1, <2>3
<1>8. CASE ListKeys(c)
  <2>1. reg' = [reg EXCEPT ![c].keys = Cached] /\ Goto(c, "listEntry")
    BY <1>8 DEF ListKeys
  <2>2. reg'[c].infos = reg[c].infos /\ reg'[c].keys = Cached
    BY <1>3, <2>1 DEF TypeOK, Registers
  <2>3. ListPoint("listEntry", reg'[c])
    BY <1>1, <1>8, <2>2 DEF ListKeys, ListPoint, Cached, CacheKeys
  <2> QED
    BY <1>4, <1>5, <2>1, <2>3
<1>9. CASE ListEntry(c)
  <2>1. ListPoint("listEntry", reg[c]) /\ pc[c] = "listEntry"
    BY <1>1, <1>9 DEF ListEntry
  <2>2. UNCHANGED <<pc, out>> => Enters(c, "listEntry")
    BY <2>1 DEF Enters, CallInv
  <2>3. ASSUME NEW k \in reg[c].keys, UNCHANGED <<pc, out>>, cache[k] # None,
               reg' = [reg EXCEPT ![c].keys = @ \ {k},
                                  ![c].infos = @ \cup {Info(k, cache[k].token)}]
        PROVE  CallInvAfter(c)
    <3>1. /\ reg'[c].keys = reg[c].keys \ {k}
          /\ reg'[c].infos = reg[c].infos \cup {Info(k, cache[k].token)}
          /\ k \in CacheKeys
      BY <1>3, <2>3 DEF TypeOK, Registers
    <3>2. ListPoint("listEntry", reg'[c])
      BY <2>1, <2>3, <3>1 DEF ListPoint, Info
    <3> QED
      BY <1>4, <2>2, <2>3, <3>2
  <2>4. ASSUME NEW k \in reg[c].keys, UNCHANGED <<pc, out>>, cache[k] = None,
               reg' = [reg EXCEPT ![c].keys = @ \ {k}]
        PROVE  CallInvAfter(c)
    <3>1. reg'[c].keys = reg[c].keys \ {k} /\ reg'[c].infos = reg[c].infos
      BY <1>3, <2>4 DEF TypeOK, Registers
    <3>2. ListPoint("listEntry", reg'[c])
      BY <2>1, <2>4, <3>1 DEF ListPoint
    <3> QED
      BY <1>4, <2>2, <2>4, <3>2
  <2>5. ASSUME reg[c].keys = {}, Goto(c, "listAccess"), UNCHANGED reg PROVE CallInvAfter(c)
    <3>1. ListPoint("listAccess", reg'[c])
      BY <2>1, <2>5 DEF ListPoint
    <3> QED
      BY <1>4, <1>5, <2>5, <3>1
  <2> QED
    BY <1>9, <2>3, <2>4, <2>5 DEF ListEntry
<1>10. CASE ListAccess(c)
  <2>1. ListPoint("listAccess", reg[c])
    BY <1>1, <1>10 DEF ListAccess
  <2>2. CASE /\ access # None /\ Goto(c, "listDirect")
             /\ reg' = [reg EXCEPT ![c].access = access]
    <3>1. reg'[c].access = access /\ reg'[c].infos = reg[c].infos
      BY <1>3, <2>2 DEF TypeOK, Registers
    <3>2. ListPoint("listDirect", reg'[c])
      BY <2>1, <2>2, <3>1 DEF ListPoint
    <3> QED
      BY <1>4, <1>5, <2>2, <3>2
  <2>3. CASE access = None /\ Return(c, ListAnswer(reg[c].infos))
    BY <1>1, <1>6, <2>1, <2>3, ListingTells
  <2> QED
    BY <1>10, <2>2, <2>3 DEF ListAccess
<1>11. CASE ListDirect(c)
  <2>1. ListPoint("listAccess", reg[c]) /\ access # None /\ reg[c].access = access
    BY <1>1, <1>11 DEF ListDirect, ListPoint
  <2>2. CASE cache["host"] # None /\ Return(c, ListAnswer(reg[c].infos))
    BY <1>1, <1>6, <2>1, <2>2, ListingTells
  <2>3. CASE /\ cache["host"] = None
             /\ Return(c, ListAnswer(reg[c].infos \cup {Info("direct", access)}))
    BY <1>1, <1>6, <2>1, <2>3, ListingTells
  <2> QED
    BY <1>11, <2>1, <2>2, <2>3 DEF ListDirect
<1> QED
  BY <1>7, <1>8, <1>9, <1>10, <1>11 DEF Listing

-----------------------------------------------------------------------------
\* Steps that write.

\* What is read of a settled store whose last login is of an OAuth session.
LEMMA SettledSession ==
    ASSUME session \in Sessions
    PROVE  Settled <=> Creds(session)
  BY OwnerFacts DEF Settled

\* An entry is put into the cache or removed from it.
LEMMA LabelledPut ==
    ASSUME TypeOK, Labelled, UNCHANGED metadata, NEW k \in CacheKeys, NEW e,
           cache' = [cache EXCEPT ![k] = e], e # None => e.label \in {None, e.token.owner}
    PROVE  Labelled'
  BY DEF Labelled, TypeOK

LEMMA HeldTokens ==
    ASSUME TypeOK, NEW c \in Callers
    PROVE  /\ reg[c] \in Registers
           /\ pc[c] \in WithAccess => reg[c].access \in AccessTokens /\ reg[c].access # None
           /\ pc[c] \in Holding => reg[c].refresh \in RefreshTokens /\ reg[c].refresh # None
  BY AbsentAssumption DEF TypeOK, Defined

\* storeCredentials and the cache, for a mint.
LEMMA SequentialMint ==
    ASSUME TypeOK, Labelled, NEW c \in Callers, CallInv(c), ~Fault, reg[c].minting,
           PutRefresh(c) \/ PutAccess(c) \/ PutMeta(c) \/ PutCache(c)
    PROVE  StepInv(c)
<1> USE DEF At
<1>1. pc[c] \in Storing /\ pc[c] # "idle"
  BY DEF PutRefresh, PutAccess, PutMeta, PutCache, Storing
<1>2. /\ session \in Sessions /\ reg[c].access.owner = session
      /\ reg[c].meta # None => reg[c].meta.label = session
      /\ pc[c] = "putRefresh" => reg[c].refresh.owner = session
  BY <1>1 DEF CallInv, Point, MintPoint, Minting, Storing, WithAccess, Holding
<1>3. Creds(session)
  BY <1>1, <1>2, SettledSession
  DEF CallInv, Point, ReadPoint, LoggingIn, AppLoggingIn, LoggingOut, Storing
<1>4. SessionID(c) = session
  BY <1>2 DEF SessionID
<1>5. reg[c].access # None /\ (pc[c] = "putRefresh" => reg[c].refresh # None)
  BY <1>1, HeldTokens DEF WithAccess, Storing, Holding
<1>6. ASSUME NEW l \in {"putAccess", "putMeta", "putCache", "cacheMinted"}, Goto(c, l),
             UNCHANGED <<reg, session>>, Creds(session)', Labelled'
      PROVE  StepInv(c)
  <2>1. Settled'
    BY <1>2, <1>6 DEF Settled, Creds
  <2>2. PointAfter(c, l) /\ l \in Labels /\ l # "idle"
    BY <1>2, <1>6, <2>1
    DEF PointAfter, Point, ReadPoint, MintPoint, LoginPoint, AppPoint, LogoutPoint, ListPoint, Minting,
        LoggingIn, AppLoggingIn, LoggingOut, Storing, Holding, Labels
  <2>3. Enters(c, l)
    BY <1>1, <1>6, GotoEnters
  <2> QED
    BY <1>6, <2>2, <2>3, MovePoint DEF StepInv
<1>7. CASE PutRefresh(c)
  <2>1. /\ refresh' = reg[c].refresh /\ Goto(c, "putAccess")
        /\ UNCHANGED <<access, metadata, cache, reg, session>>
    BY <1>7 DEF PutRefresh, StoreFailed
  <2>2. Creds(session)'
    BY <1>2, <1>3, <1>5, <1>7, <2>1 DEF Creds, PutRefresh
  <2>3. Labelled'
    BY <2>1 DEF Labelled
  <2> QED
    BY <1>6, <2>1, <2>2, <2>3
<1>8. CASE PutAccess(c)
  <2>1. /\ access' = reg[c].access /\ Goto(c, "putMeta")
        /\ UNCHANGED <<refresh, metadata, cache, reg, session>>
    BY <1>8 DEF PutAccess, StoreFailed
  <2>2. Creds(session)'
    BY <1>2, <1>3, <1>5, <2>1 DEF Creds
  <2>3. Labelled'
    BY <2>1 DEF Labelled
  <2> QED
    BY <1>6, <2>1, <2>2, <2>3
<1>9. CASE PutMeta(c)
  <2> DEFINE m == [ user |-> reg[c].access.owner, label |-> SessionID(c), client |-> TRUE,
                    rexp |-> IF reg[c].refresh = None THEN Far ELSE now + RefreshLife ]
  <2>1. /\ metadata' = m /\ Goto(c, "putCache")
        /\ UNCHANGED <<refresh, access, cache, reg, session>>
    BY <1>9 DEF PutMeta, StoreFailed
  <2>2. metadata'.user = session /\ metadata'.label = session
    BY <1>2, <1>4, <2>1
  <2>3. metadata' # None
    <3>1. SessionID(c) \in Opt(Owners) /\ reg[c].access.owner \in Opt(Owners)
      BY <1>2, <1>4 DEF Opt, Owners
    <3>2. m \in MetadataRecords
      BY <3>1, TimeTypes DEF MetadataRecords
    <3> QED
      BY <2>1, <3>2, AbsentAssumption
  <2>4. Creds(session)' /\ Labelled'
    BY <1>3, <2>1, <2>2, <2>3 DEF Creds, Labelled
  <2> QED
    BY <1>6, <2>1, <2>4
<1>10. CASE PutCache(c)
  <2> DEFINE e == [ token |-> reg[c].access, label |-> SessionID(c),
                    expiresAt |-> IF reg[c].refresh = None THEN Far ELSE now + AccessLife ]
  <2>1. /\ cache' = [cache EXCEPT !["host"] = e] /\ Goto(c, "cacheMinted")
        /\ UNCHANGED <<refresh, access, metadata, reg, session>>
    BY <1>10 DEF PutCache
  <2>2. e.token.owner = session /\ e.label = session
    BY <1>2, <1>4
  <2> HIDE DEF e
  <2>3. cache'["host"] = e
    BY <2>1 DEF TypeOK, CacheKeys
  <2>4. Creds(session)'
    BY <1>3, <2>1, <2>2, <2>3 DEF Creds
  <2>5. Labelled'
    BY <2>1, <2>2, LabelledPut DEF CacheKeys
  <2> QED
    BY <1>6, <2>1, <2>4, <2>5
<1> QED
  BY <1>7, <1>8, <1>9, <1>10

\* storeCredentials, for a login.
LEMMA SequentialLogin ==
    ASSUME TypeOK, Labelled, NEW c \in Callers, CallInv(c), ~Fault, ~reg[c].minting,
           PutRefresh(c) \/ PutAccess(c) \/ PutMeta(c) \/ PutCache(c)
    PROVE  StepInv(c)
<1> USE DEF At
<1>1. pc[c] \in Storing /\ pc[c] # "idle"
  BY DEF PutRefresh, PutAccess, PutMeta, PutCache, Storing
<1>2. /\ reg[c].meta = None /\ reg[c].access.owner \in Sessions
      /\ pc[c] \in {"putMeta", "putCache"} => access # None /\ access.owner = reg[c].access.owner
      /\ pc[c] = "putCache" =>
           /\ session = reg[c].access.owner
           /\ metadata # None /\ metadata.user = session /\ metadata.label = session
  BY <1>1 DEF CallInv, Point, LoginPoint, LoggingIn
<1>3. SessionID(c) = reg[c].access.owner
  BY <1>2 DEF SessionID
<1>4. reg[c].access # None
  BY <1>1, HeldTokens DEF WithAccess
<1>5. ASSUME NEW l \in {"putAccess", "putMeta", "putCache"}, Goto(c, l), UNCHANGED reg,
             l # "putAccess" => access' # None /\ access'.owner = reg[c].access.owner,
             l = "putCache" =>
               /\ session' = reg[c].access.owner
               /\ metadata' # None /\ metadata'.user = session' /\ metadata'.label = session',
             Labelled'
      PROVE  StepInv(c)
  <2>1. PointAfter(c, l) /\ l \in Labels /\ l # "idle"
    BY <1>2, <1>5
    DEF PointAfter, Point, ReadPoint, MintPoint, LoginPoint, AppPoint, LogoutPoint, ListPoint, Minting,
        LoggingIn, AppLoggingIn, LoggingOut, Storing, Labels
  <2>2. Enters(c, l)
    BY <1>1, <1>5, GotoEnters
  <2> QED
    BY <1>5, <2>1, <2>2, MovePoint DEF StepInv
<1>6. CASE PutRefresh(c)
  <2>1. Goto(c, "putAccess") /\ UNCHANGED <<metadata, cache, reg>>
    BY <1>6 DEF PutRefresh, StoreFailed
  <2>2. Labelled'
    BY <2>1 DEF Labelled
  <2> QED
    BY <1>5, <2>1, <2>2
<1>7. CASE PutAccess(c)
  <2>1. access' = reg[c].access /\ Goto(c, "putMeta") /\ UNCHANGED <<metadata, cache, reg>>
    BY <1>7 DEF PutAccess, StoreFailed
  <2>2. Labelled'
    BY <2>1 DEF Labelled
  <2> QED
    BY <1>4, <1>5, <2>1, <2>2
<1>8. CASE PutMeta(c)
  <2> DEFINE m == [ user |-> reg[c].access.owner, label |-> SessionID(c), client |-> TRUE,
                    rexp |-> IF reg[c].refresh = None THEN Far ELSE now + RefreshLife ]
  <2>1. /\ metadata' = m /\ session' = reg[c].access.owner /\ Goto(c, "putCache")
        /\ UNCHANGED <<access, cache, reg>>
    BY <1>8 DEF PutMeta, StoreFailed
  <2>2. metadata'.user = session' /\ metadata'.label = session'
    BY <1>3, <2>1
  <2>3. metadata' # None
    <3>1. SessionID(c) \in Opt(Owners) /\ reg[c].access.owner \in Opt(Owners)
      BY <1>2, <1>3 DEF Opt, Owners
    <3>2. m \in MetadataRecords
      BY <3>1, TimeTypes DEF MetadataRecords
    <3> QED
      BY <2>1, <3>2, AbsentAssumption
  <2>4. Labelled'
    BY <2>1, <2>2 DEF Labelled
  <2>5. access' # None /\ access'.owner = reg[c].access.owner
    BY <1>2, <1>8, <2>1 DEF PutMeta
  <2> QED
    BY <1>5, <2>1, <2>2, <2>3, <2>4, <2>5
<1>9. CASE PutCache(c)
  <2> DEFINE e == [ token |-> reg[c].access, label |-> SessionID(c),
                    expiresAt |-> IF reg[c].refresh = None THEN Far ELSE now + AccessLife ]
  <2>1. /\ cache' = [cache EXCEPT !["host"] = e] /\ Return(c, Done)
        /\ UNCHANGED <<refresh, access, metadata, session>>
    BY <1>9 DEF PutCache
  <2>2. e.token.owner = reg[c].access.owner /\ e.label = reg[c].access.owner
    BY <1>3
  <2> HIDE DEF e
  <2>3. cache'["host"] = e
    BY <2>1 DEF TypeOK, CacheKeys
  <2>4. pc[c] = "putCache"
    BY <1>9 DEF PutCache
  <2>5. Settled'
    BY <1>2, <2>1, <2>2, <2>3, <2>4 DEF Settled, Creds
  <2>6. Labelled'
    BY <2>1, <2>2, LabelledPut DEF CacheKeys
  <2> QED
    BY <2>1, <2>5, <2>6, PlainFits, EndPoint DEF StepInv
<1> QED
  BY <1>6, <1>7, <1>8, <1>9

\* GetToken caches what it answers with.
LEMMA SequentialAnswer ==
    ASSUME TypeOK, Labelled, NEW c \in Callers, CallInv(c), ~Fault,
           CacheAccess(c) \/ CacheMinted(c) \/ PatCache(c)
    PROVE  StepInv(c)
<1> USE DEF At
<1>1. Settled
  BY SettledPoint DEF CacheAccess, CacheMinted, PatCache, Plain
<1>2. ASSUME NEW k \in {"host", "pat"}, NEW e, NEW p,
             cache' = [cache EXCEPT ![k] = e], Return(c, TokenAnswer(e, p)),
             UNCHANGED <<refresh, access, metadata, session>>,
             e.label \in {None, e.token.owner},
             k = "pat" => p # None,
             k = "host" /\ session \in Sessions => e.token.owner = session,
             k = "host" => session # None
      PROVE  StepInv(c)
  <2>1. Labelled'
    BY <1>2, LabelledPut DEF CacheKeys
  <2>2. cache'[k] = e /\ (k = "pat" => cache'["host"] = cache["host"])
        /\ cache'["app"] = cache["app"]
    BY <1>2 DEF TypeOK, CacheKeys
  <2>3. Settled'
    BY <1>1, <1>2, <2>2 DEF Settled, Creds, AppCreds, Empty
  <2>4. Fits(TokenAnswer(e, p), session')
    BY <1>2, TokenFits
  <2> QED
    BY <1>2, <2>1, <2>3, <2>4, EndPoint DEF StepInv
<1>3. CASE CacheAccess(c)
  <2> DEFINE e == StoredEntry(reg[c].access)
  <2>1. /\ cache' = [cache EXCEPT !["host"] = e] /\ Return(c, TokenAnswer(e, None))
        /\ UNCHANGED <<refresh, access, metadata, session>>
    BY <1>3 DEF CacheAccess
  <2>2. e.label = None /\ e.token = reg[c].access
    BY DEF StoredEntry
  <2>3. reg[c].access = access /\ access # None
    BY <1>3, HeldTokens DEF CacheAccess, CallInv, Point, ReadPoint, WithAccess
  <2>4. session # None /\ (session \in Sessions => access.owner = session)
    BY <1>1, <2>3, OwnerFacts DEF Settled, Empty, Creds
  <2> HIDE DEF e
  <2> QED
    BY <1>2, <2>1, <2>2, <2>3, <2>4
<1>4. CASE CacheMinted(c)
  <2> DEFINE e == [ token |-> reg[c].access, expiresAt |-> now + AccessLife,
                    label |-> IF reg[c].meta = None THEN None ELSE reg[c].meta.label ]
  <2>1. /\ cache' = [cache EXCEPT !["host"] = e] /\ Return(c, TokenAnswer(e, None))
        /\ UNCHANGED <<refresh, access, metadata, session>>
    BY <1>4 DEF CacheMinted
  <2>2. /\ session \in Sessions /\ reg[c].access.owner = session
        /\ reg[c].meta # None => reg[c].meta.label = session
    BY <1>4 DEF CacheMinted, CallInv, Point, MintPoint, Minting, WithAccess
  <2>3. e.token.owner = session /\ e.label \in {None, e.token.owner}
    BY <2>2
  <2> HIDE DEF e
  <2> QED
    BY <1>2, <2>1, <2>2, <2>3, OwnerFacts
<1>5. CASE PatCache(c)
  <2> DEFINE e == StoredEntry([owner |-> reg[c].pat, exp |-> Far])
  <2>1. /\ cache' = [cache EXCEPT !["pat"] = e] /\ Return(c, TokenAnswer(e, reg[c].pat))
        /\ UNCHANGED <<refresh, access, metadata, session>>
    BY <1>5 DEF PatCache
  <2>2. e.label = None
    BY DEF StoredEntry
  <2>3. reg[c].pat # None
    BY <1>5, OwnerFacts DEF PatCache, TypeOK, Defined, WithPat
  <2> HIDE DEF e
  <2> QED
    BY <1>2, <2>1, <2>2, <2>3
<1> QED
  BY <1>3, <1>4, <1>5

\* PurgeExpiredTokens deletes an entry.
LEMMA SequentialPurge ==
    ASSUME TypeOK, Labelled, NEW c \in Callers, CallInv(c), ~Fault, PurgeDelete(c)
    PROVE  StepInv(c)
<1> USE DEF At
<1>1. /\ Settled /\ pc[c] # "idle" /\ Goto(c, "purgeGet")
      /\ UNCHANGED <<refresh, access, metadata, session>>
      /\ cache' = [cache EXCEPT ![reg[c].key] = None]
  BY SettledPoint DEF PurgeDelete, Plain
<1>2. \A k \in CacheKeys : cache'[k] \in {None, cache[k]}
  BY <1>1 DEF TypeOK
<1>3. Settled'
  BY <1>1, <1>2, SettledKept DEF CacheKeys
<1>4. Labelled'
  BY <1>1, <1>2, LabelledKept
<1>5. CallInvAfter(c)
  BY <1>1, <1>3, GotoEnters, PlainMove DEF Plain
<1> QED
  BY <1>4, <1>5 DEF StepInv

\* appLogin.
LEMMA SequentialAppLogin ==
    ASSUME TypeOK, Labelled, NEW c \in Callers, CallInv(c), ~Fault,
           AppCache(c) \/ AppAccess(c) \/ AppMeta(c)
    PROVE  StepInv(c)
<1> USE DEF At
<1>1. pc[c] \in {"appCache", "appAccess", "appMeta"} /\ pc[c] # "idle"
  BY DEF AppCache, AppAccess, AppMeta
<1>2. /\ reg[c].access.owner = App /\ reg[c].access # None
      /\ pc[c] = "appMeta" => access # None
  BY <1>1, HeldTokens DEF CallInv, Point, AppPoint, AppLoggingIn, WithAccess
<1>3. ASSUME NEW l \in {"appAccess", "appMeta"}, Goto(c, l), UNCHANGED reg,
             l = "appMeta" => access' # None, Labelled'
      PROVE  StepInv(c)
  <2>1. PointAfter(c, l) /\ l \in Labels /\ l # "idle"
    BY <1>2, <1>3
    DEF PointAfter, Point, ReadPoint, MintPoint, LoginPoint, AppPoint, LogoutPoint, ListPoint, Minting,
        LoggingIn, AppLoggingIn, LoggingOut, Storing, Labels
  <2>2. Enters(c, l)
    BY <1>1, <1>3, GotoEnters
  <2> QED
    BY <1>3, <2>1, <2>2, MovePoint DEF StepInv
<1>4. CASE AppCache(c)
  <2> DEFINE e == [token |-> reg[c].access, expiresAt |-> reg[c].access.exp, label |-> None]
  <2>1. /\ cache' = [cache EXCEPT !["app"] = e] /\ Goto(c, "appAccess")
        /\ UNCHANGED <<metadata, reg>>
    BY <1>4 DEF AppCache
  <2>2. e.label = None
    OBVIOUS
  <2> HIDE DEF e
  <2>3. Labelled'
    BY <2>1, <2>2, LabelledPut DEF CacheKeys
  <2> QED
    BY <1>3, <2>1, <2>3
<1>5. CASE AppAccess(c)
  <2>1. access' = reg[c].access /\ Goto(c, "appMeta") /\ UNCHANGED <<metadata, cache, reg>>
    BY <1>5 DEF AppAccess
  <2>2. Labelled'
    BY <2>1 DEF Labelled
  <2> QED
    BY <1>2, <1>3, <2>1, <2>2
<1>6. CASE AppMeta(c)
  <2> DEFINE m == [user |-> App, label |-> None, client |-> FALSE, rexp |-> Far]
  <2>1. /\ metadata' = m /\ Return(c, Done) /\ session' = App /\ UNCHANGED <<access, cache>>
        /\ access # None
    BY <1>2, <1>6 DEF AppMeta
  <2>2. m.user = App /\ m.label = None /\ m # None
    <3>1. m \in MetadataRecords
      BY TimeTypes DEF MetadataRecords, Opt, Owners
    <3> QED
      BY <3>1, AbsentAssumption
  <2> HIDE DEF m
  <2>3. Labelled'
    BY <2>1, <2>2 DEF Labelled
  <2>4. Settled'
    BY <2>1, <2>2 DEF Settled, AppCreds
  <2> QED
    BY <2>1, <2>3, <2>4, PlainFits, EndPoint DEF StepInv
<1> QED
  BY <1>4, <1>5, <1>6

\* Logout.
LEMMA SequentialLogout ==
    ASSUME TypeOK, Labelled, NEW c \in Callers, CallInv(c), ~Fault,
           Clear(c) \/ DelRefresh(c) \/ DelAccess(c) \/ DelMeta(c)
    PROVE  StepInv(c)
<1> USE DEF At
<1>1. pc[c] \in {"clear", "delRefresh", "delAccess", "delMeta"} /\ pc[c] # "idle"
      /\ reg[c] \in Registers
  BY DEF TypeOK, Clear, DelRefresh, DelAccess, DelMeta
<1>2. LogoutPoint(pc[c], reg[c]) /\ out[c] = Nothing
  BY <1>1 DEF CallInv, Point
<1>3. ASSUME NEW l \in {"clear", "delRefresh", "delAccess", "delMeta"}, Enters(c, l),
             LogoutPoint(l, reg[c])', Labelled'
      PROVE  StepInv(c)
  <2>1. PointAfter(c, l) /\ l \in Labels /\ l # "idle"
    BY <1>3
    DEF PointAfter, Point, ReadPoint, MintPoint, LoginPoint, AppPoint, ListPoint, Minting,
        LoggingIn, AppLoggingIn, LoggingOut, Storing, Labels
  <2> QED
    BY <1>3, <2>1, MovePoint DEF StepInv
<1>4. CASE Clear(c)
  <2>1. pc[c] = "clear" /\ Cached \subseteq reg[c].keys /\ UNCHANGED metadata
    BY <1>2, <1>4 DEF Clear, LogoutPoint
  <2>2. ASSUME NEW k \in reg[c].keys, reg' = [reg EXCEPT ![c].keys = @ \ {k}],
               cache' = [cache EXCEPT ![k] = None], UNCHANGED <<pc, out>>
        PROVE  StepInv(c)
    <3>1. reg'[c].keys = reg[c].keys \ {k} /\ k \in CacheKeys
      BY <1>1, <2>2 DEF TypeOK, Registers
    <3>2. \A i \in CacheKeys : cache'[i] = IF i = k THEN None ELSE cache[i]
      BY <2>2 DEF TypeOK
    <3>3. LogoutPoint("clear", reg[c])'
      BY <2>1, <3>1, <3>2 DEF LogoutPoint, Cached
    <3>4. Labelled'
      BY <2>1, <3>2, LabelledKept
    <3>5. Enters(c, "clear")
      BY <1>2, <2>1, <2>2 DEF Enters
    <3> QED
      BY <1>3, <3>3, <3>4, <3>5
  <2>3. CASE reg[c].keys = {} /\ Goto(c, "delRefresh") /\ UNCHANGED <<reg, cache>>
    <3>1. LogoutPoint("delRefresh", reg[c])'
      BY <2>1, <2>3 DEF LogoutPoint, Cached
    <3>2. Labelled'
      BY <2>1, <2>3 DEF Labelled
    <3> QED
      BY <1>1, <1>3, <2>3, <3>1, <3>2, GotoEnters
  <2> QED
    BY <1>4, <2>2, <2>3 DEF Clear
<1>5. CASE DelRefresh(c)
  <2>1. refresh' = None /\ Goto(c, "delAccess") /\ UNCHANGED <<metadata, cache, reg>>
    BY <1>5 DEF DelRefresh
  <2>2. LogoutPoint("delAccess", reg[c])' /\ Labelled'
    BY <1>2, <1>5, <2>1 DEF DelRefresh, LogoutPoint, Labelled, Cached
  <2> QED
    BY <1>1, <1>3, <2>1, <2>2, GotoEnters
<1>6. CASE DelAccess(c)
  <2>1. access' = None /\ Goto(c, "delMeta") /\ UNCHANGED <<refresh, metadata, cache, reg>>
    BY <1>6 DEF DelAccess
  <2>2. LogoutPoint("delMeta", reg[c])' /\ Labelled'
    BY <1>2, <1>6, <2>1 DEF DelAccess, LogoutPoint, Labelled, Cached
  <2> QED
    BY <1>1, <1>3, <2>1, <2>2, GotoEnters
<1>7. CASE DelMeta(c)
  <2>1. /\ metadata' = None /\ Return(c, Done) /\ session' = None
        /\ UNCHANGED <<refresh, access, cache>>
    BY <1>7 DEF DelMeta
  <2>2. refresh = None /\ access = None /\ Cached = {}
    BY <1>2, <1>7 DEF DelMeta, LogoutPoint
  <2>3. Settled' /\ Labelled'
    BY <2>1, <2>2 DEF Settled, Empty, Labelled, Cached, CacheKeys
  <2> QED
    BY <2>1, <2>3, PlainFits, EndPoint DEF StepInv
<1> QED
  BY <1>4, <1>5, <1>6, <1>7

-----------------------------------------------------------------------------
\* The invariant of calls that do not overlap.
LEMMA SequentialInit == Init => SequentialInv
<1> SUFFICES ASSUME Init PROVE SequentialInv
  OBVIOUS
<1>1. Settled
  <2>1. ASSUME NEW s \in Sessions, Legacy(s) PROVE Settled
    <3> DEFINE m == [user |-> s, label |-> s, client |-> TRUE, rexp |-> RefreshLife]
               r == [owner |-> s, gen |-> 0, exp |-> RefreshLife]
    <3>1. m # None /\ r # None
      <4>1. m \in MetadataRecords /\ r \in RefreshTokens
        BY DurationsAssumption, BoundsAssumption
        DEF MetadataRecords, RefreshTokens, Opt, Owners, Times, Far
      <4> QED
        BY <4>1, AbsentAssumption
    <3>2. metadata = m /\ refresh = r /\ session = s
      BY <2>1 DEF Legacy
    <3>3. metadata.user = s /\ metadata.label = s /\ refresh.owner = s
      BY <3>2
    <3>4. cache["host"] = None /\ access = None
      BY DEF Init, CacheKeys
    <3> HIDE DEF m, r
    <3> QED
      BY <3>1, <3>2, <3>3, <3>4 DEF Settled, Creds
  <2>2. CASE Fresh
    BY <2>2 DEF Init, Fresh, Settled, Empty, CacheKeys
  <2> QED
    BY <2>1, <2>2 DEF Init
<1>2. Labelled
  <2>1. CASE Fresh
    BY <2>1 DEF Init, Fresh, Labelled
  <2>2. ASSUME NEW s \in Sessions, Legacy(s) PROVE Labelled
    BY <2>2 DEF Init, Legacy, Labelled
  <2> QED
    BY <2>1, <2>2 DEF Init
<1>3. ASSUME NEW c \in Callers PROVE CallInv(c)
  <2>1. pc[c] = "idle" /\ reg[c] = Blank /\ out[c] = Nothing
    BY DEF Init
  <2>2. Fits(out[c], session)
    BY <2>1, PlainFits
  <2> QED
    BY <1>1, <2>1, <2>2
    DEF CallInv, Point, ReadPoint, MintPoint, LoginPoint, AppPoint, LogoutPoint, ListPoint, Minting,
        LoggingIn, AppLoggingIn, LoggingOut, Storing
<1> QED
  BY <1>2, <1>3 DEF SequentialInv

\* The steps together.
LEMMA SequentialStep ==
    ASSUME TypeOK, Labelled, NEW c \in Callers, CallInv(c), ~Fault, Step(c)
    PROVE  StepInv(c)
<1>1. CASE Reads(c)
  BY <1>1, SequentialRead
<1>2. CASE PutRefresh(c) \/ PutAccess(c) \/ PutMeta(c) \/ PutCache(c)
  BY <1>2, SequentialMint, SequentialLogin
<1>3. CASE CacheAccess(c) \/ CacheMinted(c) \/ PatCache(c)
  BY <1>3, SequentialAnswer
<1>4. CASE PurgeDelete(c)
  BY <1>4, SequentialPurge
<1>5. CASE AppCache(c) \/ AppAccess(c) \/ AppMeta(c)
  BY <1>5, SequentialAppLogin
<1>6. CASE Clear(c) \/ DelRefresh(c) \/ DelAccess(c) \/ DelMeta(c)
  BY <1>6, SequentialLogout
<1>7. CASE Listing(c)
  BY <1>7, SequentialListing
<1> QED
  BY <1>1, <1>2, <1>3, <1>4, <1>5, <1>6, <1>7 DEF Step, Reads, Listing

\* What a step without a fault keeps of the only caller, it keeps of all.
LEMMA SequentialNext ==
    OneCaller /\ TypeOK /\ SequentialInv /\ [Next]_vars => SequentialInv'
<1> SUFFICES ASSUME OneCaller, TypeOK, SequentialInv, [Next]_vars, Unfailing'
             PROVE  Labelled' /\ \A c \in Callers : CallInvAfter(c)
  BY DEF SequentialInv, CallInvAfter
<1>1. CASE Tick \/ UNCHANGED vars
  <2>1. UNCHANGED <<secrets, session, pc, reg, out, faults>>
    BY <1>1 DEF Tick, vars
  <2>2. Unfailing
    BY <2>1 DEF Unfailing
  <2>3. UNCHANGED <<refresh, access, metadata, cache>>
    BY <2>1 DEF secrets
  <2>4. Labelled'
    BY <2>2, <2>3 DEF SequentialInv, Labelled
  <2>5. ASSUME NEW c \in Callers PROVE CallInvAfter(c)
    <3>1. CallInv(c)
      BY <2>2 DEF SequentialInv
    <3>2. Settled => Settled'
      BY <2>1, SettledUnchanged
    <3>3. Cached' = Cached
      BY <2>3 DEF Cached
    <3> QED
      BY <2>1, <2>3, <3>1, <3>2, <3>3
      DEF CallInvAfter, CallInv, Point, ReadPoint, MintPoint, LoginPoint, AppPoint,
          LogoutPoint, ListPoint, Minting, LoggingIn, AppLoggingIn, LoggingOut, Storing, Fits
  <2> QED
    BY <2>4, <2>5
<1>2. ASSUME NEW c \in Callers, Call(c) \/ Step(c) \/ Crash(c)
      PROVE  Labelled' /\ \A d \in Callers : CallInvAfter(d)
  <2>1. faults \in Nat /\ (Fault \/ Reliable)
    BY <1>2, FaultsOf, BoundsAssumption DEF TypeOK
  <2>2. ~Fault /\ Unfailing
    BY <2>1 DEF Fault, Reliable, Unfailing
  <2>3. Labelled /\ CallInv(c)
    BY <2>2 DEF SequentialInv
  <2>4. StepInv(c)
    BY <1>2, <2>2, <2>3, SequentialCall, SequentialStep DEF Crash
  <2>5. \A d \in Callers : d = c
    BY DEF OneCaller
  <2> QED
    BY <2>4, <2>5 DEF StepInv
<1> QED
  BY <1>1, <1>2 DEF Next

\* Of calls that do not overlap, and without faults, the store agrees with the
\* last login or logout whenever no call is writing to it (storeCredentials,
\* refreshAccessToken, appLogin, logoutInternal, GetToken, GetStatus).
THEOREM SequentialCorrect ==
    ASSUME OneCaller
    PROVE  Spec => []SequentialInv
<1>1. TypeOK /\ SequentialInv /\ [Next]_vars => SequentialInv'
  BY SequentialNext
<1> QED
  BY <1>1, SequentialInit, TypeCorrect, PTL DEF Spec

\* Of calls that do not overlap, a logout leaves nothing of the profile in the
\* store (logoutInternal).
THEOREM LogoutSticksCorrect ==
    ASSUME OneCaller
    PROVE  Spec => []LogoutSticks
<1>1. SequentialInv => LogoutSticks
  <2> SUFFICES ASSUME SequentialInv, Unfailing, session = None, Quiet
               PROVE  /\ refresh = None /\ access = None /\ metadata = None
                      /\ Cached \subseteq {"pat"}
    BY DEF LogoutSticks
  <2>1. PICK c : Callers = {c}
    BY DEF OneCaller
  <2>2. Settled
    BY <2>1, SettledPoint DEF SequentialInv, Quiet
  <2>3. Empty
    BY <2>2, OwnerFacts DEF Settled
  <2> QED
    BY <2>3 DEF Empty, Cached, CacheKeys
<1> QED
  BY <1>1, SequentialCorrect, PTL

\* Of calls that do not overlap, GetToken answers with tokens of the last OAuth
\* login (storeCredentials, GetToken).
THEOREM TokenFollowsLoginCorrect ==
    ASSUME OneCaller
    PROVE  Spec => []TokenFollowsLogin
<1>1. SequentialInv => TokenFollowsLogin
  <2> SUFFICES ASSUME SequentialInv, Unfailing, NEW c \in Callers,
                      out[c].kind = "token", out[c].pat = None, session \in Sessions
               PROVE  out[c].entry.token.owner = session
    BY DEF TokenFollowsLogin
  <2>1. pc[c] = "idle" => Fits(out[c], session)
    BY DEF SequentialInv, CallInv
  <2>2. pc[c] # "idle" => out[c] = Nothing
    BY DEF SequentialInv, CallInv
  <2> QED
    BY <2>1, <2>2 DEF Fits, Nothing
<1> QED
  BY <1>1, SequentialCorrect, PTL

\* Of calls that do not overlap, GetStatus without a PAT names the user of the
\* last login, and reports nobody only when nobody is logged in (GetStatus).
THEOREM StatusFollowsLoginCorrect ==
    ASSUME OneCaller
    PROVE  Spec => []StatusFollowsLogin
<1>1. SequentialInv => StatusFollowsLogin
  <2> SUFFICES ASSUME SequentialInv, Unfailing, NEW c \in Callers,
                      out[c].kind = "status", out[c].user \notin Pats
               PROVE  IF out[c].authenticated \/ out[c].expired
                      THEN session # None /\ out[c].user = session
                      ELSE session = None
    BY DEF StatusFollowsLogin
  <2>1. pc[c] = "idle" => Fits(out[c], session)
    BY DEF SequentialInv, CallInv
  <2>2. pc[c] # "idle" => out[c] = Nothing
    BY DEF SequentialInv, CallInv
  <2> QED
    BY <2>1, <2>2 DEF Fits, Nothing
<1> QED
  BY <1>1, SequentialCorrect, PTL

\* Of calls that do not overlap, ListCachedTokens tells of the last OAuth login
\* its access token once, or its refresh token, and after a logout at most a PAT
\* (ListCachedTokens, cacheListEntries).
THEOREM ListingFollowsLoginCorrect ==
    ASSUME OneCaller
    PROVE  Spec => []ListingFollowsLogin
<1>1. SequentialInv => ListingFollowsLogin
  <2> SUFFICES ASSUME SequentialInv, Unfailing, NEW c \in Callers, out[c].kind = "list"
               PROVE  Tells(out[c].infos, session)
    BY DEF ListingFollowsLogin, Tells
  <2>1. pc[c] = "idle" => Fits(out[c], session)
    BY DEF SequentialInv, CallInv
  <2>2. pc[c] # "idle" => out[c] = Nothing
    BY DEF SequentialInv, CallInv
  <2> QED
    BY <2>1, <2>2 DEF Fits, Nothing
<1> QED
  BY <1>1, SequentialCorrect, PTL

\* Of calls that do not overlap, the session recorded with a cached token or
\* with the stored credentials is the session they were issued to.
THEOREM LabelsReflectLoginCorrect ==
    ASSUME OneCaller
    PROVE  Spec => []LabelsReflectLogin
<1>1. SequentialInv => LabelsReflectLogin
  BY DEF SequentialInv, Labelled, LabelsReflectLogin
<1> QED
  BY <1>1, SequentialCorrect, PTL

-----------------------------------------------------------------------------
(***************************************************************************)
(* A logout in which one operation failed.                                 *)
(***************************************************************************)

\* What a logout in which a delete failed leaves of the credentials: metadata
\* without a token, until the next login stores one.
Leftover(l, r) == session = None /\ metadata # None =>
    /\ faults = 1
    /\ (refresh = None /\ access = None) \/ LoggingIn(l, r) \/ AppLoggingIn(l)

\* What a call at l with the local variables r relies on.
FailedPoint(l, r) ==
    /\ l \in {"loadMeta", "rotateMeta", "post"} => r.minting
    /\ l = "loadMeta" => refresh # None
    /\ l \in {"rotateMeta", "post", "putCache"} \/ (l \in Storing /\ r.minting)
         => session # None
    /\ l = "hasRefresh" => ~r.found
    /\ l = "hasAccess" /\ r.found => refresh # None
    /\ l = "statusMeta" => refresh # None \/ access # None
    /\ l \in {"delAccess", "delMeta"} /\ faults = 0 => refresh = None
    /\ l = "delMeta" /\ faults = 0 => access = None

\* An answer that does not say of a session that is over that it is there.
Modest(a, s) ==
    a.kind = "status" /\ a.user \notin Pats /\ s = None => ~a.authenticated

\* What holds of a call with at most one fault.
FailedInv(c) ==
    /\ Leftover(pc[c], reg[c])
    /\ FailedPoint(pc[c], reg[c])
    /\ pc[c] = "idle" => reg[c] = Blank /\ Modest(out[c], session)
    /\ pc[c] # "idle" => out[c] = Nothing

\* What holds after the step of c.
FailedInvAfter(c) == FailedInv(c)'
LeftoverAfter(c, l) == Leftover(l, reg[c])'
FailedPointAfter(c, l) == FailedPoint(l, reg[c])'

LEMMA ModestAnswers ==
    /\ \A s : Modest(Nothing, s) /\ Modest(Done, s) /\ Modest(Error, s)
    /\ \A e, p, s : Modest(TokenAnswer(e, p), s)
    /\ \A i, s : Modest(ListAnswer(i), s)
    /\ \A x, u, s : Modest(StatusAnswer(FALSE, x, u), s)
    /\ \A a, x, u, s : u \in Pats \/ s # None => Modest(StatusAnswer(a, x, u), s)
  BY DEF Modest, Nothing, Done, Error, TokenAnswer, StatusAnswer, ListAnswer

\* A call returns with such an answer.
LEMMA FailedEnd ==
    ASSUME TypeOK, NEW c \in Callers, NEW a, Return(c, a), Modest(a, session'),
           LeftoverAfter(c, "idle")
    PROVE  FailedInvAfter(c)
<1>1. pc'[c] = "idle" /\ reg'[c] = Blank /\ out'[c] = a
  BY DEF TypeOK, Return
<1> QED
  BY <1>1 DEF FailedInvAfter, FailedInv, LeftoverAfter, FailedPoint, Storing

\* A call goes on.
LEMMA FailedMove ==
    ASSUME NEW c \in Callers, NEW l \in Labels, l # "idle", Enters(c, l),
           LeftoverAfter(c, l), FailedPointAfter(c, l)
    PROVE  FailedInvAfter(c)
  BY DEF FailedInvAfter, FailedInv, LeftoverAfter, FailedPointAfter, Enters

LEMMA FailedEnters ==
    ASSUME TypeOK, NEW c \in Callers, FailedInv(c), pc[c] # "idle", NEW l, Goto(c, l)
    PROVE  Enters(c, l)
  BY DEF TypeOK, Goto, FailedInv, Enters

\* A step that writes no credentials leaves nothing more behind.
LEMMA LeftoverKept ==
    ASSUME TypeOK, NEW c \in Callers, FailedInv(c), faults <= 1, faults' <= 1, NEW l,
           UNCHANGED <<refresh, access, metadata, session>>,
           \/ Fault
           \/ Reliable /\ ~LoggingIn(pc[c], reg[c]) /\ ~AppLoggingIn(pc[c])
           \/ Reliable /\ AppLoggingIn(l)
    PROVE  LeftoverAfter(c, l)
<1>1. faults \in Nat
  BY BoundsAssumption DEF TypeOK
<1> QED
  BY <1>1 DEF FailedInv, Leftover, LeftoverAfter, Fault, Reliable

\* Calls begin.
LEMMA FailedCall ==
    ASSUME TypeOK, NEW c \in Callers, FailedInv(c), faults <= 1, Call(c)
    PROVE  FailedInvAfter(c)
<1>1. /\ UNCHANGED <<refresh, access, metadata, session>> /\ Reliable
      /\ pc[c] = "idle" /\ reg[c] = Blank
  BY DEF Call, GetToken, Login, GetStatus, AppLogin, Logout, PurgeExpiredTokens,
         ListCachedTokens, Start, Begin, secrets, world, FailedInv
<1>2. ASSUME NEW l PROVE LeftoverAfter(c, l)
  BY <1>1, LeftoverKept DEF LoggingIn, AppLoggingIn, Storing, Reliable
<1>3. ASSUME NEW l \in {"cacheGet", "loadAccess", "patCacheGet", "patValidate", "hasRefresh",
                       "patStatus", "listClear", "listPurge", "appCache", "listRefresh"},
             l = "hasRefresh" => ~reg'[c].found,
             Begin(c, l)
      PROVE  FailedInvAfter(c)
  <2>1. FailedPointAfter(c, l) /\ l \in Labels /\ l # "idle"
    BY <1>3 DEF FailedPointAfter, FailedPoint, Storing, Labels
  <2> QED
    BY <1>2, <1>3, <2>1, BeginEnters, FailedMove
<1>4. ASSUME NEW s \in Sessions, NEW expiring \in BOOLEAN, Login(c, s, expiring)
      PROVE  FailedInvAfter(c)
  <2>1. reg'[c].minting = FALSE
    BY <1>1, <1>4 DEF Login, TypeOK, Blank
  <2>2. ASSUME NEW l \in {"putRefresh", "putAccess"}
        PROVE  FailedPointAfter(c, l) /\ l \in Labels /\ l # "idle"
    BY <2>1, <2>2 DEF FailedPointAfter, FailedPoint, Storing, Labels
  <2>3. Begin(c, "putRefresh") \/ Begin(c, "putAccess")
    BY <1>4 DEF Login
  <2> QED
    BY <1>2, <2>2, <2>3, BeginEnters, FailedMove
<1>5. ASSUME NEW pat, NEW force, GetToken(c, pat, force) PROVE FailedInvAfter(c)
  BY <1>3, <1>5 DEF GetToken, Start
<1>6. ASSUME NEW pat, GetStatus(c, pat) PROVE FailedInvAfter(c)
  <2>1. ~reg'[c].found
    BY <1>1, <1>6 DEF GetStatus, TypeOK, Blank
  <2> QED
    BY <1>3, <1>6, <2>1 DEF GetStatus, Start
<1>7. ASSUME AppLogin(c) \/ Logout(c) \/ PurgeExpiredTokens(c) \/ ListCachedTokens(c)
      PROVE  FailedInvAfter(c)
  BY <1>3, <1>7 DEF AppLogin, Logout, PurgeExpiredTokens, ListCachedTokens, Start
<1> QED
  BY <1>4, <1>5, <1>6, <1>7 DEF Call

\* Steps that write no credentials.
Spares(c) ==
    \/ Reads(c) \/ Listing(c) \/ CacheAccess(c) \/ CacheMinted(c) \/ PatCache(c) \/ PurgeDelete(c)
    \/ AppCache(c) \/ PutCache(c) \/ Clear(c) \/ Crash(c)

\* They leave the session alone, and are at no point where credentials are
\* written.
LEMMA SparesFacts ==
    ASSUME TypeOK, NEW c \in Callers, Spares(c)
    PROVE  /\ UNCHANGED <<refresh, access, metadata, session>>
           /\ Fault \/ Reliable
           /\ pc[c] # "idle"
           /\ pc[c] \notin {"putRefresh", "putAccess", "putMeta", "appAccess", "appMeta",
                           "delRefresh", "delAccess", "delMeta"} \/ Crash(c)
  BY DEF Spares, Reads, Listing, ListRefresh, ListKeys, ListEntry, ListAccess, ListDirect,
         CacheGet, LoadAccess, LoadRefresh, LoadMeta, RotateMeta, Post, PatCacheGet, PatValidate, ListClear, ListPurge, PurgeGet, PatStatus, HasRefresh,
         HasAccess, StatusMeta, CacheAccess, CacheMinted, PatCache, PurgeDelete, AppCache,
         PutCache, Clear, Crash, secrets, world, At

\* One by one: each goes on with what its own reads have told it.
LEMMA FailedSpares ==
    ASSUME TypeOK, NEW c \in Callers, FailedInv(c), faults <= 1, faults' <= 1, Spares(c)
    PROVE  FailedInvAfter(c)
<1> USE DEF At
<1>1. /\ UNCHANGED <<refresh, access, metadata, session>> /\ (Fault \/ Reliable)
      /\ pc[c] # "idle" /\ reg[c] \in Registers /\ Leftover(pc[c], reg[c])
      /\ FailedPoint(pc[c], reg[c]) /\ faults \in Nat
      /\ out[c] = Nothing
  BY SparesFacts, BoundsAssumption DEF TypeOK, FailedInv
<1>2. ASSUME NEW l, ~AppLoggingIn(pc[c]), ~LoggingIn(pc[c], reg[c]) \/ session # None \/ Fault
      PROVE LeftoverAfter(c, l)
  BY <1>1, <1>2, LeftoverKept DEF LeftoverAfter, Leftover
<1>3. ASSUME NEW a, Return(c, a), Modest(a, session'), pc[c] # "appCache" \/ Fault,
             pc[c] \in Storing => pc[c] = "putCache" \/ Fault,
             pc[c] \in {"appAccess", "appMeta"} => Fault
      PROVE  FailedInvAfter(c)
  <2>1. pc[c] = "putCache" => session # None
    BY <1>1 DEF FailedPoint
  <2>2. LeftoverAfter(c, "idle")
    BY <1>1, <1>2, <1>3, <2>1, LeftoverKept DEF AppLoggingIn, LoggingIn
  <2> QED
    BY <1>3, <2>2, FailedEnd
<1>4. ASSUME NEW l \in Labels \ {"idle"}, Enters(c, l), FailedPointAfter(c, l),
             pc[c] \notin {"appCache", "appAccess", "appMeta"},
             pc[c] \in Storing => pc[c] = "putCache"
      PROVE  FailedInvAfter(c)
  <2>1. pc[c] = "putCache" => session # None
    BY <1>1 DEF FailedPoint
  <2>2. LeftoverAfter(c, l)
    BY <1>2, <1>4, <2>1 DEF AppLoggingIn, LoggingIn
  <2> QED
    BY <1>4, <2>2, FailedMove
<1>5. ASSUME NEW l, Goto(c, l) PROVE Enters(c, l)
  BY <1>1, <1>5, FailedEnters
<1>6. ASSUME NEW l \in Labels \ (Storing \cup {"idle", "loadMeta", "rotateMeta", "post",
                                 "hasRefresh", "hasAccess", "statusMeta", "delAccess", "delMeta"}),
             Enters(c, l)
      PROVE  FailedPointAfter(c, l)
  BY <1>6 DEF FailedPointAfter, FailedPoint, Storing
<1>7. {"loadAccess", "cacheAccess", "loadRefresh", "cacheMinted", "patValidate", "patCache",
       "clear", "delRefresh", "purgeGet", "purgeDelete", "appAccess",
       "listKeys", "listEntry", "listAccess", "listDirect"}
      \subseteq Labels \ (Storing \cup {"idle", "loadMeta", "rotateMeta", "post",
                                 "hasRefresh", "hasAccess", "statusMeta", "delAccess", "delMeta"})
  BY DEF Labels, Storing
<1>8. ASSUME NEW l \in {"loadAccess", "cacheAccess", "loadRefresh", "cacheMinted",
                       "patValidate", "patCache", "clear", "delRefresh", "purgeGet",
                       "purgeDelete", "listKeys", "listEntry", "listAccess",
                       "listDirect"},
             Goto(c, l) \/ (UNCHANGED <<pc, out>> /\ pc[c] = l),
             pc[c] \notin {"appCache", "appAccess", "appMeta"},
             pc[c] \in Storing => pc[c] = "putCache"
      PROVE  FailedInvAfter(c)
  <2>1. Enters(c, l)
    BY <1>1, <1>5, <1>8 DEF Enters
  <2> QED
    BY <1>4, <1>6, <1>7, <1>8, <2>1
<1>9. ASSUME NEW l \in {"loadMeta", "rotateMeta", "post", "putRefresh", "hasAccess",
                       "statusMeta"},
             Goto(c, l), FailedPointAfter(c, l),
             pc[c] \notin {"appCache", "appAccess", "appMeta"}, pc[c] \notin Storing
      PROVE  FailedInvAfter(c)
  <2>1. l \in Labels \ {"idle"}
    BY DEF Labels
  <2> QED
    BY <1>4, <1>5, <1>9, <2>1
<1>10. \A s, e, p : Modest(TokenAnswer(e, p), s)
  BY ModestAnswers
<1>11. \A s : Modest(Nothing, s) /\ Modest(Done, s) /\ Modest(Error, s)
               /\ Modest(Unauthenticated, s)
  BY ModestAnswers DEF Unauthenticated
<1>12. CASE CacheGet(c)
  BY <1>3, <1>8, <1>10, <1>12 DEF CacheGet, Storing
<1>13. CASE LoadAccess(c)
  BY <1>8, <1>13 DEF LoadAccess, Storing
<1>14. CASE LoadRefresh(c)
  <2>1. CASE /\ refresh # None /\ Goto(c, "loadMeta")
             /\ reg' = [reg EXCEPT ![c].refresh = refresh, ![c].minting = TRUE]
    <3>1. reg'[c].minting = TRUE
      BY <1>1, <2>1 DEF TypeOK, Registers
    <3>2. FailedPointAfter(c, "loadMeta")
      BY <1>1, <2>1, <3>1 DEF FailedPointAfter, FailedPoint, Storing
    <3> QED
      BY <1>9, <1>14, <2>1, <3>2 DEF LoadRefresh, Storing
  <2> QED
    BY <1>3, <1>11, <1>14, <2>1 DEF LoadRefresh, Storing
<1>15. CASE LoadMeta(c)
  <2>1. CASE metadata # None /\ Goto(c, "rotateMeta") /\ UNCHANGED reg
    <3>1. reg[c].minting /\ refresh # None
      BY <1>1, <1>15 DEF LoadMeta, FailedPoint
    <3>2. session # None
      BY <1>1, <1>15, <2>1, <3>1
      DEF LoadMeta, Leftover, LoggingIn, AppLoggingIn, Storing
    <3>3. FailedPointAfter(c, "rotateMeta")
      BY <1>1, <2>1, <3>1, <3>2 DEF FailedPointAfter, FailedPoint
    <3> QED
      BY <1>9, <1>15, <2>1, <3>3 DEF LoadMeta, Storing
  <2> QED
    BY <1>3, <1>11, <1>15, <2>1 DEF LoadMeta, Storing
<1>16. CASE RotateMeta(c)
  <2>1. reg'[c].minting = reg[c].minting
    BY <1>1, <1>16 DEF RotateMeta, TypeOK, Registers
  <2>2. reg[c].minting /\ session # None
    BY <1>1, <1>16 DEF RotateMeta, FailedPoint
  <2>3. FailedPointAfter(c, "post")
    BY <1>1, <2>1, <2>2 DEF FailedPointAfter, FailedPoint
  <2> QED
    BY <1>9, <1>16, <2>3 DEF RotateMeta, Storing
<1>17. CASE Post(c)
  <2>1. session # None /\ reg[c].minting
    BY <1>1, <1>17 DEF Post, FailedPoint
  <2>2. CASE Return(c, Error)
    BY <1>3, <1>11, <1>17, <2>2 DEF Post, Storing
  <2>3. CASE Goto(c, "cacheMinted")
    BY <1>8, <1>17, <2>3 DEF Post, Storing
  <2>4. CASE /\ reg' = [reg EXCEPT ![c].access = NewAccess(reg[c].refresh.owner),
                          ![c].refresh = NewRefresh(reg[c].refresh.owner,
                                                    reg[c].refresh.gen + 1)]
             /\ Goto(c, "putRefresh")
    <3>1. FailedPointAfter(c, "putRefresh")
      BY <1>1, <2>1 DEF FailedPointAfter, FailedPoint
    <3> QED
      BY <1>9, <1>17, <2>4, <3>1 DEF Post, Storing
  <2> QED
    BY <1>17, <2>2, <2>3, <2>4 DEF Post
<1>18. CASE PatCacheGet(c) \/ PatValidate(c)
  BY <1>3, <1>8, <1>10, <1>11, <1>18 DEF PatCacheGet, PatValidate, Storing
<1>19. CASE ListClear(c) \/ ListPurge(c) \/ PurgeGet(c) \/ PurgeDelete(c) \/ Clear(c)
  BY <1>3, <1>8, <1>11, <1>19 DEF ListClear, ListPurge, PurgeGet, PurgeDelete, Clear, Storing
<1>20. CASE PatStatus(c)
  <2>1. reg[c].pat \in Pats
    BY <1>20 DEF PatStatus, TypeOK, Defined, WithPat
  <2>2. Modest(StatusAnswer(TRUE, FALSE, reg[c].pat), session')
    BY <2>1, ModestAnswers
  <2> QED
    BY <1>3, <1>11, <1>20, <2>2 DEF PatStatus, Storing
<1>21. CASE HasRefresh(c)
  <2>1. reg'[c].found => refresh # None
    BY <1>1, <1>21 DEF HasRefresh, TypeOK, Registers, FailedPoint
  <2> QED
    BY <1>1, <1>9, <1>21, <2>1 DEF HasRefresh, Storing, FailedPointAfter, FailedPoint
<1>22. CASE HasAccess(c)
  <2>1. CASE Goto(c, "statusMeta") /\ UNCHANGED reg /\ (reg[c].found \/ access # None)
    <3>1. FailedPointAfter(c, "statusMeta")
      BY <1>1, <1>22, <2>1 DEF HasAccess, FailedPointAfter, FailedPoint, Storing
    <3> QED
      BY <1>9, <1>22, <2>1, <3>1 DEF HasAccess, Storing
  <2> QED
    BY <1>3, <1>11, <1>22, <2>1 DEF HasAccess, Storing
<1>23. CASE StatusMeta(c)
  <2>1. CASE metadata # None /\ LET expired == now > metadata.rexp IN
                                Return(c, StatusAnswer(~expired, expired, metadata.user))
    <3>1. session # None
      BY <1>1, <1>23, <2>1
      DEF StatusMeta, FailedPoint, Leftover, LoggingIn, AppLoggingIn, Storing
    <3>2. Modest(StatusAnswer(~(now > metadata.rexp), now > metadata.rexp, metadata.user),
                 session')
      BY <1>1, <3>1, ModestAnswers
    <3> QED
      BY <1>3, <1>23, <2>1, <3>2 DEF StatusMeta, Storing
  <2> QED
    BY <1>3, <1>11, <1>23, <2>1 DEF StatusMeta, Storing
<1>24. CASE CacheAccess(c) \/ CacheMinted(c) \/ PatCache(c)
  BY <1>3, <1>10, <1>24 DEF CacheAccess, CacheMinted, PatCache, Storing
<1>25. CASE AppCache(c)
  <2>1. FailedPointAfter(c, "appAccess") /\ "appAccess" \in Labels
    BY DEF FailedPointAfter, FailedPoint, Storing, Labels
  <2>2. LeftoverAfter(c, "appAccess")
    BY <1>1, LeftoverKept DEF AppLoggingIn
  <2>3. Enters(c, "appAccess")
    BY <1>5, <1>25 DEF AppCache
  <2> QED
    BY <2>1, <2>2, <2>3, FailedMove
<1>26. CASE PutCache(c)
  BY <1>3, <1>8, <1>11, <1>26 DEF PutCache, Storing
<1>27. CASE Crash(c)
  BY <1>3, <1>11, <1>27 DEF Crash
<1>28. \A i, s : Modest(ListAnswer(i), s)
  BY ModestAnswers
<1>29. CASE Listing(c)
  BY <1>3, <1>8, <1>28, <1>29
  DEF Listing, ListRefresh, ListKeys, ListEntry, ListAccess, ListDirect, Storing
<1> QED
  BY <1>12, <1>13, <1>14, <1>15, <1>16, <1>17, <1>18, <1>19, <1>20, <1>21, <1>22, <1>23,
     <1>24, <1>25, <1>26, <1>27, <1>29 DEF Spares, Reads

\* Steps that write credentials.
LEMMA FailedStore ==
    ASSUME TypeOK, NEW c \in Callers, FailedInv(c), faults <= 1, faults' <= 1,
           PutRefresh(c) \/ PutAccess(c) \/ PutMeta(c)
    PROVE  FailedInvAfter(c)
<1> USE DEF At
<1>1. /\ pc[c] \in {"putRefresh", "putAccess", "putMeta"} /\ pc[c] # "idle"
      /\ Leftover(pc[c], reg[c]) /\ FailedPoint(pc[c], reg[c]) /\ faults \in Nat
  BY BoundsAssumption DEF TypeOK, FailedInv, PutRefresh, PutAccess, PutMeta
<1>2. reg[c].minting => session # None
  BY <1>1 DEF FailedPoint, Storing
<1>3. reg[c].access.owner # None
  <2>1. reg[c].access \in AccessTokens
    BY <1>1, HeldTokens DEF WithAccess, Storing
  <2> QED
    BY <2>1, NoneAssumption DEF AccessTokens
<1>4. ASSUME NEW l \in {"putAccess", "putMeta", "putCache"}, Goto(c, l), UNCHANGED reg,
             Fault \/ Reliable,
             l = "putCache" => session' # None,
             l # "putCache" => UNCHANGED <<metadata, session>>
      PROVE  FailedInvAfter(c)
  <2>1. LeftoverAfter(c, l)
    <3>1. CASE l = "putCache"
      BY <1>4, <3>1 DEF LeftoverAfter, Leftover
    <3>2. CASE l # "putCache" /\ session = None
      <4>1. ~reg[c].minting
        BY <1>2, <3>2
      <4>2. LoggingIn(l, reg[c])'
        BY <1>4, <3>2, <4>1 DEF LoggingIn, Storing
      <4>3. metadata' # None => faults' = 1
        BY <1>1, <1>4, <3>2 DEF Leftover, Fault, Reliable
      <4> QED
        BY <4>2, <4>3 DEF LeftoverAfter, Leftover
    <3>3. CASE l # "putCache" /\ session # None
      BY <1>4, <3>3 DEF LeftoverAfter, Leftover
    <3> QED
      BY <3>1, <3>2, <3>3
  <2>2. FailedPointAfter(c, l) /\ l \in Labels /\ l # "idle"
    BY <1>2, <1>4 DEF FailedPointAfter, FailedPoint, Storing, Labels
  <2> QED
    BY <1>1, <1>4, <2>1, <2>2, FailedEnters, FailedMove
<1>5. ASSUME StoreFailed(c), UNCHANGED <<refresh, access, metadata, session>>
      PROVE  FailedInvAfter(c)
  <2>1. ASSUME NEW l PROVE LeftoverAfter(c, l)
    BY <1>5, LeftoverKept DEF StoreFailed
  <2>2. CASE Return(c, Error)
    BY <2>1, <2>2, FailedEnd, ModestAnswers
  <2>3. CASE Goto(c, "cacheMinted")
    <3>1. FailedPointAfter(c, "cacheMinted") /\ "cacheMinted" \in Labels
      BY DEF FailedPointAfter, FailedPoint, Storing, Labels
    <3> QED
      BY <1>1, <2>1, <2>3, <3>1, FailedEnters, FailedMove
  <2> QED
    BY <1>5, <2>2, <2>3 DEF StoreFailed
<1>6. CASE PutRefresh(c)
  BY <1>4, <1>5, <1>6 DEF PutRefresh
<1>7. CASE PutAccess(c)
  BY <1>4, <1>5, <1>7 DEF PutAccess
<1>8. CASE PutMeta(c)
  <2>1. CASE Goto(c, "putCache") /\ UNCHANGED reg /\ (Fault \/ Reliable)
             /\ session' = IF reg[c].minting THEN session ELSE reg[c].access.owner
    BY <1>2, <1>3, <1>4, <2>1
  <2> QED
    BY <1>5, <1>8, <2>1 DEF PutMeta
<1> QED
  BY <1>6, <1>7, <1>8

\* The two writes of an App login after its cached token.
LEMMA FailedAppLogin ==
    ASSUME TypeOK, NEW c \in Callers, FailedInv(c), faults <= 1, faults' <= 1,
           AppAccess(c) \/ AppMeta(c)
    PROVE  FailedInvAfter(c)
<1> USE DEF At
<1>1. /\ pc[c] \in {"appAccess", "appMeta"} /\ pc[c] # "idle"
      /\ Leftover(pc[c], reg[c]) /\ faults \in Nat
  BY BoundsAssumption DEF TypeOK, FailedInv, AppAccess, AppMeta
<1>2. ASSUME Return(c, Error), Fault, UNCHANGED <<refresh, access, metadata, session>>
      PROVE  FailedInvAfter(c)
  BY <1>2, LeftoverKept, FailedEnd, ModestAnswers
<1>3. CASE AppAccess(c)
  <2>1. CASE /\ Goto(c, "appMeta") /\ Reliable
             /\ UNCHANGED <<metadata, session>>
    <3>1. FailedPointAfter(c, "appMeta") /\ "appMeta" \in Labels
      BY DEF FailedPointAfter, FailedPoint, Storing, Labels
    <3>2. LeftoverAfter(c, "appMeta")
      BY <1>1, <2>1 DEF LeftoverAfter, Leftover, AppLoggingIn, Reliable
    <3> QED
      BY <1>1, <2>1, <3>1, <3>2, FailedEnters, FailedMove
  <2> QED
    BY <1>2, <1>3, <2>1 DEF AppAccess
<1>4. CASE AppMeta(c)
  <2>1. CASE Return(c, Done) /\ session' = App
    <3>1. LeftoverAfter(c, "idle")
      BY <2>1, OwnerFacts DEF LeftoverAfter, Leftover
    <3> QED
      BY <2>1, <3>1, FailedEnd, ModestAnswers
  <2> QED
    BY <1>2, <1>4, <2>1 DEF AppMeta
<1> QED
  BY <1>3, <1>4

\* The deletes of a logout: the second failure that would hide the first is one
\* too many.
LEMMA FailedLogout ==
    ASSUME TypeOK, NEW c \in Callers, FailedInv(c), faults <= 1, faults' <= 1,
           DelRefresh(c) \/ DelAccess(c) \/ DelMeta(c)
    PROVE  FailedInvAfter(c)
<1> USE DEF At
<1>1. /\ pc[c] \in {"delRefresh", "delAccess", "delMeta"} /\ pc[c] # "idle"
      /\ Leftover(pc[c], reg[c]) /\ FailedPoint(pc[c], reg[c]) /\ faults \in Nat
  BY BoundsAssumption DEF TypeOK, FailedInv, DelRefresh, DelAccess, DelMeta
<1>2. /\ ~LoggingIn(pc[c], reg[c]) /\ ~AppLoggingIn(pc[c])
  BY <1>1 DEF LoggingIn, AppLoggingIn, Storing
<1>3. ASSUME NEW l \in {"delAccess", "delMeta"}, Goto(c, l), FailedPointAfter(c, l),
             refresh' \in {None, refresh}, access' \in {None, access},
             UNCHANGED <<metadata, session>>, Fault \/ Reliable
      PROVE  FailedInvAfter(c)
  <2>1. LeftoverAfter(c, l)
    BY <1>1, <1>2, <1>3 DEF LeftoverAfter, Leftover, Fault, Reliable
  <2>2. l \in Labels /\ l # "idle"
    BY DEF Labels
  <2> QED
    BY <1>1, <1>3, <2>1, <2>2, FailedEnters, FailedMove
<1>4. CASE DelRefresh(c)
  <2>1. FailedPointAfter(c, "delAccess")
    BY <1>1, <1>4
    DEF DelRefresh, FailedPointAfter, FailedPoint, Storing, Fault, Reliable
  <2> QED
    BY <1>3, <1>4, <2>1 DEF DelRefresh
<1>5. CASE DelAccess(c)
  <2>1. FailedPointAfter(c, "delMeta")
    BY <1>1, <1>5
    DEF DelAccess, FailedPointAfter, FailedPoint, Storing, Fault, Reliable
  <2> QED
    BY <1>3, <1>5, <2>1 DEF DelAccess
<1>6. CASE DelMeta(c)
  <2>1. LeftoverAfter(c, "idle")
    BY <1>1, <1>6
    DEF DelMeta, LeftoverAfter, Leftover, FailedPoint, Storing, Fault, Reliable
  <2> QED
    BY <1>6, <2>1, FailedEnd, ModestAnswers DEF DelMeta
<1> QED
  BY <1>4, <1>5, <1>6

\* The steps together.
LEMMA FailedStep ==
    ASSUME TypeOK, NEW c \in Callers, FailedInv(c), faults <= 1, faults' <= 1,
           Call(c) \/ Step(c) \/ Crash(c)
    PROVE  FailedInvAfter(c)
<1>1. CASE Spares(c)
  BY <1>1, FailedSpares
<1>2. CASE PutRefresh(c) \/ PutAccess(c) \/ PutMeta(c)
  BY <1>2, FailedStore
<1>3. CASE AppAccess(c) \/ AppMeta(c)
  BY <1>3, FailedAppLogin
<1>4. CASE DelRefresh(c) \/ DelAccess(c) \/ DelMeta(c)
  BY <1>4, FailedLogout
<1> QED
  BY <1>1, <1>2, <1>3, <1>4, FailedCall DEF Step, Reads, Listing, Spares

\* The inductive invariant: after one fault a logout may leave metadata or a
\* token behind but not both, and GetStatus reports a login only with both.
OneFailureInv == faults <= 1 => \A c \in Callers : FailedInv(c)

LEMMA OneFailureInit == Init => OneFailureInv
<1> SUFFICES ASSUME Init, NEW c \in Callers PROVE FailedInv(c)
  BY DEF OneFailureInv
<1>1. pc[c] = "idle" /\ reg[c] = Blank /\ out[c] = Nothing
  BY DEF Init
<1>2. session = None => metadata = None
  BY NoneAssumption DEF Init, Fresh, Legacy, Owners
<1> QED
  BY <1>1, <1>2, ModestAnswers DEF FailedInv, Leftover, FailedPoint, Storing

LEMMA OneFailureNext ==
    OneCaller /\ TypeOK /\ OneFailureInv /\ [Next]_vars => OneFailureInv'
<1> SUFFICES ASSUME OneCaller, TypeOK, OneFailureInv, [Next]_vars, faults' <= 1
             PROVE  \A c \in Callers : FailedInvAfter(c)
  BY DEF OneFailureInv, FailedInvAfter
<1>1. faults \in Nat
  BY BoundsAssumption DEF TypeOK
<1>2. CASE Tick \/ UNCHANGED vars
  <2>1. UNCHANGED <<refresh, access, metadata, session, pc, reg, out, faults>>
    BY <1>2 DEF Tick, vars, secrets
  <2> SUFFICES ASSUME NEW c \in Callers PROVE FailedInvAfter(c)
    OBVIOUS
  <2>2. FailedInv(c)
    BY <2>1 DEF OneFailureInv
  <2> QED
    BY <2>1, <2>2
    DEF FailedInvAfter, FailedInv, Leftover, FailedPoint, Modest, LoggingIn, AppLoggingIn
<1>3. ASSUME NEW c \in Callers, Call(c) \/ Step(c) \/ Crash(c)
      PROVE  \A d \in Callers : FailedInvAfter(d)
  <2>1. faults <= 1
    BY <1>1, <1>3, FaultsOf DEF Fault, Reliable
  <2>2. FailedInvAfter(c)
    BY <1>3, <2>1, FailedStep DEF OneFailureInv
  <2>3. \A d \in Callers : d = c
    BY DEF OneCaller
  <2> QED
    BY <2>2, <2>3
<1> QED
  BY <1>2, <1>3 DEF Next

\* Of calls that do not overlap, a logout in which one operation failed still
\* ends with GetStatus reporting nobody (logoutInternal).
THEOREM LoggedOutStatusCorrect ==
    ASSUME OneCaller
    PROVE  Spec => []LoggedOutStatus
<1>1. TypeOK /\ OneFailureInv /\ [Next]_vars => OneFailureInv'
  BY OneFailureNext
<1>2. OneFailureInv => LoggedOutStatus
  <2> SUFFICES ASSUME OneFailureInv, faults <= 1, NEW c \in Callers, out[c].kind = "status",
                      out[c].user \notin Pats, session = None
               PROVE  ~out[c].authenticated
    BY DEF LoggedOutStatus
  <2>1. pc[c] = "idle" => Modest(out[c], session)
    BY DEF OneFailureInv, FailedInv
  <2>2. pc[c] # "idle" => out[c] = Nothing
    BY DEF OneFailureInv, FailedInv
  <2> QED
    BY <2>1, <2>2 DEF Modest, Nothing
<1> QED
  BY <1>1, <1>2, OneFailureInit, TypeCorrect, PTL DEF Spec

=============================================================================
