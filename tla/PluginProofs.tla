---------------------------- MODULE PluginProofs ----------------------------
(***************************************************************************)
(* Theorems about Plugin, for any configurations, environments and number  *)
(* of logins: types, that no login runs without configuration or clients,  *)
(* what an invalid configuration in use is due to, how a login ends, and   *)
(* which flows are offered.                                                *)
(***************************************************************************)
EXTENDS Plugin, TLAPS

(***************************************************************************)
(* Flows. These are facts about any configuration and environment.         *)
(***************************************************************************)
LEMMA AcceptedIsOffered ==
    ASSUME NEW cfg, NEW e, ValidateAppConfig(cfg, e)
    PROVE  "github_app" \in DetectAvailableFlows(cfg, e)
<1>1. GetAppID(cfg, e) /\ GetPrivateKey(cfg, e)
  BY DEF ValidateAppConfig
<1>2. \E i \in 1 .. 5 : KeySources[i] \in cfg.has \cup e.has
  BY <1>1 DEF GetPrivateKey
<1> QED BY <1>1, <1>2 DEF DetectAvailableFlows

LEMMA LoginFlowType ==
    ASSUME NEW f, NEW scoped, NEW cfg, NEW e
    PROVE  LoginFlow(f, scoped, cfg, e) \in Logins
  BY DEF LoginFlow, Logins

LEMMA DefaultFacts ==
    /\ DefaultConfig \in Configs
    /\ DefaultConfig # None
    /\ Validate(DefaultConfig)
<1>1. DefaultConfig \in Configs
  BY DefaultAssumption DEF DefaultConfig, Configs
<1>2. Validate(DefaultConfig)
  BY DefaultAssumption, AbsentAssumption DEF DefaultConfig, Validate
<1> QED BY <1>1, <1>2, NothingAssumption

LEMMA IssuerType == \A cfg \in Configs : Issuer(cfg) \in Issuers /\ Issuer(cfg) # None
<1>1. \A cfg \in Configs : Issuer(cfg) \in Issuers
  BY DEF Configs, Issuer, Issuers
<1> QED BY <1>1, NothingAssumption

(***************************************************************************)
(* Types. The state of the logins and that of the setup are kept apart.    *)
(***************************************************************************)
LoginTypes ==
    /\ pc \in [Callers -> Labels]
    /\ flow \in [Callers -> Logins]
    /\ asked \in [Callers -> Issuers \cup {None}]
    /\ \A c \in Callers : pc[c] \in {"wait", "exchange"} => asked[c] # None
    /\ answer \in [Callers -> {"none", "code", "error"}]
    /\ fired \in [Callers -> BOOLEAN]
    /\ cancelled \in [Callers -> BOOLEAN]
    /\ out \in [Callers -> Answers]

SetupTypes ==
    /\ config \in Configs \cup {None}
    /\ equipped \in BOOLEAN
    /\ mode \in Modes /\ next \in Modes
    /\ setup \in {"idle", "parse", "validate", "assign"}
    /\ raw \in [config : Configs, parses : BOOLEAN] \cup {None}
    /\ setup = "parse" => raw # None
    /\ setup = "validate" => config # None
    /\ failed \in BOOLEAN
    /\ setups \in 0 .. MaxSetups

OtherTypes ==
    /\ env \in Environments
    /\ code \in [Callers -> {"none", "given", "used"}]
    /\ faults \in 0 .. MaxFaults

LEMMA TypeParts == TypeOK <=> LoginTypes /\ SetupTypes /\ OtherTypes
  BY DEF TypeOK, LoginTypes, SetupTypes, OtherTypes

LEMMA TypePartsNext == LoginTypes' /\ SetupTypes' /\ OtherTypes' => TypeOK'
  BY DEF TypeOK, LoginTypes, SetupTypes, OtherTypes

LEMMA SetupKept == SetupTypes /\ UNCHANGED setupVars => SetupTypes'
  BY DEF SetupTypes, setupVars

LEMMA LoginsKept == LoginTypes /\ UNCHANGED loginVars => LoginTypes'
  BY DEF LoginTypes, loginVars

LEMMA ReturnType ==
    ASSUME LoginTypes, OtherTypes, NEW c \in Callers, NEW a \in Answers, Return(c, a)
    PROVE  LoginTypes'
<1> USE DEF LoginTypes, OtherTypes, Return
<1>1. /\ pc' \in [Callers -> Labels]
      /\ out' \in [Callers -> Answers]
      /\ answer' \in [Callers -> {"none", "code", "error"}]
  BY DEF Labels
<1>2. flow' \in [Callers -> Logins] /\ asked' \in [Callers -> Issuers \cup {None}]
  BY DEF Logins
<1>3. fired' \in [Callers -> BOOLEAN] /\ cancelled' \in [Callers -> BOOLEAN]
  OBVIOUS
<1>4. \A d \in Callers : pc'[d] \in {"wait", "exchange"} => asked'[d] # None
  OBVIOUS
<1> QED BY <1>1, <1>2, <1>3, <1>4

\* A login that moves on has asked somebody, before or in this step.
LEMMA GotoType ==
    ASSUME LoginTypes, OtherTypes, NEW c \in Callers, NEW l \in Labels, Goto(c, l),
           NEW i \in Issuers \cup {None}, asked' = [asked EXCEPT ![c] = i],
           l \in {"wait", "exchange"} => i # None
    PROVE  LoginTypes'
<1> USE DEF LoginTypes, OtherTypes, Goto
<1>1. pc' \in [Callers -> Labels] /\ asked' \in [Callers -> Issuers \cup {None}]
  OBVIOUS
<1>2. \A d \in Callers : pc'[d] \in {"wait", "exchange"} => asked'[d] # None
  OBVIOUS
<1> QED BY <1>1, <1>2

LEMMA GotoSameType ==
    ASSUME LoginTypes, OtherTypes, NEW c \in Callers, NEW l \in Labels, Goto(c, l),
           UNCHANGED asked, pc[c] \in {"wait", "exchange"}
                            \/ l \notin {"wait", "exchange"}
    PROVE  LoginTypes'
<1>1. asked' = [asked EXCEPT ![c] = asked[c]] /\ asked[c] \in Issuers \cup {None}
  BY DEF LoginTypes
<1>2. l \in {"wait", "exchange"} => asked[c] # None
  BY DEF LoginTypes
<1> QED BY <1>1, <1>2, GotoType

LEMMA FaultType ==
    ASSUME OtherTypes, Reliable \/ Fault
    PROVE  faults' \in 0 .. MaxFaults
  BY CapAssumption DEF OtherTypes, Reliable, Fault

LEMMA RequestType ==
    ASSUME OtherTypes, NEW c \in Callers, Succeeds(c) \/ Fails(c) \/ Reliable
    PROVE  faults' \in 0 .. MaxFaults
  BY FaultType DEF Succeeds, Fails

LEMMA CodeType ==
    ASSUME OtherTypes, NEW c \in Callers, NEW k \in {"none", "given", "used"},
           code' = [code EXCEPT ![c] = k]
    PROVE  code' \in [Callers -> {"none", "given", "used"}]
  BY DEF OtherTypes

LEMMA AnswersFacts ==
    /\ "none" \in Answers /\ "refused" \in Answers /\ "ok" \in Answers
    /\ "error" \in Answers /\ "timeout" \in Answers /\ "cancelled" \in Answers
  BY DEF Answers

LEMMA LabelsFacts ==
    /\ "pat" \in Labels /\ "authorize" \in Labels /\ "wait" \in Labels
    /\ "exchange" \in Labels /\ "check" \in Labels /\ "mint" \in Labels
    /\ "store" \in Labels /\ "idle" \in Labels
  BY DEF Labels

LEMMA TypeInit == Init => TypeOK
<1> SUFFICES ASSUME Init PROVE TypeOK OBVIOUS
<1>1. LoginTypes
  BY DEF Init, Fresh, LoginTypes, Labels, Logins, Answers
<1>2. SetupTypes
  <2>1. mode \in Modes /\ next \in Modes
    BY DEF Init, Fresh, Modes
  <2>2. setups \in 0 .. MaxSetups
    BY CapAssumption DEF Init
  <2> QED BY <2>1, <2>2 DEF Init, Fresh, SetupTypes
<1>3. OtherTypes
  BY CapAssumption, SetupAssumption DEF Init, Fresh, OtherTypes
<1> QED BY <1>1, <1>2, <1>3, TypeParts

\* A process that starts anew.
LEMMA TypeAnew ==
    ASSUME TypeOK, Anew, Reliable \/ Fault
    PROVE  TypeOK'
<1>0. SetupTypes /\ OtherTypes
  BY TypeParts
<1>1. LoginTypes'
  BY DEF Anew, LoginTypes, Labels, Logins, Answers
<1>2. SetupTypes'
  BY <1>0 DEF Anew, SetupTypes, Modes
<1>3. OtherTypes'
  BY <1>0, FaultType DEF Anew, OtherTypes
<1> QED BY <1>1, <1>2, <1>3, TypePartsNext

LEMMA TypeSetup ==
    ASSUME TypeOK, Setup
    PROVE  TypeOK'
<1>0. LoginTypes /\ SetupTypes /\ OtherTypes
  BY TypeParts
<1>1. ASSUME NEW s \in Settings, Configure(s) PROVE TypeOK'
  <2>1. config' \in Configs
    BY <1>1, DefaultFacts DEF Configure
  <2>2. s \in [config : Configs, parses : BOOLEAN] /\ s # None
    BY SetupAssumption, NothingAssumption
  <2>3. setups' \in 0 .. MaxSetups
    BY <1>0, <1>1, CapAssumption DEF Configure, SetupTypes
  <2>4. SetupTypes'
    BY <1>0, <1>1, <2>1, <2>2, <2>3 DEF Configure, SetupTypes
  <2>5. OtherTypes'
    BY <1>0, <1>1, <2>1 DEF Configure, OtherTypes, loginVars
  <2> QED BY <1>0, <1>1, <2>4, <2>5, LoginsKept, TypePartsNext DEF Configure
<1>2. ASSUME Parse PROVE TypeOK'
  <2>1. raw \in [config : Configs, parses : BOOLEAN]
    BY <1>0, <1>2 DEF Parse, SetupTypes
  <2>2. raw.config \in Configs /\ raw.parses \in BOOLEAN
    BY <2>1
  <2>3. config' \in Configs /\ config' # None
    BY <1>2, <2>2, NothingAssumption DEF Parse
  <2>4. setup' \in {"validate", "idle"} /\ failed' \in BOOLEAN /\ raw' = None
    BY <1>2, <2>2 DEF Parse
  <2>5. SetupTypes'
    BY <1>0, <1>2, <2>3, <2>4 DEF Parse, SetupTypes
  <2>6. OtherTypes'
    BY <1>0, <1>2, <2>3 DEF Parse, OtherTypes, loginVars
  <2> QED BY <1>0, <1>2, <2>5, <2>6, LoginsKept, TypePartsNext DEF Parse
<1>3. ASSUME ValidateSettings PROVE TypeOK'
  <2>1. SetupTypes'
    BY <1>0, <1>3 DEF ValidateSettings, SetupTypes, Modes
  <2>2. OtherTypes'
    BY <1>0, <1>3 DEF ValidateSettings, OtherTypes, loginVars
  <2> QED BY <1>0, <1>3, <2>1, <2>2, LoginsKept, TypePartsNext DEF ValidateSettings
<1>4. ASSUME Assign PROVE TypeOK'
  <2>1. SetupTypes'
    BY <1>0, <1>4 DEF Assign, SetupTypes
  <2>2. OtherTypes'
    BY <1>0, <1>4 DEF Assign, OtherTypes, loginVars
  <2> QED BY <1>0, <1>4, <2>1, <2>2, LoginsKept, TypePartsNext DEF Assign
<1>5. ASSUME NEW sc \in ServerSettings, Activate(sc) PROVE TypeOK'
  <2>1. setups' \in 0 .. MaxSetups
    BY <1>0, <1>5, CapAssumption DEF Activate, SetupTypes
  <2>2. SetupTypes'
    BY <1>0, <1>5, <2>1 DEF Activate, SetupTypes, Modes
  <2>3. OtherTypes'
    BY <1>0, <1>5 DEF Activate, OtherTypes, loginVars
  <2> QED BY <1>0, <1>5, <2>2, <2>3, LoginsKept, TypePartsNext DEF Activate
<1> QED BY <1>1, <1>2, <1>3, <1>4, <1>5 DEF Setup

\* A step of a login that ends it, or moves it on.
LEMMA TypeReturn ==
    ASSUME TypeOK, NEW c \in Callers, NEW a \in Answers, Return(c, a),
           env' = env, UNCHANGED setupVars, faults' \in 0 .. MaxFaults,
           code' \in [Callers -> {"none", "given", "used"}]
    PROVE  TypeOK'
<1>1. LoginTypes /\ SetupTypes /\ OtherTypes
  BY TypeParts
<1>2. LoginTypes'
  BY <1>1, ReturnType
<1>3. OtherTypes'
  BY <1>1, <1>2 DEF OtherTypes
<1> QED BY <1>1, <1>2, <1>3, SetupKept, TypePartsNext

LEMMA TypeGoto ==
    ASSUME TypeOK, NEW c \in Callers, NEW l \in Labels, Goto(c, l),
           \/ asked' = [asked EXCEPT ![c] = Issuer(config)] /\ config # None
           \/ /\ UNCHANGED asked
              /\ pc[c] \in {"wait", "exchange"}
                   \/ l \notin {"wait", "exchange"},
           env' = env, UNCHANGED setupVars, faults' \in 0 .. MaxFaults,
           code' \in [Callers -> {"none", "given", "used"}]
    PROVE  TypeOK'
<1>1. LoginTypes /\ SetupTypes /\ OtherTypes
  BY TypeParts
<1>2. LoginTypes'
  <2>1. CASE asked' = [asked EXCEPT ![c] = Issuer(config)] /\ config # None
    <3>1. Issuer(config) \in Issuers /\ Issuer(config) # None
      BY <1>1, <2>1, IssuerType DEF SetupTypes
    <3> QED BY <1>1, <2>1, <3>1, GotoType
  <2>2. CASE /\ UNCHANGED asked
             /\ pc[c] \in {"wait", "exchange"}
                  \/ l \notin {"wait", "exchange"}
    BY <1>1, <2>2, GotoSameType
  <2> QED BY <2>1, <2>2
<1>3. OtherTypes'
  BY <1>1, <1>2 DEF OtherTypes
<1>4. UNCHANGED setupVars
  OBVIOUS
<1> QED BY <1>1, <1>2, <1>3, <1>4, SetupKept, TypePartsNext

\* A login in progress finds a configuration and clients, because a mode that
\* lets it in is only written after both.
EquippedInv ==
    /\ "cli" \in {mode, next} => config # None /\ equipped
    /\ Equipped

LEMMA TypeStep ==
    ASSUME TypeOK, EquippedInv, NEW c \in Callers, Step(c)
    PROVE  TypeOK'
<1>0. /\ pc[c] # "idle" => config # None
      /\ code \in [Callers -> {"none", "given", "used"}]
      /\ faults \in 0 .. MaxFaults
      /\ OtherTypes
  BY TypeParts DEF TypeOK, EquippedInv, Equipped
<1> USE AnswersFacts, LabelsFacts
<1>1. CASE PatLogin(c)
  <2>1. faults' \in 0 .. MaxFaults
    BY <1>0, <1>1, RequestType DEF PatLogin
  <2>2. PICK a \in Answers : Return(c, a)
    BY <1>1 DEF PatLogin
  <2> QED BY <1>0, <1>1, <2>1, <2>2, TypeReturn DEF PatLogin
<1>2. CASE Authorize(c)
  <2>1. faults' \in 0 .. MaxFaults
    BY <1>0, <1>2, RequestType DEF Authorize
  <2>2. CASE Return(c, "error")
    BY <1>0, <1>2, <2>1, <2>2, TypeReturn DEF Authorize
  <2>3. CASE Goto(c, "wait") /\ asked' = [asked EXCEPT ![c] = Issuer(config)]
    BY <1>0, <1>2, <2>1, <2>3, TypeGoto DEF Authorize, At
  <2> QED BY <1>2, <2>2, <2>3 DEF Authorize
<1>3. CASE Select(c)
  <2>1. faults' \in 0 .. MaxFaults
    BY <1>0, <1>3 DEF Select
  <2>2. CASE \E a \in Answers : Return(c, a)
    BY <1>0, <1>3, <2>1, <2>2, TypeReturn DEF Select
  <2>3. CASE Goto(c, "exchange") /\ UNCHANGED asked
    BY <1>0, <1>3, <2>1, <2>3, TypeGoto DEF Select, At
  <2> QED BY <1>3, <2>2, <2>3 DEF Select
<1>4. CASE Exchange(c)
  <2>1. faults' \in 0 .. MaxFaults
    BY <1>0, <1>4, RequestType DEF Exchange
  <2>2. code' \in [Callers -> {"none", "given", "used"}]
    <3>1. code' = [code EXCEPT ![c] = "used"] \/ UNCHANGED code
      BY <1>4 DEF Exchange
    <3> QED BY <1>0, <3>1, CodeType
  <2>3. CASE Return(c, "error")
    BY <1>0, <1>4, <2>1, <2>2, <2>3, TypeReturn DEF Exchange
  <2>4. CASE Goto(c, "store") /\ UNCHANGED asked
    BY <1>0, <1>4, <2>1, <2>2, <2>4, TypeGoto DEF Exchange, At
  <2> QED BY <1>4, <2>3, <2>4 DEF Exchange
<1>5. CASE AppCheck(c)
  <2>1. faults' \in 0 .. MaxFaults
    BY <1>0, <1>5, RequestType DEF AppCheck
  <2>2. CASE Return(c, "error")
    BY <1>0, <1>5, <2>1, <2>2, TypeReturn DEF AppCheck
  <2>3. CASE Goto(c, "mint") /\ UNCHANGED asked
    BY <1>0, <1>5, <2>1, <2>3, TypeGoto DEF AppCheck
  <2> QED BY <1>5, <2>2, <2>3 DEF AppCheck
<1>6. CASE AppMint(c)
  <2>1. faults' \in 0 .. MaxFaults
    BY <1>0, <1>6, RequestType DEF AppMint
  <2>2. code' \in [Callers -> {"none", "given", "used"}]
    <3>1. code' = [code EXCEPT ![c] = "used"] \/ UNCHANGED code
      BY <1>6 DEF AppMint
    <3> QED BY <1>0, <3>1, CodeType
  <2>3. CASE Return(c, "error")
    BY <1>0, <1>6, <2>1, <2>2, <2>3, TypeReturn DEF AppMint
  <2>4. CASE Goto(c, "store") /\ UNCHANGED asked
    BY <1>0, <1>6, <2>1, <2>2, <2>4, TypeGoto DEF AppMint, At
  <2> QED BY <1>6, <2>3, <2>4 DEF AppMint
<1>7. CASE Store(c)
  <2>1. faults' \in 0 .. MaxFaults
    BY <1>0, <1>7, RequestType DEF Store
  <2>2. PICK a \in Answers : Return(c, a)
    BY <1>7 DEF Store
  <2> QED BY <1>0, <1>7, <2>1, <2>2, TypeReturn DEF Store
<1> QED BY <1>1, <1>2, <1>3, <1>4, <1>5, <1>6, <1>7 DEF Step

\* What happens to a login from outside, and how one begins.
LEMMA TypeRefuse ==
    ASSUME TypeOK, NEW c \in Callers, Refuse(c)
    PROVE  TypeOK'
<1>1. code' \in [Callers -> {"none", "given", "used"}]
  BY TypeParts, CodeType DEF Refuse
<1>2. faults' \in 0 .. MaxFaults
  BY DEF Refuse, TypeOK
<1> QED BY <1>1, <1>2, AnswersFacts, TypeReturn DEF Refuse

LEMMA TypeLogin ==
    ASSUME TypeOK, NEW c \in Callers, NEW f \in Flows, NEW scoped \in BOOLEAN,
           Login(c, f, scoped)
    PROVE  TypeOK'
<1> DEFINE login == LoginFlow(f, scoped, config, env)
<1> HIDE DEF login
<1>1. login \in Logins
  BY LoginFlowType DEF login
<1>2. code' \in [Callers -> {"none", "given", "used"}]
  BY TypeParts, CodeType DEF Login
<1>3. faults' \in 0 .. MaxFaults
  BY DEF Login, TypeOK
<1>4. CASE login = "unsupported"
  <2>1. Return(c, "error")
    BY <1>4 DEF Login, login
  <2> QED BY <1>2, <1>3, <2>1, AnswersFacts, TypeReturn DEF Login
<1>5. CASE login # "unsupported"
  <2>1. /\ pc' = [pc EXCEPT ![c] = First(login)]
        /\ out' = [out EXCEPT ![c] = "none"]
        /\ flow' = [flow EXCEPT ![c] = login]
        /\ UNCHANGED <<asked, answer, fired, cancelled>>
    BY <1>5 DEF Login, login
  <2>2. First(login) \in Labels \ {"wait", "exchange"}
    BY DEF First, Labels
  <2>3. LoginTypes /\ SetupTypes /\ OtherTypes
    BY TypeParts
  <2>4. LoginTypes'
    BY <1>1, <2>1, <2>2, <2>3, AnswersFacts DEF LoginTypes
  <2>5. OtherTypes' /\ UNCHANGED setupVars
    BY <1>2, <1>3, <2>1, <2>3 DEF Login, OtherTypes
  <2> QED BY <2>3, <2>4, <2>5, SetupKept, TypePartsNext
<1> QED BY <1>4, <1>5

LEMMA TypeOutside ==
    ASSUME TypeOK, NEW c \in Callers,
           (\E a \in {"code", "error"} : Respond(c, a)) \/ TimerFires(c) \/ Cancel(c)
    PROVE  TypeOK'
<1>1. LoginTypes /\ SetupTypes /\ OtherTypes
  BY TypeParts
<1>2. LoginTypes'
  BY <1>1 DEF LoginTypes, Respond, TimerFires, Cancel
<1>3. OtherTypes'
  BY <1>1 DEF OtherTypes, Respond, TimerFires, Cancel
<1>4. UNCHANGED setupVars
  BY DEF Respond, TimerFires, Cancel
<1> QED BY <1>1, <1>2, <1>3, <1>4, SetupKept, TypePartsNext

LEMMA TypeNext == TypeOK /\ EquippedInv /\ [Next]_vars => TypeOK'
<1> SUFFICES ASSUME TypeOK, EquippedInv, [Next]_vars PROVE TypeOK' OBVIOUS
<1>1. CASE UNCHANGED vars
  BY <1>1 DEF vars, setupVars, loginVars, TypeOK
<1>2. CASE Setup
  BY <1>2, TypeSetup
<1>3. CASE Restart \/ Torn
  BY <1>3, TypeAnew DEF Restart, Torn
<1>4. CASE \E c \in Callers : Step(c)
  BY <1>4, TypeStep
<1>5. CASE \E c \in Callers : Refuse(c)
  BY <1>5, TypeRefuse
<1>6. CASE \E c \in Callers, f \in Flows, scoped \in BOOLEAN : Login(c, f, scoped)
  BY <1>6, TypeLogin
<1>7. CASE \E c \in Callers : (\E a \in {"code", "error"} : Respond(c, a))
                               \/ TimerFires(c) \/ Cancel(c)
  BY <1>7, TypeOutside
<1> QED BY <1>1, <1>2, <1>3, <1>4, <1>5, <1>6, <1>7 DEF Next

(***************************************************************************)
(* Configuration and clients.                                              *)
(***************************************************************************)

\* Only a login that begins, in the CLI mode, goes from idle to work.
LEMMA BeginsInCli ==
    ASSUME TypeOK, [Next]_vars, NEW c \in Callers, pc[c] = "idle", pc'[c] # "idle"
    PROVE  "cli" \in {mode, next} /\ UNCHANGED <<config, equipped>>
<1>1. pc \in [Callers -> Labels]
  BY DEF TypeOK
<1>2. ASSUME NEW d \in Callers, Step(d) \/ Refuse(d)
                 \/ (\E a \in {"code", "error"} : Respond(d, a))
                 \/ TimerFires(d) \/ Cancel(d)
      PROVE FALSE
  <2>1. CASE Step(d)
    <3>1. pc[d] # "idle"
      BY <2>1 DEF Step, PatLogin, Authorize, Select, Exchange, AppCheck, AppMint,
                  Store, At
    <3>2. \A e \in Callers \ {d} : pc'[e] = pc[e]
      BY <1>1, <2>1 DEF Step, PatLogin, Authorize, Select, Exchange, AppCheck,
                        AppMint, Store, Return, Goto
    <3> QED BY <3>1, <3>2
  <2>2. CASE Refuse(d)
    BY <1>1, <2>2 DEF Refuse, Return
  <2>3. CASE (\E a \in {"code", "error"} : Respond(d, a)) \/ TimerFires(d) \/ Cancel(d)
    BY <2>3 DEF Respond, TimerFires, Cancel
  <2> QED BY <1>2, <2>1, <2>2, <2>3
<1>3. ASSUME UNCHANGED vars \/ Setup \/ Restart \/ Torn PROVE FALSE
  BY <1>3 DEF vars, loginVars, Setup, Configure, Activate, Parse, ValidateSettings,
              Assign, Restart, Torn, Anew
<1>4. PICK d \in Callers, f \in Flows, scoped \in BOOLEAN : Login(d, f, scoped)
  BY <1>2, <1>3 DEF Next
<1> QED BY <1>4 DEF Login, Sees, setupVars

\* A step belongs to the setup of the plugin or leaves it alone.
LEMMA SetupOrKept ==
    ASSUME [Next]_vars
    PROVE  Restart \/ Torn \/ Setup \/ UNCHANGED setupVars
<1>1. ASSUME NEW c \in Callers,
             Step(c) \/ Refuse(c) \/ TimerFires(c) \/ Cancel(c)
               \/ (\E a \in {"code", "error"} : Respond(c, a))
               \/ (\E f \in Flows, scoped \in BOOLEAN : Login(c, f, scoped))
      PROVE UNCHANGED setupVars
  BY <1>1 DEF Step, PatLogin, Authorize, Select, Exchange, AppCheck, AppMint, Store,
              Refuse, TimerFires, Cancel, Respond, Login
<1>2. UNCHANGED vars => UNCHANGED setupVars
  BY DEF vars
<1> QED BY <1>1, <1>2 DEF Next

LEMMA EquippedInit == Init => EquippedInv
  BY NothingAssumption DEF Init, Fresh, EquippedInv, Equipped

LEMMA EquippedNext == TypeOK /\ EquippedInv /\ [Next]_vars => EquippedInv'
<1> SUFFICES ASSUME TypeOK, EquippedInv, [Next]_vars PROVE EquippedInv' OBVIOUS
<1>0. pc \in [Callers -> Labels]
  BY DEF TypeOK
<1>1. CASE Restart \/ Torn
  BY <1>1, NothingAssumption DEF Restart, Torn, Anew, EquippedInv, Equipped
<1>2. CASE Setup
  <2>1. UNCHANGED pc
    BY <1>2 DEF Setup, Configure, Activate, Parse, ValidateSettings, Assign, loginVars
  <2>2. CASE \E s \in Settings : Configure(s)
    BY <2>1, <2>2, DefaultFacts DEF Configure, EquippedInv, Equipped
  <2>3. CASE Parse
    <3>1. raw \in [config : Configs, parses : BOOLEAN]
      BY <2>3 DEF Parse, TypeOK
    <3>2. raw.config # None
      BY <3>1, NothingAssumption
    <3> QED BY <2>1, <2>3, <3>2 DEF Parse, EquippedInv, Equipped
  <2>4. CASE ValidateSettings
    BY <2>1, <2>4 DEF ValidateSettings, EquippedInv, Equipped, TypeOK
  <2>5. CASE Assign
    BY <2>1, <2>5 DEF Assign, EquippedInv, Equipped
  <2>6. CASE \E sc \in ServerSettings : Activate(sc)
    BY <2>1, <2>6 DEF Activate, EquippedInv, Equipped
  <2> QED BY <1>2, <2>2, <2>3, <2>4, <2>5, <2>6 DEF Setup
<1>3. CASE UNCHANGED setupVars
  <2>1. UNCHANGED <<config, equipped, mode, next>>
    BY <1>3 DEF setupVars
  <2>2. ASSUME NEW c \in Callers, pc'[c] # "idle" PROVE config # None /\ equipped
    BY <2>2, BeginsInCli DEF EquippedInv, Equipped
  <2> QED BY <2>1, <2>2 DEF EquippedInv, Equipped
<1> QED BY <1>1, <1>2, <1>3, SetupOrKept

\* Decoding may leave anything behind; it is validated next, or has failed.
LEMMA SoundInit == Init => ConfigSound
  BY DEF Init, Fresh, ConfigSound

LEMMA SoundNext == TypeOK /\ ConfigSound /\ [Next]_vars => ConfigSound'
<1> SUFFICES ASSUME TypeOK, ConfigSound, [Next]_vars PROVE ConfigSound' OBVIOUS
<1>1. CASE Restart \/ Torn
  BY <1>1 DEF Restart, Torn, Anew, ConfigSound
<1>2. CASE Setup
  <2>1. CASE \E s \in Settings : Configure(s)
    BY <2>1, DefaultFacts DEF Configure, ConfigSound
  <2>2. CASE Parse
    BY <2>2 DEF Parse, ConfigSound
  <2>3. CASE ValidateSettings
    BY <2>3 DEF ValidateSettings, ConfigSound
  <2>4. CASE Assign
    BY <2>4 DEF Assign, ConfigSound
  <2>5. CASE \E sc \in ServerSettings : Activate(sc)
    BY <2>5 DEF Activate, ConfigSound
  <2> QED BY <1>2, <2>1, <2>2, <2>3, <2>4, <2>5 DEF Setup
<1>3. CASE UNCHANGED setupVars
  BY <1>3 DEF setupVars, ConfigSound
<1> QED BY <1>1, <1>2, <1>3, SetupOrKept

(***************************************************************************)
(* How a login ends. A redeemed code is in the hands of a login that is    *)
(* about to store what it got for it.                                      *)
(***************************************************************************)
RedeemedInv ==
    \A c \in Callers : code[c] = "used" /\ pc[c] # "idle" => pc[c] = "store"

LEMMA RedeemedInit == Init => RedeemedInv
  BY DEF Init, Fresh, RedeemedInv

LEMMA RedeemedStep ==
    ASSUME TypeOK, RedeemedInv, NEW c \in Callers, Step(c)
    PROVE  RedeemedInv'
<1>1. \A d \in Callers \ {c} : pc'[d] = pc[d] /\ code'[d] = code[d]
  BY DEF Step, PatLogin, Authorize, Select, Exchange, AppCheck, AppMint, Store,
         Return, Goto, TypeOK
<1>2. code'[c] = "used" /\ pc'[c] # "idle" => pc'[c] = "store"
  BY DEF Step, PatLogin, Authorize, Select, Exchange, AppCheck, AppMint, Store,
         Return, Goto, At, TypeOK, RedeemedInv
<1> QED BY <1>1, <1>2 DEF RedeemedInv

LEMMA RedeemedNext == TypeOK /\ RedeemedInv /\ [Next]_vars => RedeemedInv'
<1> SUFFICES ASSUME TypeOK, RedeemedInv, [Next]_vars PROVE RedeemedInv' OBVIOUS
<1>1. CASE Restart \/ Torn
  BY <1>1 DEF Restart, Torn, Anew, RedeemedInv
<1>2. CASE Setup \/ UNCHANGED vars
  <2>1. UNCHANGED <<pc, code>>
    BY <1>2 DEF Setup, Configure, Activate, Parse, ValidateSettings, Assign, vars, loginVars
  <2> QED BY <2>1 DEF RedeemedInv
<1>3. CASE \E c \in Callers : Step(c)
  BY <1>3, RedeemedStep
<1>4. ASSUME NEW c \in Callers,
             Refuse(c) \/ \E f \in Flows, scoped \in BOOLEAN : Login(c, f, scoped)
      PROVE  RedeemedInv'
  <2>1. code' = [code EXCEPT ![c] = "none"]
    BY <1>4 DEF Refuse, Login
  <2>2. \A d \in Callers \ {c} : pc'[d] = pc[d]
    BY <1>4 DEF Refuse, Login, Return, TypeOK
  <2> QED BY <2>1, <2>2 DEF RedeemedInv, TypeOK
<1>5. CASE \E c \in Callers : (\E a \in {"code", "error"} : Respond(c, a))
                               \/ TimerFires(c) \/ Cancel(c)
  BY <1>5 DEF Respond, TimerFires, Cancel, At, RedeemedInv, TypeOK
<1> QED BY <1>1, <1>2, <1>3, <1>4, <1>5 DEF Next

\* A step that ends the login of c, and what it answers.
Ending(c) ==
    /\ out'[c] \in {"timeout", "cancelled"} => code'[c] # "used"
    /\ code'[c] = "used" => out'[c] = "ok" \/ faults' > 0 \/ Ended(c)

LEMMA RequestFailed ==
    ASSUME TypeOK, NEW c \in Callers, Fails(c)
    PROVE  faults' > 0 \/ Ended(c)
  BY CapAssumption DEF Fails, Fault, TypeOK

LEMMA EndingStep ==
    ASSUME TypeOK, RedeemedInv, NEW c \in Callers, Step(c), pc'[c] = "idle"
    PROVE  Ending(c)
<1>0. pc \in [Callers -> Labels] /\ out \in [Callers -> Answers]
      /\ code \in [Callers -> {"none", "given", "used"}]
  BY DEF TypeOK
<1>1. CASE PatLogin(c) \/ Select(c) \/ AppCheck(c) \/ Authorize(c)
  <2>1. code[c] # "used" /\ code' = code
    BY <1>1 DEF PatLogin, Select, AppCheck, Authorize, At, RedeemedInv
  <2> QED BY <2>1 DEF Ending
<1>2. CASE AppMint(c)
  <2>1. code[c] # "used" /\ code' = code
    BY <1>0, <1>2 DEF AppMint, Goto, At, RedeemedInv
  <2> QED BY <2>1 DEF Ending
<1>3. CASE Exchange(c)
  <2>1. code[c] # "used" /\ Return(c, "error")
    BY <1>0, <1>3 DEF Exchange, Goto, At, RedeemedInv
  <2>2. out'[c] = "error"
    BY <1>0, <2>1 DEF Return
  <2>3. code' = code \/ Fails(c)
    BY <1>0, <1>3 DEF Exchange, Goto
  <2> QED BY <2>1, <2>2, <2>3, RequestFailed DEF Ending
<1>4. CASE Store(c)
  <2>1. out'[c] = "ok" \/ (out'[c] = "error" /\ Fails(c))
    BY <1>0, <1>4 DEF Store, Return
  <2> QED BY <2>1, RequestFailed DEF Ending
<1> QED BY <1>1, <1>2, <1>3, <1>4 DEF Step

LEMMA EndingNext ==
    ASSUME TypeOK, RedeemedInv, [Next]_vars, NEW c \in Callers,
           pc[c] # "idle", pc'[c] = "idle"
    PROVE  Ending(c)
<1>0. pc \in [Callers -> Labels]
  BY DEF TypeOK
<1>1. CASE Restart \/ Torn
  BY <1>1 DEF Restart, Torn, Anew, Ending
<1>2. CASE Step(c)
  BY <1>2, EndingStep
<1>3. ASSUME NEW d \in Callers, d # c \/ ~Step(c),
             \/ Step(d) \/ Refuse(d) \/ TimerFires(d) \/ Cancel(d)
             \/ \E a \in {"code", "error"} : Respond(d, a)
             \/ \E f \in Flows, scoped \in BOOLEAN : Login(d, f, scoped)
      PROVE  FALSE
  <2>1. CASE d # c
    BY <1>0, <1>3, <2>1 DEF Step, PatLogin, Authorize, Select, Exchange, AppCheck,
         AppMint, Store, Refuse, TimerFires, Cancel, Respond, Login, Return, Goto
  <2>2. CASE d = c /\ ~Step(c)
    BY <1>0, <1>3, <2>2 DEF Refuse, TimerFires, Cancel, Respond, Login, At
  <2> QED BY <1>3, <2>1, <2>2
<1>4. CASE Setup \/ UNCHANGED vars
  BY <1>4 DEF Setup, Configure, Activate, Parse, ValidateSettings, Assign, vars, loginVars
<1> QED BY <1>1, <1>2, <1>3, <1>4 DEF Next

(***************************************************************************)
(* The theorems.                                                           *)
(***************************************************************************)
Inv == TypeOK /\ EquippedInv /\ ConfigSound /\ RedeemedInv

LEMMA InvCorrect == Spec => []Inv
<1>1. Init => Inv
  BY TypeInit, EquippedInit, SoundInit, RedeemedInit DEF Inv
<1>2. Inv /\ [Next]_vars => Inv'
  BY TypeNext, EquippedNext, SoundNext, RedeemedNext DEF Inv
<1> QED BY <1>1, <1>2, PTL DEF Spec

\* Every variable has its type, and a login that waits or exchanges a code
\* has asked somebody for it (authCodeLogin, deviceCodeLogin).
THEOREM TypeCorrect == Spec => []TypeOK
<1>1. Inv => TypeOK
  BY DEF Inv
<1> QED BY <1>1, InvCorrect, PTL

\* A login never runs without a configuration or without clients: neither a
\* failed setup nor one that runs beside it takes them away (activeMode,
\* ConfigureAuthHandler).
THEOREM EquippedCorrect == Spec => []Equipped
<1>1. Inv => Equipped
  BY DEF Inv, EquippedInv
<1> QED BY <1>1, InvCorrect, PTL

\* An invalid configuration is in use only while it is being validated or after
\* ConfigureAuthHandler has failed.
THEOREM ConfigSoundCorrect == Spec => []ConfigSound
<1>1. Inv => ConfigSound
  BY DEF Inv
<1> QED BY <1>1, InvCorrect, PTL

\* A login that timed out or was cancelled has not redeemed its code, and one
\* that did ends in credentials or was interrupted (authCodeLogin).
THEOREM OutcomeCorrect == Spec => OutcomeExplained
<1>1. Inv /\ [Next]_vars =>
        [\A c \in Callers : pc[c] # "idle" /\ pc'[c] = "idle" =>
           /\ out'[c] \in {"timeout", "cancelled"} => code'[c] # "used"
           /\ code'[c] = "used" => out'[c] = "ok" \/ faults' > 0 \/ Ended(c)]_vars
  BY EndingNext DEF Inv, Ending
<1> QED BY <1>1, InvCorrect, PTL DEF Spec, OutcomeExplained

\* An App login that passes the check of its configuration was offered
\* (DetectAvailableFlows, ValidateAppConfig).
THEOREM AcceptedOfferedCorrect == Spec => []AcceptedOffered
<1>1. AcceptedOffered
  BY AcceptedIsOffered DEF AcceptedOffered
<1> QED BY <1>1, PTL
=============================================================================
