------------------------------- MODULE Plugin -------------------------------
(***************************************************************************)
(* The plugin as one process: ConfigureAuthHandler and ActivateServerMode, *)
(* which replace its configuration and its mode without a lock, and the    *)
(* logins that read both while they run.  A login reads p.config anew for  *)
(* each request to GitHub.                                                 *)
(*                                                                         *)
(* The authorization code flow is complete: browser, callback, timer,      *)
(* cancellation, exchange.  Of the device code flow, which DeviceFlow has  *)
(* in detail, the requests and their order are kept; what it stores, and   *)
(* the calls other than a login, are in CliMode and ServerMode.            *)
(***************************************************************************)
EXTENDS Config

CONSTANTS
    Callers,         \* logins that can be in progress at a time
    Settings,        \* what ConfigureAuthHandler is called with
    ServerSettings,  \* what ActivateServerMode is called with
    Around,          \* the environments a process is started in
    MaxSetups,       \* bound: calls of the two
    MaxFaults        \* bound: failed requests and restarts

ASSUME SetupAssumption ==
    /\ Settings \subseteq [config : Configs, parses : BOOLEAN]
    /\ ServerSettings \subseteq ServerConfigs
    /\ Around \subseteq Environments
ASSUME CapAssumption == MaxSetups \in Nat /\ MaxFaults \in Nat

Modes   == {None, "cli", "server"}
Labels  == {"idle", "pat", "authorize", "wait", "exchange", "check", "mint", "store"}
Answers == {"none", "refused", "ok", "error", "timeout", "cancelled"}

ASSUME NothingAssumption ==
    /\ None \notin {"cli", "server"}
    /\ None \notin Configs /\ None \notin [config : Configs, parses : BOOLEAN]
    /\ None \notin Issuers

VARIABLES
    env,        \* the environment of the process
    config,     \* p.config
    equipped,   \* whether p.clock, p.httpClient and p.openBrowser are set
    mode,       \* p.mode
    next,       \* what is being written to p.mode; p.mode if nothing is
    setup,      \* the point that ConfigureAuthHandler or ActivateServerMode is at
    raw,        \* the settings of ConfigureAuthHandler
    failed,     \* history: the last ConfigureAuthHandler failed
    pc,         \* the point each login is at
    flow,       \* the function that performs it
    asked,      \* whom it asked for an authorization
    answer,     \* what came back: the callback, or the user's decision
    fired,      \* the timer, or the deadline of the context, has gone off
    cancelled,  \* the context was cancelled
    code,       \* GitHub: the code of the login
    out,        \* the answer of the last login of a caller
    setups, faults

setupVars == <<config, equipped, mode, next, setup, raw, failed, setups>>
loginVars == <<pc, flow, asked, answer, fired, cancelled, code, out>>
vars == <<env, setupVars, loginVars, faults>>

Fresh ==
    /\ pc = [c \in Callers |-> "idle"]
    /\ flow = [c \in Callers |-> "unsupported"]
    /\ asked = [c \in Callers |-> None]
    /\ answer = [c \in Callers |-> "none"]
    /\ fired = [c \in Callers |-> FALSE]
    /\ cancelled = [c \in Callers |-> FALSE]
    /\ code = [c \in Callers |-> "none"]
    /\ out = [c \in Callers |-> "none"]
    /\ config = None
    /\ equipped = FALSE
    /\ mode = None
    /\ next = None
    /\ setup = "idle"
    /\ raw = None
    /\ failed = FALSE

Init == Fresh /\ env \in Around /\ setups = 0 /\ faults = 0

Reliable == UNCHANGED faults
Fault    == faults < MaxFaults /\ faults' = faults + 1

-----------------------------------------------------------------------------
(* ConfigureAuthHandler *)

Configure(s) ==
    /\ setup = "idle" /\ setups < MaxSetups
    /\ config' = DefaultConfig
    /\ raw' = s
    /\ setup' = "parse"
    /\ failed' = FALSE
    /\ setups' = setups + 1
    /\ UNCHANGED <<env, equipped, mode, next, loginVars, faults>>

\* The settings are decoded in place, and what was decoded stays after an error.
Parse ==
    /\ setup = "parse"
    /\ config' = raw.config
    /\ raw' = None
    /\ setup' = IF raw.parses THEN "validate" ELSE "idle"
    /\ failed' = ~raw.parses
    /\ UNCHANGED <<env, equipped, mode, next, setups, loginVars, faults>>

\* Defect: an invalid configuration is put into use.
ValidateLenient ==
    /\ setup = "validate"
    /\ equipped' = TRUE /\ next' = "cli" /\ setup' = "assign" /\ UNCHANGED failed
    /\ UNCHANGED <<env, config, mode, raw, setups, loginVars, faults>>

\* Defect: the mode is written and the clients are not.
ValidateUnequipped ==
    /\ setup = "validate" /\ Validate(config)
    /\ next' = "cli" /\ setup' = "assign" /\ UNCHANGED <<equipped, failed>>
    /\ UNCHANGED <<env, config, mode, raw, setups, loginVars, faults>>

\* The clients are set up and the mode is about to be written.
ValidateSettings ==
    /\ setup = "validate"
    /\ \/ /\ Validate(config)
          /\ equipped' = TRUE /\ next' = "cli" /\ setup' = "assign"
          /\ UNCHANGED failed
       \/ /\ ~Validate(config)
          /\ failed' = TRUE /\ setup' = "idle"
          /\ UNCHANGED <<equipped, next>>
    /\ UNCHANGED <<env, config, mode, raw, setups, loginVars, faults>>

\* p.mode is an interface, two words that are not written at once.
Assign ==
    /\ setup = "assign"
    /\ mode' = next /\ setup' = "idle"
    /\ UNCHANGED <<env, config, equipped, next, raw, failed, setups,
                   loginVars, faults>>

\* ActivateServerMode changes nothing but the mode, and that only at the end.
Activate(sc) ==
    /\ setup = "idle" /\ setups < MaxSetups
    /\ setups' = setups + 1
    /\ IF ServerValidate(sc) /\ BuildServerFlow(sc)
       THEN next' = "server" /\ setup' = "assign"
       ELSE UNCHANGED <<next, setup>>
    /\ UNCHANGED <<env, config, equipped, mode, raw, failed,
                   loginVars, faults>>

\* The process ends and another takes its place.
Anew ==
    /\ pc' = [c \in Callers |-> "idle"]
    /\ flow' = [c \in Callers |-> "unsupported"]
    /\ asked' = [c \in Callers |-> None]
    /\ answer' = [c \in Callers |-> "none"]
    /\ fired' = [c \in Callers |-> FALSE]
    /\ cancelled' = [c \in Callers |-> FALSE]
    /\ code' = [c \in Callers |-> "none"]
    /\ out' = [c \in Callers |-> "none"]
    /\ config' = None
    /\ equipped' = FALSE
    /\ mode' = None
    /\ next' = None
    /\ setup' = "idle"
    /\ raw' = None
    /\ failed' = FALSE
    /\ UNCHANGED <<env, setups>>

Restart == Anew /\ Fault

-----------------------------------------------------------------------------
(* Logins *)

At(c, label) == pc[c] = label

Goto(c, label) ==
    /\ pc' = [pc EXCEPT ![c] = label]
    /\ UNCHANGED <<out, flow, answer, fired, cancelled>>

Return(c, a) ==
    /\ pc' = [pc EXCEPT ![c] = "idle"]
    /\ out' = [out EXCEPT ![c] = a]
    /\ flow' = [flow EXCEPT ![c] = "unsupported"]
    /\ asked' = [asked EXCEPT ![c] = None]
    /\ answer' = [answer EXCEPT ![c] = "none"]
    /\ fired' = [fired EXCEPT ![c] = FALSE]
    /\ cancelled' = [cancelled EXCEPT ![c] = FALSE]

\* activeMode while p.mode is being written: the old or the new one.
Sees(m) == m \in {mode, next}

\* Two words of different modes: the method of one on the value of the other.
\* The process does not survive it.
Torn == mode # next /\ Anew /\ Reliable

\* Without a mode every call is refused, and logins are in server mode.
Refuse(c) ==
    /\ At(c, "idle")
    /\ \E m \in {None, "server"} : Sees(m)
    /\ Return(c, "refused")
    /\ code' = [code EXCEPT ![c] = "none"]
    /\ UNCHANGED <<env, setupVars, faults>>

First(login) ==
    IF login = "patLogin" THEN "pat"
    ELSE IF login = "appLogin" THEN "check" ELSE "authorize"

Login(c, f, scoped) ==
    LET login == LoginFlow(f, scoped, config, env) IN
    /\ At(c, "idle") /\ Sees("cli")
    /\ IF login = "unsupported" THEN Return(c, "error")
       ELSE /\ pc' = [pc EXCEPT ![c] = First(login)]
            /\ out' = [out EXCEPT ![c] = "none"]
            /\ flow' = [flow EXCEPT ![c] = login]
            /\ UNCHANGED <<asked, answer, fired, cancelled>>
    /\ code' = [code EXCEPT ![c] = "none"]
    /\ UNCHANGED <<env, setupVars, faults>>

\* The context of a request is done.  The timeout of a device login is a
\* deadline of its context, that of the code flow a timer of its own.
ByDevice(c) == flow[c] \in {"deviceCodeLogin", "interactiveDeviceCodeLogin"}
Ended(c)    == cancelled[c] \/ (ByDevice(c) /\ fired[c])

\* A request succeeds while its context lives; it fails with the context or
\* because of a fault.
Succeeds(c) == ~Ended(c) /\ Reliable
Fails(c)    == (Ended(c) /\ Reliable) \/ Fault

PatLogin(c) ==
    /\ At(c, "pat")
    /\ \/ HasPATCredentials(env) /\ Succeeds(c) /\ Return(c, "ok")
       \/ ~HasPATCredentials(env) /\ Reliable /\ Return(c, "error")
       \/ Fails(c) /\ Return(c, "error")
    /\ UNCHANGED <<env, setupVars, code>>

\* Defect: a login that could not ask for an authorization waits for one.
AuthorizeAnyway(c) ==
    /\ At(c, "authorize")
    /\ \/ asked' = [asked EXCEPT ![c] = Issuer(config)] /\ Succeeds(c)
       \/ Fails(c) /\ UNCHANGED asked
    /\ Goto(c, "wait")
    /\ UNCHANGED <<env, setupVars, code>>

\* Ask for a device code, or start the callback server, build the URL and open
\* the browser, whose failure is only logged.
Authorize(c) ==
    /\ At(c, "authorize")
    /\ \/ /\ Succeeds(c)
          /\ asked' = [asked EXCEPT ![c] = Issuer(config)]
          /\ Goto(c, "wait")
       \/ Fails(c) /\ Return(c, "error")
    /\ UNCHANGED <<env, setupVars, code>>

\* The user authorises the login or refuses it.
Respond(c, a) ==
    /\ At(c, "wait") /\ answer[c] = "none"
    /\ answer' = [answer EXCEPT ![c] = a]
    /\ code' = [code EXCEPT ![c] = IF a = "code" THEN "given" ELSE "none"]
    /\ UNCHANGED <<env, setupVars, pc, flow, asked, fired, cancelled, out,
                   faults>>

TimerFires(c) ==
    /\ ~fired[c]
    /\ At(c, "wait") \/ (ByDevice(c) /\ pc[c] # "idle")
    /\ fired' = [fired EXCEPT ![c] = TRUE]
    /\ UNCHANGED <<env, setupVars, pc, flow, asked, answer, cancelled, code, out,
                   faults>>

Cancel(c) ==
    /\ pc[c] # "idle" /\ ~cancelled[c]
    /\ cancelled' = [cancelled EXCEPT ![c] = TRUE]
    /\ UNCHANGED <<env, setupVars, pc, flow, asked, answer, fired, code, out,
                   faults>>

\* Defect: the login waits for the browser whatever the time.
SelectUntimed(c) ==
    /\ At(c, "wait")
    /\ \/ answer[c] = "code" /\ Goto(c, "exchange") /\ UNCHANGED asked
       \/ answer[c] = "error" /\ Return(c, "error")
       \/ ByDevice(c) /\ Ended(c) /\ Return(c, "timeout")
       \/ ~ByDevice(c) /\ cancelled[c] /\ Return(c, "cancelled")
    /\ UNCHANGED <<env, setupVars, code, faults>>

\* select takes any branch that is ready.  The device flow does not tell a
\* context that was cancelled from one whose time is up.
Select(c) ==
    /\ At(c, "wait")
    /\ \/ answer[c] = "code" /\ Goto(c, "exchange") /\ UNCHANGED asked
       \/ answer[c] = "error" /\ Return(c, "error")
       \/ ByDevice(c) /\ Ended(c) /\ Return(c, "timeout")
       \/ ~ByDevice(c) /\ fired[c] /\ Return(c, "timeout")
       \/ ~ByDevice(c) /\ cancelled[c] /\ Return(c, "cancelled")
    /\ UNCHANGED <<env, setupVars, code, faults>>

\* GitHub takes a code once, from the client it gave it to, and in the code
\* flow with the client's secret.
Accepts(c) ==
    /\ code[c] = "given"
    /\ Issuer(config) = asked[c]
    /\ flow[c] = "authCodeLogin" => "clientSecret" \in config.has

\* Defect: a time that ran out during the exchange ends the login.
ExchangeTimed(c) ==
    /\ At(c, "exchange")
    /\ code' = [code EXCEPT ![c] = "used"]
    /\ \/ Accepts(c) /\ ~fired[c] /\ Succeeds(c) /\ Goto(c, "store") /\ UNCHANGED asked
       \/ Accepts(c) /\ fired[c] /\ Reliable /\ Return(c, "timeout")
    /\ UNCHANGED <<env, setupVars>>

\* A request that fails may have reached GitHub; the retries of the HTTP client
\* are then refused.
Exchange(c) ==
    /\ At(c, "exchange")
    /\ \/ /\ Accepts(c) /\ Succeeds(c)
          /\ code' = [code EXCEPT ![c] = "used"]
          /\ Goto(c, "store") /\ UNCHANGED asked
       \/ ~Accepts(c) /\ Succeeds(c) /\ Return(c, "error") /\ UNCHANGED code
       \/ /\ Accepts(c) /\ Fails(c)
          /\ code' = [code EXCEPT ![c] = "used"]
          /\ Return(c, "error")
       \/ Fails(c) /\ Return(c, "error") /\ UNCHANGED code
    /\ UNCHANGED <<env, setupVars>>

AppCheck(c) ==
    /\ At(c, "check")
    /\ \/ /\ ValidateAppConfig(config, env) /\ Succeeds(c)
          /\ Goto(c, "mint") /\ UNCHANGED asked
       \/ ~ValidateAppConfig(config, env) /\ Reliable /\ Return(c, "error")
       \/ Fails(c) /\ Return(c, "error")
    /\ UNCHANGED <<env, setupVars, code>>

\* IDs and key are taken from the configuration again.
AppMint(c) ==
    /\ At(c, "mint")
    /\ \/ /\ ValidateAppConfig(config, env) /\ Succeeds(c)
          /\ code' = [code EXCEPT ![c] = "used"]
          /\ Goto(c, "store") /\ UNCHANGED asked
       \/ /\ (~ValidateAppConfig(config, env) /\ Reliable) \/ Fails(c)
          /\ Return(c, "error")
          /\ UNCHANGED code
    /\ UNCHANGED <<env, setupVars>>

\* storeCredentials, or the writes at the end of appLogin.
Store(c) ==
    /\ At(c, "store")
    /\ \/ Succeeds(c) /\ Return(c, "ok")
       \/ Fails(c) /\ Return(c, "error")
    /\ UNCHANGED <<env, setupVars, code>>

-----------------------------------------------------------------------------
Setup ==
    \/ \E s \in Settings : Configure(s)
    \/ \E sc \in ServerSettings : Activate(sc)
    \/ Parse \/ ValidateSettings \/ Assign

Step(c) ==
    \/ PatLogin(c) \/ Authorize(c) \/ Select(c) \/ Exchange(c)
    \/ AppCheck(c) \/ AppMint(c) \/ Store(c)

Next ==
    \/ Setup \/ Restart \/ Torn
    \/ \E c \in Callers :
         \/ Refuse(c)
         \/ \E f \in Flows, scoped \in BOOLEAN : Login(c, f, scoped)
         \/ \E a \in {"code", "error"} : Respond(c, a)
         \/ TimerFires(c) \/ Cancel(c) \/ Step(c)

Spec == Init /\ [][Next]_vars

\* Requests end, and time passes.
FairSpec ==
    Spec /\ \A c \in Callers : WF_vars(Step(c)) /\ WF_vars(TimerFires(c))

-----------------------------------------------------------------------------
(* Properties *)

TypeOK ==
    /\ env \in Environments
    /\ config \in Configs \cup {None}
    /\ equipped \in BOOLEAN
    /\ mode \in Modes /\ next \in Modes
    /\ setup \in {"idle", "parse", "validate", "assign"}
    /\ raw \in [config : Configs, parses : BOOLEAN] \cup {None}
    /\ setup = "parse" => raw # None
    /\ setup = "validate" => config # None
    /\ failed \in BOOLEAN
    /\ pc \in [Callers -> Labels]
    /\ flow \in [Callers -> Logins]
    /\ asked \in [Callers -> Issuers \cup {None}]
    /\ \A c \in Callers : pc[c] \in {"wait", "exchange"} => asked[c] # None
    /\ answer \in [Callers -> {"none", "code", "error"}]
    /\ fired \in [Callers -> BOOLEAN]
    /\ cancelled \in [Callers -> BOOLEAN]
    /\ code \in [Callers -> {"none", "given", "used"}]
    /\ out \in [Callers -> Answers]
    /\ setups \in 0 .. MaxSetups
    /\ faults \in 0 .. MaxFaults

\* A login finds a configuration and clients, whatever setups failed before it
\* or run beside it: the mode that lets it in is written last, and nothing
\* takes them away (ConfigureAuthHandler, activeMode).
Equipped == \A c \in Callers : pc[c] # "idle" => config # None /\ equipped

\* The configuration in use is valid unless a ConfigureAuthHandler is about to
\* find that it is not, or has failed and left it there.
ConfigSound == config # None => Validate(config) \/ setup = "validate" \/ failed

\* A login that says nobody answered, or that it was cancelled, has not redeemed
\* the code; and a code that was redeemed ends in credentials, unless a request
\* failed or the context ended (authCodeLogin's select, exchangeAuthCode).
OutcomeExplained ==
    [][\A c \in Callers : pc[c] # "idle" /\ pc'[c] = "idle" =>
         /\ out'[c] \in {"timeout", "cancelled"} => code'[c] # "used"
         /\ code'[c] = "used" => out'[c] = "ok" \/ faults' > 0 \/ Ended(c)]_vars

\* An App login that passes the check of its configuration is one that was
\* offered (ValidateAppConfig, DetectAvailableFlows).
AcceptedOffered ==
    config # None =>
        (ValidateAppConfig(config, env)
           => "github_app" \in DetectAvailableFlows(config, env))

\* A login that has begun returns, whether the user answers or not (the timer
\* of authCodeLogin, the deadline of the device flow).
LoginReturns == \A c \in Callers : pc[c] # "idle" ~> pc[c] = "idle"
=============================================================================
