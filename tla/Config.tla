------------------------------- MODULE Config -------------------------------
(***************************************************************************)
(* The configuration of the handler and what is decided from it: which     *)
(* settings are valid, where the credentials of a GitHub App come from,    *)
(* which flow a login takes and which flows are offered.  A setting is     *)
(* given or it is not; its value matters only where it says with whom the  *)
(* plugin talks.                                                           *)
(***************************************************************************)
EXTENDS Integers, FiniteSets

CONSTANTS
    Clients,        \* OAuth client IDs
    Hosts,          \* host names
    Malformed,      \* the host names that Validate refuses
    DefaultClient,  \* DefaultClientID
    DefaultHost,    \* DefaultHostname
    None            \* an empty string, a nil pointer

ASSUME DefaultAssumption ==
    /\ DefaultClient \in Clients
    /\ DefaultHost \in Hosts \ Malformed
ASSUME AbsentAssumption == None \notin Clients /\ None \notin Hosts

\* Where a private key can come from, in the order of preference.
KeySources ==
    << "privateKey", "GITHUB_APP_PRIVATE_KEY",
       "privateKeyPath", "GITHUB_APP_PRIVATE_KEY_PATH",
       "privateKeySecretName" >>

Fields ==
    { "clientSecret", "appId", "installationId",
      "privateKey", "privateKeyPath", "privateKeySecretName" }

\* An ID is given only if the variable holds a number.
Variables ==
    { "GITHUB_TOKEN", "GH_TOKEN", "GITHUB_APP_ID", "GITHUB_APP_INSTALLATION_ID",
      "GITHUB_APP_PRIVATE_KEY", "GITHUB_APP_PRIVATE_KEY_PATH" }

Configs ==
    [ clientId : Clients \cup {None}, hostname : Hosts \cup {None}, has : SUBSET Fields ]

\* What the process finds around it: variables, and the files and the secret
\* with a private key that can be read.
Environments ==
    [ has : SUBSET Variables,
      readable : SUBSET {"privateKeyPath", "GITHUB_APP_PRIVATE_KEY_PATH",
                         "privateKeySecretName"} ]

DefaultConfig ==
    [clientId |-> DefaultClient, hostname |-> DefaultHost, has |-> {}]

Validate(cfg) ==
    /\ cfg.clientId # None
    /\ cfg.hostname # None
    /\ cfg.hostname \notin Malformed

\* Whom a request is for: the OAuth application at the host of the base URL.
Issuers     == [client : Clients \cup {None}, host : Hosts \cup {None}]
Issuer(cfg) == [client |-> cfg.clientId, host |-> cfg.hostname]

-----------------------------------------------------------------------------
(* Credentials *)

HasPATCredentials(env) == env.has \cap {"GITHUB_TOKEN", "GH_TOKEN"} # {}

GetAppID(cfg, env)          == "appId" \in cfg.has \/ "GITHUB_APP_ID" \in env.has
GetInstallationID(cfg, env) ==
    "installationId" \in cfg.has \/ "GITHUB_APP_INSTALLATION_ID" \in env.has

\* The first source that is given decides, even if it cannot be read.
GetPrivateKey(cfg, env) ==
    LET given    == cfg.has \cup env.has
        readable == env.readable \cup {"privateKey", "GITHUB_APP_PRIVATE_KEY"}
    IN \E i \in 1 .. 5 :
         /\ KeySources[i] \in given \cap readable
         /\ \A j \in 1 .. i - 1 : KeySources[j] \notin given

ValidateAppConfig(cfg, env) ==
    GetAppID(cfg, env) /\ GetInstallationID(cfg, env) /\ GetPrivateKey(cfg, env)

-----------------------------------------------------------------------------
(* Flows *)

\* The flows a request names; the empty one leaves the choice to the plugin.
Flows == {"", "pat", "device_code", "github_app", "interactive", "unknown"}

Logins ==
    { "patLogin", "deviceCodeLogin", "appLogin", "authCodeLogin",
      "interactiveDeviceCodeLogin", "unsupported" }

\* The flow that a login takes; scoped: the request asks for scopes.
LoginFlow(flow, scoped, cfg, env) ==
    IF flow = "pat" \/ (flow = "" /\ HasPATCredentials(env) /\ ~scoped) THEN "patLogin"
    ELSE IF flow = "device_code" THEN "deviceCodeLogin"
    ELSE IF flow = "github_app" THEN "appLogin"
    ELSE IF flow \notin {"interactive", ""} THEN "unsupported"
    ELSE IF "clientSecret" \in cfg.has THEN "authCodeLogin"
    ELSE "interactiveDeviceCodeLogin"

\* Defect: keys are looked for in the configuration only.
DetectWithoutVariables(cfg, env) ==
    {"device_code", "interactive"}
    \cup (IF HasPATCredentials(env) THEN {"pat"} ELSE {})
    \cup (IF GetAppID(cfg, env) /\ \E i \in 1 .. 5 : KeySources[i] \in cfg.has
          THEN {"github_app"} ELSE {})

\* The flows reported as available.
DetectAvailableFlows(cfg, env) ==
    {"device_code", "interactive"}
    \cup (IF HasPATCredentials(env) THEN {"pat"} ELSE {})
    \cup (IF GetAppID(cfg, env) /\ \E i \in 1 .. 5 : KeySources[i] \in cfg.has \cup env.has
          THEN {"github_app"} ELSE {})

-----------------------------------------------------------------------------
(* Server mode *)

\* has: what the settings give; resolves: the references to secrets that can
\* be resolved.
ServerConfigs ==
    [ serverFlow : Flows,
      has : SUBSET {"token", "app", "clientId", "appId", "installationId", "privateKey"},
      resolves : SUBSET {"token", "privateKey"} ]

AllowedServerFlows == {"pat", "github_app"}

\* A malformed reference to a PAT is refused here and one that does not resolve
\* by buildServerFlowFn: ActivateServerMode fails in either case.
ServerValidate(sc) ==
    /\ sc.serverFlow \in AllowedServerFlows
    /\ sc.serverFlow = "pat" => "token" \in sc.has
    /\ sc.serverFlow = "github_app" =>
         /\ {"app", "installationId", "privateKey"} \subseteq sc.has
         /\ sc.has \cap {"clientId", "appId"} # {}
         /\ "privateKey" \in sc.resolves

BuildServerFlow(sc) == sc.serverFlow = "pat" => "token" \in sc.resolves
=============================================================================
