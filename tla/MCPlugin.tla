------------------------------ MODULE MCPlugin ------------------------------
(* Small instances of Plugin for TLC. *)
EXTENDS Plugin, TLC

\* No settings, an own client with a secret, an App at another host, and
\* settings that do not validate or do not parse.
SomeSettings ==
    { [config |-> DefaultConfig, parses |-> TRUE],
      [config |-> [clientId |-> "own", hostname |-> DefaultHost, has |-> {"clientSecret"}],
       parses |-> TRUE],
      [config |-> [clientId |-> DefaultClient, hostname |-> "ghes",
                   has |-> {"appId", "installationId", "privateKeySecretName"}],
       parses |-> TRUE],
      [config |-> [clientId |-> None, hostname |-> "a b", has |-> {}], parses |-> TRUE],
      [config |-> [clientId |-> "own", hostname |-> DefaultHost, has |-> {}],
       parses |-> FALSE] }

SomeServerSettings ==
    { [serverFlow |-> "pat", has |-> {"token"}, resolves |-> {"token"}],
      [serverFlow |-> "github_app", has |-> {"app", "appId", "privateKey"},
       resolves |-> {"privateKey"}] }

\* A PAT and no key; an App whose key is a file.
SomeEnvironments ==
    { [has |-> {"GH_TOKEN"}, readable |-> {"privateKeySecretName"}],
      [has |-> {"GITHUB_APP_ID", "GITHUB_APP_INSTALLATION_ID",
                "GITHUB_APP_PRIVATE_KEY_PATH"},
       readable |-> {"GITHUB_APP_PRIVATE_KEY_PATH"}] }
=============================================================================
