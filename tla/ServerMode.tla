----------------------------- MODULE ServerMode -----------------------------
(***************************************************************************)
(* GetToken in server mode: concurrent calls over the strategies of an     *)
(* activation, the cached flow of a GitHub App (cachedflow.go), its store  *)
(* for one token (singlestore.go), and activations that replace the mode   *)
(* while calls are in progress (server_mode.go).                           *)
(*                                                                         *)
(* The manager that joins concurrent fetches is a library. Its lookup and  *)
(* its joining of a fetch are separate steps here; a fetch runs by itself, *)
(* so that it may outlive the call that began it; and what it does with a  *)
(* hit below its threshold is left open.                                   *)
(***************************************************************************)
EXTENDS Integers

CONSTANTS
    Callers,        \* concurrent calls
    Settings,       \* the configurations that ActivateServerMode is called with
    Lives,          \* lifetimes of a token as the plugin's clock sees them
    FarFuture,      \* the lifetime given to a PAT (365 days)
    Buffer,         \* DefaultStoreBuffer, the expiryBuffer of the store
    Threshold,      \* DefaultExpiryThreshold
    MaxDelay,       \* longest time between time.Until and the store's Set
    MaxModes,       \* bound: activations
    MaxTime,        \* bound: the clock
    MaxFaults,      \* bound: failed fetches and cancelled calls
    None,
    Error           \* the answer of a call that fails

ASSUME LifeAssumption ==
    /\ Lives \subseteq Int
    /\ FarFuture \in Nat \ {0}
    /\ Buffer \in Nat /\ Threshold \in Nat
ASSUME DelayAssumption == MaxDelay \in Nat /\ MaxDelay < Buffer
ASSUME BoundAssumption ==
    /\ MaxModes \in Nat /\ MaxTime \in Nat /\ MaxFaults \in Nat

Modes    == 1 .. MaxModes
Contexts == {"server", "delegated", "unknown"}

\* expires is GitHub's; got is when the plugin took the time that is left of it.
Tokens  == [mode : Modes, got : Nat, expires : Int]
Flows   == {"pat", "github_app"}
Configs == [flow : Flows, delegated : BOOLEAN]
Entries == [token : Tokens \cup {None}, forever : BOOLEAN, expiresAt : Int]
Fetches == [at : {"none", "fetch", "reply", "stored", "failed"}, token : Tokens \cup {None}]

ASSUME SettingsAssumption == Settings \subseteq Configs
ASSUME NoneAssumption == None \notin Tokens /\ None \notin Configs /\ Error \notin Tokens

VARIABLES
    now,        \* the clock
    mode,       \* the activation in force: p.mode; 0 before the first
    config,     \* the configuration of each activation so far
    store,      \* the singleStore of each activation
    flight,     \* the fetch of each activation's manager
    pc,         \* the point each call is at
    of,         \* the activation whose mode a call runs in, 0 without a call
    context,    \* the ServerContext of the call
    since,      \* history: when the call began
    out,        \* what the last step answered, and to whom
    faults

vars == <<now, mode, config, store, flight, pc, of, context, since, out, faults>>
callVars == <<pc, of, context, since>>

Empty    == [token |-> None, forever |-> FALSE, expiresAt |-> 0]
NoFlight == [at |-> "none", token |-> None]

Init ==
    /\ now = 0
    /\ mode = 0
    /\ config = [m \in Modes |-> None]
    /\ store = [m \in Modes |-> Empty]
    /\ flight = [m \in Modes |-> NoFlight]
    /\ pc = [c \in Callers |-> "idle"]
    /\ of = [c \in Callers |-> 0]
    /\ context = [c \in Callers |-> "unknown"]
    /\ since = [c \in Callers |-> 0]
    /\ out = [c \in Callers |-> None]
    /\ faults = 0

-----------------------------------------------------------------------------
(* The store *)

\* Defect: every value is kept without expiry.
StoredForever(t) == [token |-> t, forever |-> TRUE, expiresAt |-> now]

\* singleStore.Set with the time to live of the token, some time after it was
\* computed: zero is no expiry.
Stored(t) ==
    LET ttl == t.expires - t.got
    IN [token |-> t, forever |-> ttl = 0, expiresAt |-> now + ttl]

\* Defect: no buffer before the end.
HasUnbuffered(m) ==
    /\ store[m].token # None
    /\ store[m].forever \/ now <= store[m].expiresAt

\* singleStore.Get finds a value.
Has(m) ==
    /\ store[m].token # None
    /\ store[m].forever \/ now <= store[m].expiresAt - Buffer

\* The manager may fetch: there is nothing, or what there is ends soon.
MayFetch(m) ==
    \/ ~Has(m)
    \/ ~store[m].forever /\ store[m].expiresAt - now < Threshold

-----------------------------------------------------------------------------
(* Calls *)

\* The manager of an activation's mode.
Manager(m) == m

\* The strategies of a mode: delegated calls use the server's, if enabled.
Strategies(m) ==
    {"server"} \cup (IF config[m].delegated THEN {"delegated"} ELSE {})

Silent == out' = [c \in Callers |-> None]

Return(c, answer) ==
    /\ pc' = [pc EXCEPT ![c] = "idle"]
    /\ of' = [of EXCEPT ![c] = 0]
    /\ out' = [d \in Callers |-> IF d = c THEN answer ELSE None]
    /\ context' = [context EXCEPT ![c] = "unknown"]
    /\ since' = [since EXCEPT ![c] = 0]

Goto(c, point) ==
    /\ pc' = [pc EXCEPT ![c] = point]
    /\ context' = [context EXCEPT ![c] = "unknown"]
    /\ Silent
    /\ UNCHANGED <<of, since>>

\* Plugin.GetToken takes the mode once; the call stays in it.
GetToken(c, x) ==
    /\ pc[c] = "idle"
    /\ mode # 0
    /\ pc' = [pc EXCEPT ![c] = "flow"]
    /\ of' = [of EXCEPT ![c] = mode]
    /\ context' = [context EXCEPT ![c] = x]
    /\ since' = [since EXCEPT ![c] = now]
    /\ Silent
    /\ UNCHANGED <<now, mode, config, store, flight, faults>>

NoStrategy(c) ==
    /\ pc[c] = "flow"
    /\ context[c] \notin Strategies(of[c])
    /\ Return(c, Error)
    /\ UNCHANGED <<now, mode, config, store, flight, faults>>

\* patFlow: the value resolved at the activation.
PatFlow(c) ==
    /\ pc[c] = "flow"
    /\ context[c] \in Strategies(of[c])
    /\ config[of[c]].flow = "pat"
    /\ Return(c, [mode |-> of[c], got |-> now, expires |-> now + FarFuture])
    /\ UNCHANGED <<now, mode, config, store, flight, faults>>

\* cachedFlow calls the manager, which looks into the store.
CachedFlow(c) ==
    /\ pc[c] = "flow"
    /\ context[c] \in Strategies(of[c])
    /\ config[of[c]].flow = "github_app"
    /\ LET m == Manager(of[c]) IN
        \/ /\ Has(m)
           /\ Return(c, store[m].token)
        \/ /\ MayFetch(m)
           /\ Goto(c, "join")
    /\ UNCHANGED <<now, mode, config, store, flight, faults>>

\* The manager joins the fetch in progress, or begins one.
Join(c) ==
    /\ pc[c] = "join"
    /\ Goto(c, "wait")
    /\ LET m == Manager(of[c])
       IN flight' = [flight EXCEPT ![m].at = IF @ = "none" THEN "fetch" ELSE @]
    /\ UNCHANGED <<now, mode, config, store, faults>>

\* The context of a call ends while it waits.
Cancel(c) ==
    /\ pc[c] = "wait"
    /\ faults < MaxFaults
    /\ faults' = faults + 1
    /\ Return(c, Error)
    /\ UNCHANGED <<now, mode, config, store, flight>>

-----------------------------------------------------------------------------
(* Fetches *)

Waiting(m) == {c \in Callers : pc[c] = "wait" /\ Manager(of[c]) = m}

\* serverInstallationFlow: key, JWT and request succeed; cachedFlow takes the
\* time left of the token.
Reply(m) ==
    /\ flight[m].at = "fetch"
    /\ \E life \in Lives :
        flight' = [flight EXCEPT ![m] =
            [at |-> "reply", token |-> [mode |-> m, got |-> now, expires |-> now + life]]]
    /\ Silent
    /\ UNCHANGED <<now, mode, config, store, callVars, faults>>

\* The key, the request or its answer is no good, or its context has ended.
Fail(m) ==
    /\ flight[m].at = "fetch"
    /\ faults < MaxFaults
    /\ faults' = faults + 1
    /\ flight' = [flight EXCEPT ![m].at = "failed"]
    /\ Silent
    /\ UNCHANGED <<now, mode, config, store, callVars>>

Set(m) ==
    /\ flight[m].at = "reply"
    /\ store' = [store EXCEPT ![m] = Stored(flight[m].token)]
    /\ flight' = [flight EXCEPT ![m].at = "stored"]
    /\ Silent
    /\ UNCHANGED <<now, mode, config, callVars, faults>>

\* The result goes to every call that waits for it.
Land(m) ==
    /\ flight[m].at \in {"stored", "failed"}
    /\ LET result == IF flight[m].at = "failed" THEN Error ELSE flight[m].token
       IN out' = [c \in Callers |-> IF c \in Waiting(m) THEN result ELSE None]
    /\ pc' = [c \in Callers |-> IF c \in Waiting(m) THEN "idle" ELSE pc[c]]
    /\ of' = [c \in Callers |-> IF c \in Waiting(m) THEN 0 ELSE of[c]]
    /\ since' = [c \in Callers |-> IF c \in Waiting(m) THEN 0 ELSE since[c]]
    /\ flight' = [flight EXCEPT ![m] = NoFlight]
    /\ UNCHANGED <<now, mode, config, store, context, faults>>

-----------------------------------------------------------------------------
(* Activation and time *)

\* Defect: the mode is replaced before its strategies are built.
ActivateEarly(setting) ==
    /\ mode < MaxModes
    /\ mode' = mode + 1
    /\ Silent
    /\ UNCHANGED <<now, config, store, flight, callVars, faults>>

\* activateServerMode builds new strategies over a new manager and store.
Activate(setting) ==
    /\ mode < MaxModes
    /\ mode' = mode + 1
    /\ config' = [config EXCEPT ![mode + 1] = setting]
    /\ Silent
    /\ UNCHANGED <<now, store, flight, callVars, faults>>

\* A fetch that has its token reaches the store within MaxDelay, and those
\* who wait for it right after.
Tick ==
    /\ now < MaxTime
    /\ \A m \in Modes : /\ flight[m].at = "reply" => now < flight[m].token.got + MaxDelay
                        /\ flight[m].at # "stored"
    /\ now' = now + 1
    /\ Silent
    /\ UNCHANGED <<mode, config, store, flight, callVars, faults>>

Step(c) == NoStrategy(c) \/ PatFlow(c) \/ CachedFlow(c) \/ Join(c)

Fetch(m) == Reply(m) \/ Fail(m) \/ Set(m) \/ Land(m)

Next ==
    \/ \E c \in Callers :
        \/ \E x \in Contexts : GetToken(c, x)
        \/ Step(c)
        \/ Cancel(c)
    \/ \E m \in Modes : Fetch(m)
    \/ \E setting \in Settings : Activate(setting)
    \/ Tick

Spec == Init /\ [][Next]_vars

-----------------------------------------------------------------------------
(* Properties *)

TypeOK ==
    /\ now \in Nat
    /\ mode \in 0 .. MaxModes
    /\ config \in [Modes -> Settings \cup {None}]
    /\ store \in [Modes -> Entries]
    /\ flight \in [Modes -> Fetches]
    /\ pc \in [Callers -> {"idle", "flow", "join", "wait"}]
    /\ of \in [Callers -> 0 .. MaxModes]
    /\ context \in [Callers -> Contexts]
    /\ since \in [Callers -> Nat]
    /\ out \in [Callers -> Tokens \cup {None, Error}]
    /\ faults \in Nat
    /\ \A c \in Callers : of[c] = 0 <=> pc[c] = "idle"
    /\ \A m \in Modes : m <= mode => config[m] # None
    /\ \A m \in Modes : flight[m].at \in {"reply", "stored"} => flight[m].token \in Tokens

\* What the store takes for the end of a token is at most as late, by its own
\* clock, as the time between time.Until and Set, although it knows only the
\* time to live. A value kept without expiry had no lifetime left when it came.
StoreHonest ==
    \A m \in Modes : store[m].token # None =>
        LET t == store[m].token IN
        /\ t.mode = m
        /\ IF store[m].forever THEN t.expires = t.got
                               ELSE store[m].expiresAt <= t.expires + MaxDelay

\* GetToken keeps the promise of TokenSource: whatever fetches, hits, switches
\* of the mode and cancelled calls interleave, nobody gets a token of another
\* activation's credential, nor one from the store that has expired.
Source == INSTANCE TokenSource
            WITH Delay <- MaxDelay, asked <- of, answer <- out
Promise == Source!Spec
=============================================================================
