# Verification of scafctl-plugin-auth-github

TLA+ models of the GitHub authentication handler, checked with TLC on small
instances and, where noted, proved with TLAPS for all of them. Paths below are
relative to `internal/github/` of the repository.

## 1. The system

The plugin is a process that the scafctl host starts and calls over RPC. It
keeps no files: everything that must survive it is a secret in the host's store.
Handlers of one process run concurrently, and several processes of the CLI use
the same store. Nothing locks the store and nothing makes several writes atomic.

| Component | State | Operations | Interacts with |
|---|---|---|---|
| CLI mode (`cli_mode.go`, `token.go`, `cache.go`, `logoutInternal`) | secrets `refresh_token`, `access_token`, `metadata`, and cached tokens under `token.` | Login, GetToken, GetStatus, Logout, ListCachedTokens, PurgeExpiredTokens, DetectAvailableFlows | the host's store (one RPC per secret), GitHub (refresh, user claims) |
| PAT (`pat.go`) | one cached token; the environment | login, status and token of the PAT in `GITHUB_TOKEN` / `GH_TOKEN` | the store, GitHub |
| GitHub App login (`app_flow.go`) | the same secrets as the CLI mode | appLogin | configuration, the store, GitHub |
| Device code flow (`device_flow.go`) | interval and ticker of a poll | request, poll, store | GitHub, the clock, `storeCredentials` |
| Authorization code flow (`authcode_flow.go`) | callback server, timer | authorise, exchange, store | a browser, GitHub, `storeCredentials` |
| Server mode (`server_mode.go`, `singlestore.go`, `cachedflow.go`) | strategies per context, one cached installation token | ActivateServerMode, GetToken | GitHub, the go-flight manager |
| Plugin (`auth_handler.go`, `mode.go`) | `config`, `mode`, clients | ConfigureAuthHandler, dispatch to the mode | all of the above |
| Profiles (`auth_handler.go`) | none: names of secrets | validateProfile, profileSecretKey, profileTokenPrefix | every access to the store |
| Configuration (`config.go`) | settings and environment | Validate, GetPrivateKey, GetAppID, ... | the flows |
| Claims, HTTP client, clock | none | fetchUserClaims, requests, tickers | GitHub, time |

What is hard, and what makes each component correct:

* **CLI mode.** A refresh token of GitHub is used once: a refresh replaces it.
  Between the replacement and the write of the new token the store is out of
  date, and a second call, a lost reply, a failed write or a dead process can
  get in between. Correct: what is stored is never older than what the writer
  has; racing calls leave a session that can be refreshed; tokens follow the
  last login; a logout removes everything; a purge removes only what has expired; a
  listing has each token once.
* **PAT.** Its cached token must not be mixed up with a login's.
* **GitHub App login.** Its token must become the one GetToken answers with.
* **Device code flow.** Polls keep the interval the server asked for, the flow
  ends by the deadline, and a token that was issued is stored.
* **Authorization code flow.** It ends in exactly one of: code, timeout, cancel.
* **Server mode.** A cached token is served only while it is fresh; concurrent
  requests share one fetch; a call gets a token of the credential that was in
  force when it asked.
* **Plugin.** A login finds a valid configuration and the clients it needs
  whatever setups run beside it, and says what became of it.
* **Profiles.** No operation on one profile reaches the secrets of another. The
  profile `token` is the exception.
* **Configuration.** An App login that its check accepts was offered.

`PROJECT.json` lists these parts under `components` and the places where they
are hard to test under `hazards`.

## 2. Modules

| Module | What it is |
|---|---|
| `CliMode` | the CLI mode, PATs and the App login, for one profile: state, actions, properties |
| `DeviceFlow` | one login by device code: polls, ticker, deadline, GitHub, the user |
| `TokenSource` | abstract: what server mode promises to those who ask it for a token |
| `ServerMode` | GetToken in server mode: strategies, cache, shared fetches, activations; implements `TokenSource` |
| `Profiles` | several profiles in one store: OAuth and App logins, logouts, purges |
| `Config` | operators: what is valid, where credentials come from, which flow is taken and offered |
| `Plugin` | the process: setups beside logins, the authorization code flow; extends `Config` |
| `MC...` | constants and symmetry for TLC; one `MC..._<run>.cfg` per run |
| `CliModeProofs`, `DeviceFlowProofs`, `ServerModeProofs`, `ProfilesProofs`, `PluginProofs` | the theorems about a module and their proofs |
| `CliModeSequentialProofs`, `CliModeRaceProofs` | more of `CliMode`, on top of `CliModeProofs`: what calls one at a time leave behind, and what racing calls keep of the tokens they share |

The parts fit together at named places. `Plugin` has what happens before a login
has its tokens and treats what it stores as one step; `DeviceFlow` has the polls
that `Plugin` reduces to an authorization and an exchange; both end where the
action `Login` of `CliMode` begins, which has the writes one by one. `CliMode` has
one profile and calls that race and fail; `Profiles` has many, with at most one
call in each. `Plugin` decides between the modes, `ServerMode` is what GetToken
does in one of them.

### `CliMode`: state

| Variable | In the program |
|---|---|
| `refresh`, `access`, `metadata` | the secrets of `SecretKeyRefreshToken`, `SecretKeyAccessToken`, `SecretKeyMetadata`; `None` if absent |
| `cache` | the secrets below `SecretKeyTokenPrefix`: `"host"` (logins), `"app"` (installation tokens), `"pat"` |
| `live` | GitHub: the generation of the refresh token it accepts, per session |
| `now` | the clock |
| `pc`, `reg` | the point each call is at, and its local variables |
| `out` | the last answer of each caller |
| `faults` | failed RPCs and requests, lost replies, dead processes so far |
| `session` | history: the owner of the last login that no logout followed |

A token is a record of its owner (an OAuth session, the App or a PAT), its
expiry and, for a refresh token, how many rotations made it. A metadata record
keeps whom the claims describe, the SessionID, whether there is a ClientID, and
the refresh token's expiry. Scopes, flows, hosts and names are left out: nothing
that is checked depends on them. A new SessionID is named after the session it
was made for.

### `CliMode`: actions

A call is a sequence of actions, one for each RPC to the host or request to
GitHub, in the order of the code. Local computation belongs to the action before
it, so the calls interleave exactly where the code waits.

* GetToken: `GetToken`, `CacheGet`, `LoadAccess`, `CacheAccess`; a mint goes on
  with `LoadRefresh`, `LoadMeta`, `RotateMeta`, `Post`, `CacheMinted`, and after
  a rotation through `PutRefresh`, `PutAccess`, `PutMeta`, `PutCache` first.
* Login: `Login` (the flow has its token response), then the same four writes of
  storeCredentials. A write that fails ends a login with an error, and is only
  logged by a mint (`StoreFailed`). The request for the user's claims is in
  `PutMeta`: nothing that another call can see happens between the two.
* App login: `AppLogin`, `AppCache`, `AppAccess`, `AppMeta`.
* PAT: `GetToken` with a PAT, `PatCacheGet`, `PatValidate`, `PatCache`.
* Logout: `Logout`, `ListClear`, `Clear` (once per listed key), `DelRefresh`,
  `DelAccess`, `DelMeta`. No failure stops it.
* Purge: `PurgeExpiredTokens`, `ListPurge`, `PurgeGet`, `PurgeDelete`.
* Status: `GetStatus`, `PatStatus`, `HasRefresh`, `HasAccess`, `StatusMeta`.
* Listing: `ListCachedTokens`, `ListRefresh`, `ListKeys`, `ListEntry` (once per listed
  key, in any order), `ListAccess`, `ListDirect`. The answer is a set of pairs: where
  a token was found and which token it is. The metadata only word it.
* Environment: `Tick`, and `Crash` (the process dies or the context is
  cancelled between two steps).

Every step of an RPC has an alternative `Fault`: it fails and changes nothing.
`Post` also has the one in which GitHub has replaced the token and the reply is
lost; the retries of the HTTP client present the replaced token and are refused,
which is the same outcome. GitHub is external: it accepts the refresh token it
issued last for a session until it expires, and answers with a new access token
and, if it likes, a new refresh token (`Accepted`, `NewAccess`, `NewRefresh`).

The store starts empty, or with the credentials of the built-in handler which
this plugin replaces: a refresh token and metadata under the same keys
(`TestTokenMigration_*` in `auth_handler_test.go`), and no access token. The
second is also how a mint becomes reachable at all in a run without faults: a
login of this plugin always stores an access token, and GetToken then never gets
to the refresh token (the run `stale_token`).

The section "Defects the code does not have" holds variants of definitions that
`Next` does not use. Each breaks a property when it stands for the definition it
names in `PROJECT.json` (`mutants`).

### `DeviceFlow`: state and actions

`pc` is the point of the login: the request for a code, the `select` of
pollForToken, a poll in progress, storeCredentials, or the return. `interval` is
the local variable; `ticker` is when the ticker fires next and whether a tick
waits in its channel; `reply` is an answer of GitHub on its way. GitHub is
external: `code` is what has become of the device code, `expires` its end,
`required` and `last` the pace GitHub asks for. `polls`, `slowAt` and
`decidedAt` are history.

`now` counts time. `Tick` stands still while the code has something to do at
once (`Ready`), and a request ends within `MaxWait`. Everything else interleaves:
the ticker fires during a request, the user decides at any time (`Decide`),
GitHub answers (`Serve`) before or after, the deadline or a cancellation
(`Cancel`) comes with a tick and an answer already there, and `select` then takes
either branch. `NoReply` is the loop's `continue` after a failed request,
`Retry` the request that the HTTP client sends again after GitHub has seen it
once. `Started` is a new ticker and a reset one: since Go 1.23 no tick of before
a reset is delivered after it (`go.mod` names a later version). GitHub adds to
its interval what the plugin adds to its own, 5 s (`SlowDown`). `ExpiresIn` of
the code is not read by the code and not in the model other than as `CodeLife`.

### `TokenSource` and `ServerMode`

`TokenSource` has calls that ask and are answered, activations that replace each
other, and a clock. `Honest` is the promise: a token is of the activation that
was in force when the call began, and it has not expired or was obtained for this
call. A fetch takes the time that is left (`time.Until`) once and up to `Delay`
before the answer. It makes one exception, which the code makes: a token that
had no lifetime left when it arrived is kept as one without expiry.

In `ServerMode`, `mode` is `p.mode` by the number of its activation; `config`,
`store` and `flight` are the settings, the `singleStore` and the manager of each
activation, since calls of an old one may still be running; `of` and `context` are the
mode and the ServerContext of a call, `since` when it began.

* `GetToken` takes the mode; `NoStrategy`, `PatFlow` and `CachedFlow` are what the
  strategy of the context does.
* `Stored` and `Has` are `singleStore.Set` and `Get` with their arithmetic; the
  store reckons from its own clock and knows only the time to live.
* `Reply` is serverInstallationFlow and the computation of the time to live,
  `Fail` any failure on that way, `Set` the write to the store.
* The go-flight manager is a library and modelled from its use: `MayFetch` (it
  may fetch when there is nothing or less than the threshold is left, and is free
  to answer from the store meanwhile), `Join`, `Land` (everybody who waits gets
  the result), and a fetch that goes on when the call that began it is cancelled.
* `Activate` builds new strategies over a new manager and then replaces the mode.

The mapping to `TokenSource` takes `of` for `asked` and `out` for `answer`; stores,
fetches and everything between the question and the answer are hidden.

### `Profiles`

A name is the sequence of its parts between the dots after `scafctl.auth.github`,
so `Secret(<<"work">>, "metadata")` is `<<"work", "metadata">>`, and the pattern
of a listing (`Under`) is a proper prefix. `Valid` is validateProfile: no dot,
hence one part at most, and none of the other separators.

Actions are those of `CliMode` for OAuth logins, App logins, logouts and purges,
without their races and failures. A login brings a refresh token or it does not
(`renewing`); without one, that of a login before stays, which is what the history
`renewable` follows beside `signedIn`. A profile has two cache keys, that of its
host and that of its App. A stored value remembers the profile that wrote it
(`by`). A value below the prefix that is not a cache entry is treated as the code
does: a raw token does not parse and is skipped, metadata parses as an entry
without expiry, which is never purged. What is named the same way and writes
nothing new is left out: GetStatus and ListCachedTokens, the tokens that GetToken
mints, PATs. They are in `CliMode`.

### `Config` and `Plugin`

`Config` has no state. A configuration says which client and host it names and
which of its other fields are given; an environment, which variables are set and
which files and secrets can be read. `LoginFlow`, `DetectAvailableFlows`,
`ValidateAppConfig` and `GetPrivateKey` are the decisions of the functions of that
name, `ServerValidate` and `BuildServerFlow` those of ActivateServerMode.

In `Plugin`, `config` and `mode` are the fields of the `Plugin` struct, `equipped`
its clients, `next` the mode that is being written, `setup` and `raw` the point and
the settings of a setup in progress; for each login `pc`, the `flow` that performs it, whom it
`asked`, what came back (`answer`), whether its timer has `fired` and its context is
`cancelled`; `code` is GitHub's. `failed` is history.

* `Configure`, `Parse`, `ValidateSettings`, `Assign` are ConfigureAuthHandler: the
  configuration is replaced first, decoded in place and validated, and the mode
  is written last. A failure leaves the configuration where it is. `Activate` is
  ActivateServerMode, which writes the mode only.
* `Sees` is a read of `p.mode` beside its write. The field is an interface of two
  words: a reader may see the old mode, the new one, or half of each. `Torn` is
  the last case, which ends the process.
* `Login` dispatches. `PatLogin` is patLogin; `AppCheck` and `AppMint` are
  appLogin up to the token; `Authorize`, `Select`, `Exchange` and `Store` are
  authCodeLogin, and a device login in outline. Each request takes p.config anew,
  as the code does. What `Store` writes is in `CliMode`.
* `Respond`, `TimerFires` and `Cancel` come in any order and together; `Select` takes
  any branch that is ready. A device login has a deadline in its context
  (`ByDevice`), which also ends its requests, and reports any end of it as a
  timeout; the code flow has a timer, which does not end requests, and tells the
  two apart.
* A request `Fails` with its context or by a fault. `Exchange` may fail after
  GitHub has used up the code; the retries of the client are then refused.
* `Restart` starts another process over the same store.

The host runs one setup at a time. The environment of a process does not change.

## 3. Runs

Runs that pass:

| Run | Module | Instance | Shows |
|---|---|---|---|
| `rotation` | `MCCliMode` | 2 callers, 2 sessions, 1 fault; GetToken, Login, Logout | `RotationInv`, `OnlyLiveRefreshStored` |
| `race` | `MCCliMode` | 3 callers, no faults, fairness; GetToken, Login | `SuccessorOnItsWay`, `DeadRefreshReplaced` |
| `sequential` | `MCCliMode` | 1 caller, 2 sessions, a PAT, all operations, clock to 4, 1 fault | `TypeOK`, `PatsApart`, `LoggedOutStatus`; until something fails, `LogoutSticks`, `TokenFollowsLogin`, `StatusFollowsLogin`, `LabelsReflectLogin`, `ListingFollowsLogin` |
| `device` | `MCDeviceFlow` | one login, 1 fault, requests longer than the interval, fairness | `TypeOK`, `PollRate`, `SlowDownObeyed`, `IntervalCoversServer`, `OutcomeExplained`, `DecisionArrives`, `LoginReturns` |
| `server` | `MCServerMode` | 2 callers, 2 activations (PAT, App with delegation), clock to 2, 1 fault | `TypeOK`, `StoreHonest`, `Promise` (refinement of `TokenSource`) |
| `profiles` | `MCProfiles` | 2 callers; the default profile, `work`, `home` and two invalid ones | `TypeOK`, `SessionsKeptApart`, `LogoutClears` |
| `plugin` | `MCPlugin` | 1 login at a time, 3 setups of 7 kinds, 2 environments, 1 fault or restart, fairness | `TypeOK`, `Equipped`, `ConfigSound`, `AcceptedOffered`, `OutcomeExplained`, `LoginReturns` |

Runs that end in a violation, each of one statement of the repository about
itself (quoted under `findings`):

| Run | What happens |
|---|---|
| `stale_token` | an expiring login stores its access token too; after it has expired, GetToken with ForceRefresh takes the stored token for a non-expiring one, answers with it, says it is good for 365 days and caches it so; the refresh token is not used |
| `app_login` | after an OAuth login and then an App login GetToken answers with the cached OAuth token |
| `profile_token` | the secrets of the profile `token` match the cache pattern of the default profile: a logout there deletes its session |
| `purge_race` | a login caches its token between the purge's read of the expired entry under the same key and its delete: the fresh token is deleted |
| `listing` | the token of an App login is listed as a cached token and as a direct one: ListCachedTokens looks under the key of the host only |

Some properties hold of calls one at a time and not of racing ones, which is why
`sequential` has one caller:

* `LogoutSticks`: a GetToken that has read its credentials before a logout caches
  its token after it (`cli_mode.go:194`).
* `ListingFollowsLogin`: a listing that has read the refresh token before a logout
  and the rest after it (`cli_mode.go:226`).
* `LabelsReflectLogin`: a login between a mint's reads of the refresh token and of
  the metadata labels the token of the old session with the new one
  (`token.go:80`).

After an App login `ListingFollowsLogin` leaves open what is listed: `listing` shows the
token listed twice, and beside an OAuth token in the cache it is listed once or, after a
purge, not at all.

A configuration that fails to validate stays in use by the logins of the mode
that an earlier one has set up; `ConfigSound` says that this is the only way for one
to be there. Polls of the device flow can be closer to each other than
`MinPollInterval`, when a tick has waited for a slow request; `PollRate` says how
many there can be.

### Bounds

* Two callers show every race of two handlers; `race` has three, so that a third
  call can use what two others leave. Two sessions are what a login over another
  one needs; `race` has one, because its properties relate tokens of one session
  and a login of another only takes a dead token out of the store.
* `MaxGen` is 2 where two rotations must follow each other, else 1.
* The lifetimes are the smallest that keep the order of the real ones: a refresh
  token outlives an access token, and the validity asked for is shorter than
  both. `MaxTime` lets an access token expire and, in `sequential`, a refresh
  token too. `rotation` and `race` stop the clock.
* `MaxFaults` is 1: the properties are about what a single failure leaves.
* `device`: an interval of 2 with one asked for below it and one above it, and a
  deadline of 18, leave room for several polls and slow_downs after a decision;
  `MaxWait` 3 is longer than the shorter interval, so ticks are missed, and the
  code's life of 16 ends before the deadline.
* `server`: a token is dead on arrival, has no time left, or has enough to be found
  in the store once, with a buffer that the clock can cross and a delay shorter
  than it. Two activations leave calls and fetches of the first beside the second.
* `profiles`: the default profile, two named ones, and one of each kind that `Valid`
  refuses. Two calls are in two profiles, and what one does to the other is what a
  third would see. The profile `token`, whose names lie among those of the default
  profile, is in `profile_token`; that a logout clears its cached tokens and that it
  does not reach the sessions of others is proved (section 4).
* In `stale_token` and `purge_race` time passes between calls only (`BriskSpec`): a
  call is short beside the life of a token, and what these runs show must not rest
  on one that outlasts it.
* `plugin`: three setups are one to log in with, one beside the login and one after a
  failure. A second login shares nothing with the first that a setup does not
  also touch.
* Symmetry (callers, sessions) is used in safety runs only.

### Fairness

In `CliMode`, `FairSpec` is weak fairness of `Step(c)` for each caller: a call that
has begun takes its next step. The host answers its RPCs, and the HTTP client has a
timeout of 30 s and at most three retries (`config.go`), so no step waits for
ever. Beginning a call, a fault, a crash and the clock are not assumed to happen.

In `DeviceFlow`, `FairSpec` is weak fairness of the login's own steps, of GitHub's
answers and of time. The user need not decide and nothing need fail or be
cancelled.

In `Plugin`, it is weak fairness of the steps of a login and of its timer; the user,
the browser, setups and failures owe nothing. `ServerMode` assumes none: that a call
which waits for a fetch gets an answer rests on the library that joins fetches, which
is modelled from its use, and a property of it would say nothing about this code.

## 4. Proofs

`CliModeProofs` proves for any sets of callers, sessions and PATs, any lifetimes
and any bounds on clock, rotations and faults:

* `TypeCorrect`: `Spec => []TypeOK`. `TypeOK` is inductive: it also says
  what each point of a call has at hand (`Defined`), such as an access token
  at every write of it. One step per action; lemmas of the kind `MoveType`,
  `SetTokensType` say what a move with an assignment does to the calls.
* `RotationCorrect`: `Spec => []RotationInv`. A refresh token that is about to
  be stored is the one GitHub accepts and newer than every copy in the store or
  in another call. This strengthening is what makes the next theorem provable:
  that GitHub accepts a token when it is presented says nothing of later, unless
  nobody else can present it. A step leaves its call without a refresh token
  (`Leaving`), with one it has read (`Keeping`), replaces one (`Rotating`),
  begins a session (`Beginning`) or stores the successor (`Replacing`).
* `OnlyLiveRefresh`: `Spec => OnlyLiveRefreshStored`, the action property, from
  the two invariants.

`CliModeRaceProofs` proves for any number of callers:

* `PatsApartCorrect`: `Spec => []PatsApart`, whatever fails and whoever dies. An
  answer is made of what an earlier call has stored, so `ApartInv` says of the
  three places a token can come from (the entry of the PATs, the entry of the
  logins, the access token) and of every call that is about to write one of the
  latter whose token it is.
* `SuccessorOnItsWayCorrect`, for calls without Logout. `SuccessorInv` adds that a
  mint that has found metadata finds it again (`RotatesWithMetadata`): without it GitHub could replace
  the token and the call drop the new one, which is what a logout beside it brings
  about (section 5). `RotationInv` rules out that two calls present the same token
  with success, so the call that replaced it is the one about to store.

`CliModeSequentialProofs` proves for one caller (`OneCaller`), any number of calls one
after another, and any sessions, PATs, lifetimes and bounds:

* `LogoutSticksCorrect`, `TokenFollowsLoginCorrect`, `StatusFollowsLoginCorrect`,
  `LabelsReflectLoginCorrect` and `ListingFollowsLoginCorrect`, from `SequentialCorrect`: `Spec => []SequentialInv`. Each of
  the five speaks of answers or of a store at rest, and none says what the next call will
  find. `Settled` does: the store shows nobody, the App, or one OAuth session
  throughout (`Empty`, `AppCreds`, `Creds`). A call that writes has it broken
  meanwhile, and `Point` says at each of its points what it has written or
  deleted so far. `SequentialCall`, `SequentialRead`, `SequentialMint`,
  `SequentialLogin`, `SequentialAnswer`, `SequentialListing`, `SequentialPurge`, `SequentialAppLogin` and
  `SequentialLogout` are the cases, one for each kind of step.
* `LoggedOutStatusCorrect`, from `OneFailureInv`. `Settled` is of no use after a fault:
  any secret may be missing or left over. What remains is that metadata without a
  session has no token beside it (`Leftover`), and that a GetStatus on its way has
  not seen both (`FailedPoint`).

One caller is what these properties mean, not a shortcut: in the instance of
`sequential` with a second caller TLC finds each of the six violated (section 3 has
examples).

`DeviceFlowProofs` proves for any durations, intervals and number of faults:

* `TypeCorrect`: `Spec => []TypeOK`, one step per action. It includes that time
  stays within the deadline while a login is in progress.
* `PollRateCorrect` and `SlowDownCorrect`, from `PaceInv`: the ticker is ahead of
  the clock by at most an interval, each poll and the waiting tick have used up an
  interval before the running one, and no tick is closer to a slow_down than the
  interval. `PollRate` alone is not inductive: a poll adds one without time
  passing, and only the tick it consumes says that the time was spent before.
* `OutcomeCorrect`, from `OutcomeInv`: answers on their way agree with GitHub, and
  a used code has its token on the way or at hand unless a fault or the end of
  the context came in between.
* `IntervalCorrect`, from `BackoffInv`: the interval covers GitHub's, or will when
  the slow_down on its way arrives.
* `DecisionCorrect`: `Spec => []DecisionArrives`. The time a decision takes is that of
  the request in progress or the wait for the next one, one that comes too early, the
  interval after it, and the request that brings the decision: less than
  `2 * (MaxWait + interval)`. `DecisionInv` says at each point how much of that is spent,
  with `TimingInv` for the order of requests, answers and decision, and `BackoffInv` for
  the fact that the poll after a slow_down is not too early (`Soon`).

`ServerModeProofs` proves for any number of callers and activations, any
lifetimes, and any buffer longer than the delay before Set:

* `TypeCorrect`.
* `StoreHonestCorrect`. `StoreHonest` needs `FetchInv`: a reply belongs to its
  activation, and the clock is at most `MaxDelay` past its arrival.
* `PromiseKept`: `Spec => Promise`, the refinement of `TokenSource`. Every step maps
  to a step of it or a stutter (`RefineNext`); `Inv`, which adds that no call began
  in the future, says that a hit has not expired and a fetched token is recent.

`ProfilesProofs` proves for any set of profile names, parts and callers:

* `PatternsApart`: the pattern of a valid profile covers no credential of another,
  unless that is the profile `token`.
* `TypeCorrect`; `SessionsKeptCorrect`, from `Sessions`, which says of every point of
  a call which of the credentials it has written or deleted so far, from
  `InTurn` (no two calls in one profile) and `KeysListed` (a listing has only names
  below its own prefix); `Elsewhere` says that no cache entry of any profile and
  nothing below a prefix is one of these credentials.
* `LogoutClearsCorrect`, from `ClearInv`: what a logout has not deleted yet is on
  its list. `CachedUnderPrefix` says that a listing
  finds the cached names of its profile, `CachedGoes` that an absent token is put back
  by a login of its profile only, and `SigningIn` that a profile which a step leaves
  signed out was so before or has just ended its logout.

`PluginProofs` proves for any settings, environments, callers and bounds, from one
inductive invariant (`Inv`):

* `TypeCorrect`; `EquippedCorrect`: the mode `cli` is never in place or on its way
  before the clients are; `ConfigSoundCorrect`.
* `OutcomeCorrect`: a login with a used code is about to store (`RedeemedInv`).
* `AcceptedOfferedCorrect`, from the operators alone.

Assumed are the `ASSUME`s of the modules: durations and bounds are natural
numbers, some of them not zero; the delay before Set is shorter than the buffer;
the names of the credentials are among the parts, and no name of a credential is
the hash of a host; defaults are valid; `None` and `Error` are none of the values
they stand beside.

Besides, no OAuth session or PAT is the App and none is both (`OwnersAssumption`), and
`None` is no token, metadata record or cache entry (`AbsentAssumption`). The hypotheses
of theorems are two: `OneCaller` and `"Logout" \notin Ops`, each at the theorems
that have it.

Every invariant and every action property of the passing runs is stated by a theorem.
Model-checked only is what is left, the properties under `FairSpec`:
`DeadRefreshReplaced` and the two `LoginReturns`. Liveness under fairness and `ENABLED`
are out of the prover's reach.

## 5. Not modelled

* `race` leaves Logout out. A logout beside a mint can delete the metadata between
  its two reads, and the rotated token is then not stored (`token.go:107`) while
  the old one may still be in the store. The session has to be renewed by a login,
  which the code accepts and logs.
* What a stored record says of client and host. It is that of the configuration at
  the time of the write, which a setup beside the exchange may have replaced
  (`token.go:202`); nothing in the repository says whose it should be.
* A PAT that changes. getPATToken caches it under the name of the host for 365 days
  and looks there first (`pat.go:105`), so another process is answered with the PAT of
  before; `PatsApart` only says that it is a PAT.
* That an offered flow is accepted. The GitHub App flow is offered without an
  installation ID (`cli_mode.go:320`), which ValidateAppConfig then asks for.
* A change of the host name. Secrets are named after the profile and only the
  cache key contains the host, so GetToken may find an access token of another host
  (`cli_mode.go:167`). `CliMode` has one host.
* Several setups at once, which the host does not ask for, and logins that read
  a configuration while it is being decoded field by field.
* Failures of the host's RPCs in `Profiles`: they are in `CliMode`.
* The contents of keys, JWTs and replies, PKCE, the HTML of the callback page,
  scopes, JSON and log formatting: a request succeeds or fails, and the
  properties do not look inside. The HTTP client and fetchUserClaims are such
  requests.
* `GetAuthHandlers`, `StopAuthHandler` and the check of the handler name, which keep
  no state; the RPC transport; `cmd/`; the doubles in `mock.go`, used by tests.
