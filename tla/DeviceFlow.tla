------------------------------ MODULE DeviceFlow ------------------------------
(***************************************************************************)
(* One login by the device code flow: the request for a code, the polls    *)
(* that the ticker paces, slow_down, the deadline of the login's context,  *)
(* and GitHub and the user on the other side.  Time is a counter.  Code    *)
(* that has something to do does it at once; requests take time, and the   *)
(* ticker keeps one tick for a reader that is late.                        *)
(***************************************************************************)
EXTENDS Integers

CONSTANTS
    Timeout,      \* the deadline of the login, counted from its start
    MinInterval,  \* MinPollInterval
    SlowDown,     \* what slow_down adds to the interval, here and at GitHub
    Intervals,    \* the intervals GitHub may ask for
    CodeLife,     \* how long GitHub accepts a device code
    MaxWait,      \* bound: the time a request takes, its retries included
    MaxFaults     \* bound: failed requests, lost replies, cancellations

ASSUME TimeAssumption ==
    /\ Timeout \in Nat \ {0} /\ CodeLife \in Nat \ {0} /\ MaxWait \in Nat \ {0}
    /\ MinInterval \in Nat \ {0} /\ SlowDown \in Nat \ {0}
    /\ Intervals \subseteq Nat
ASSUME FaultsAssumption == MaxFaults \in Nat

None == -1

VARIABLES
    now,
    pc,         \* where the login is; "done" once it has returned
    since,      \* when the request in progress, if any, was sent
    interval,   \* the local variable of pollForToken
    ticker,     \* when it fires next, and whether a tick waits in its channel
    reply,      \* GitHub's answer on its way back, "none" before there is one
    result,     \* what the login returned
    ctxDone,    \* the host has cancelled the context
    code,       \* GitHub: what has become of the device code
    expires,    \* GitHub: until when it accepts the code
    required,   \* GitHub: the least time between two requests
    last,       \* GitHub: when it last answered one
    faults,     \* faults so far
    polls,      \* history: the number of polls
    slowAt,     \* history: when a slow_down last arrived
    decidedAt   \* history: when the user decided

client  == <<pc, since, interval, ticker, reply, result, polls, slowAt>>
github  == <<code, expires, required, last, decidedAt>>
vars    == <<client, github, now, ctxDone, faults>>

Replies == {"token", "authorization_pending", "slow_down", "expired_token",
            "access_denied", "bad_code"}
Times   == 0..Timeout + CodeLife

TypeOK ==
    /\ now \in 0..Timeout
    /\ pc \in {"code", "select", "request", "store", "done"}
    /\ since \in 0..Timeout /\ interval \in Nat
    /\ ticker \in [next : Nat, pending : BOOLEAN]
    /\ reply \in Replies \cup {"none"}
    /\ result \in {"none", "token", "timeout", "denied", "failed"}
    /\ ctxDone \in BOOLEAN
    /\ code \in {"none", "pending", "approved", "denied", "used"}
    /\ expires \in Times /\ required \in Nat /\ last \in 0..Timeout
    /\ faults \in 0..MaxFaults
    /\ polls \in Nat
    /\ slowAt \in 0..Timeout \cup {None}
    /\ decidedAt \in 0..Timeout \cup {None}

Init ==
    /\ now = 0 /\ pc = "code" /\ since = 0 /\ interval = 0
    /\ ticker = [next |-> 0, pending |-> FALSE]
    /\ reply = "none" /\ result = "none" /\ ctxDone = FALSE
    /\ code = "none" /\ expires = 0 /\ required = 0 /\ last = 0
    /\ faults = 0 /\ polls = 0
    /\ slowAt = None /\ decidedAt = None

-----------------------------------------------------------------------------
\* Defects the code does not have: each stands for the definition below that it
\* is named after, to show that a property notices.

\* The minimum of the configuration is not applied.
FirstIntervalOfServer(i) == i

\* Reset leaves a tick of before in the channel, as it did before Go 1.23.
StartedKeepsTick(d) == [next |-> now + d, pending |-> ticker.pending]

\* The login's context has no deadline.
DoneWithoutDeadline == ctxDone

-----------------------------------------------------------------------------
\* ctx.Done(): the timeout of the login or the host's own cancellation.
Done == ctxDone \/ now >= Timeout

Fault    == faults < MaxFaults /\ faults' = faults + 1
Reliable == UNCHANGED faults

\* time.Ticker.  A tick that nobody has read yet is not doubled.  Reset starts a
\* new period, and no tick of before it is delivered any more (Go 1.23 and later).
Started(d) == [next |-> now + d, pending |-> FALSE]
Fires(t)   == IF ticker.next = t
              THEN [next |-> t + interval, pending |-> TRUE]
              ELSE ticker

Ticking == pc \in {"select", "request"}

\* select has a branch that is ready.
Ready == pc = "select" /\ (Done \/ ticker.pending)

Finish(r) ==
    /\ pc' = "done" /\ result' = r /\ reply' = "none"
    /\ UNCHANGED <<since, interval, ticker, polls, slowAt>>

\* The loop has received an answer and is at p next.
Answered(r, p) ==
    /\ pc = "request" /\ reply = r
    /\ pc' = p /\ reply' = "none"
    /\ UNCHANGED <<github, now, ctxDone, faults>>

Tick ==
    /\ pc # "done" /\ ~Ready /\ ~Done
    /\ pc # "select" => now < since + MaxWait
    /\ now' = now + 1
    /\ ticker' = IF Ticking THEN Fires(now + 1) ELSE ticker
    /\ UNCHANGED <<pc, since, interval, reply, result, polls, slowAt,
                   github, ctxDone, faults>>

\* The host cancels the login.
Cancel ==
    /\ pc # "done" /\ ~ctxDone
    /\ ctxDone' = TRUE /\ Fault
    /\ UNCHANGED <<client, github, now>>

-----------------------------------------------------------------------------
\* Defects of single steps.

\* The ticker is reset, the local variable is not: the next increment starts
\* from the old interval.
SlowedDownForgets ==
    /\ Answered("slow_down", "select")
    /\ ticker' = Started(interval + SlowDown)
    /\ slowAt' = now
    /\ UNCHANGED <<since, interval, result, polls>>

\* The ticker is stopped for the new interval and not started again.
SlowedDownStops ==
    /\ Answered("slow_down", "select")
    /\ interval' = interval + SlowDown
    /\ ticker' = [next |-> now, pending |-> FALSE]
    /\ slowAt' = now
    /\ UNCHANGED <<since, result, polls>>

\* slow_down has no case of its own.
RefusedAlsoSlow ==
    /\ pc = "request"
    /\ \/ reply = "expired_token" /\ Finish("timeout")
       \/ reply = "access_denied" /\ Finish("denied")
       \/ reply \in {"bad_code", "slow_down"} /\ Finish("failed")
    /\ UNCHANGED <<github, now, ctxDone, faults>>

\* A failed request is sent again, without a look at the context.
NoReplyResends ==
    /\ pc = "request"
    /\ (Done /\ Reliable) \/ Fault
    /\ reply' = "none"
    /\ UNCHANGED <<pc, since, interval, ticker, result, polls, slowAt,
                   github, now, ctxDone>>

-----------------------------------------------------------------------------
\* requestDeviceCode, and pollForToken up to its loop.
Larger(a, b) == IF a < b THEN b ELSE a
FirstInterval(i) == Larger(i, MinInterval)

RequestCode ==
    /\ pc = "code" /\ ~Done /\ Reliable
    /\ \E i \in Intervals :
         /\ required' = i
         /\ interval' = FirstInterval(i)
         /\ ticker' = Started(FirstInterval(i))
    /\ code' = "pending" /\ expires' = now + CodeLife /\ last' = now
    /\ pc' = "select"
    /\ UNCHANGED <<since, reply, result, polls, slowAt, decidedAt, now, ctxDone>>

RequestCodeFails ==
    /\ pc = "code"
    /\ (Done /\ Reliable) \/ Fault
    /\ Finish("failed")
    /\ UNCHANGED <<github, now, ctxDone>>

-----------------------------------------------------------------------------
\* The loop of pollForToken.  When both branches are ready, select takes either.
TimedOut ==
    /\ pc = "select" /\ Done
    /\ Finish("timeout")
    /\ UNCHANGED <<github, now, ctxDone, faults>>

Poll ==
    /\ pc = "select" /\ ticker.pending
    /\ ticker' = [ticker EXCEPT !.pending = FALSE]
    /\ pc' = "request" /\ since' = now
    /\ polls' = polls + 1
    /\ UNCHANGED <<interval, reply, result, slowAt, github, now, ctxDone, faults>>

\* The request ends without an answer and the loop goes on: the context is over,
\* the request failed, or its reply was lost.
NoReply ==
    /\ pc = "request"
    /\ (Done /\ Reliable) \/ Fault
    /\ pc' = "select" /\ reply' = "none"
    /\ UNCHANGED <<since, interval, ticker, result, polls, slowAt,
                   github, now, ctxDone>>

\* The reply was lost and the HTTP client sends the request again.
Retry ==
    /\ pc = "request" /\ reply # "none" /\ ~Done
    /\ reply' = "none" /\ Fault
    /\ UNCHANGED <<pc, since, interval, ticker, result, polls, slowAt,
                   github, now, ctxDone>>

\* The answer is no JSON.
Unreadable ==
    /\ pc = "request" /\ Fault
    /\ Finish("failed")
    /\ UNCHANGED <<github, now, ctxDone>>

Pending ==
    /\ Answered("authorization_pending", "select")
    /\ UNCHANGED <<since, interval, ticker, result, polls, slowAt>>

SlowedDown ==
    /\ Answered("slow_down", "select")
    /\ interval' = interval + SlowDown
    /\ ticker' = Started(interval')
    /\ slowAt' = now
    /\ UNCHANGED <<since, result, polls>>

Granted ==
    /\ Answered("token", "store")
    /\ since' = now
    /\ UNCHANGED <<interval, ticker, result, polls, slowAt>>

Refused ==
    /\ pc = "request"
    /\ \/ reply = "expired_token" /\ Finish("timeout")
       \/ reply = "access_denied" /\ Finish("denied")
       \/ reply = "bad_code"      /\ Finish("failed")
    /\ UNCHANGED <<github, now, ctxDone, faults>>

\* storeCredentials writes with the context of the login, which may be over.
Store ==
    /\ pc = "store"
    /\ \/ ~Done /\ Finish("token") /\ Reliable
       \/ Done /\ Finish("failed") /\ Reliable
       \/ Finish("failed") /\ Fault
    /\ UNCHANGED <<github, now, ctxDone>>

-----------------------------------------------------------------------------
\* GitHub and the user.
Expired == now >= expires

Decide ==
    /\ code = "pending" /\ ~Expired
    /\ code' \in {"approved", "denied"}
    /\ decidedAt' = now
    /\ UNCHANGED <<client, expires, required, last, now, ctxDone, faults>>

\* The token endpoint.  A request that is too early is told so and costs more
\* time from then on; a token is handed out once.
Verdict(r) ==
    \/ code = "used" /\ r = "bad_code"
    \/ code # "used" /\ Expired /\ r = "expired_token"
    \/ ~Expired /\ \/ code = "pending"  /\ r = "authorization_pending"
                   \/ code = "denied"   /\ r = "access_denied"
                   \/ code = "approved" /\ r = "token"

Serve ==
    /\ pc = "request" /\ reply = "none" /\ ~Done
    /\ IF now - last < required
       THEN reply' = "slow_down" /\ required' = required + SlowDown /\ UNCHANGED code
       ELSE /\ \E r \in Replies : Verdict(r) /\ reply' = r
            /\ code' = IF reply' = "token" THEN "used" ELSE code
            /\ UNCHANGED required
    /\ last' = now
    /\ UNCHANGED <<pc, since, interval, ticker, result, polls, slowAt,
                   expires, decidedAt, now, ctxDone, faults>>

-----------------------------------------------------------------------------
Client ==
    \/ RequestCode \/ RequestCodeFails
    \/ TimedOut \/ Poll \/ NoReply \/ Retry \/ Unreadable
    \/ Pending \/ SlowedDown \/ Granted \/ Refused \/ Store

Returned == pc = "done" /\ UNCHANGED vars

Next == Client \/ Serve \/ Decide \/ Cancel \/ Tick \/ Returned

Spec == Init /\ [][Next]_vars

\* The goroutine of the login runs, requests are answered or given up, and time
\* passes.  The user need not decide.
FairSpec == Spec /\ WF_vars(Client) /\ WF_vars(Serve) /\ WF_vars(Tick)

-----------------------------------------------------------------------------
\* Properties.

\* Although a tick that was missed during a slow request is made up for at once,
\* polls are no more frequent than MinPollInterval on the average: the ticker
\* keeps one tick only (pollForToken, time.Ticker).
PollRate == polls * MinInterval <= now

\* After a slow_down the next poll comes no sooner than the whole new interval,
\* even if a tick was already waiting (ticker.Reset in pollForToken).
SlowDownObeyed ==
    [][polls' # polls /\ slowAt # None => now - slowAt >= interval]_vars

\* Unless a reply was lost, a login that goes on waits at least as long between
\* polls as GitHub asks it to, after any number of slow_downs (pollForToken).
IntervalCoversServer ==
    pc = "select" /\ ~Done /\ faults = 0 => interval >= required

\* What the login returns is what became of it: a token only if GitHub has
\* issued one, a denial only if the user denied, a timeout only at the deadline
\* or after the code has expired, and an error only after a fault or at the
\* deadline (the switch of pollForToken, performDeviceCodeFlow).
OutcomeExplained ==
    /\ result = "token"   => code = "used"
    /\ result = "denied"  => code = "denied"
    /\ result = "timeout" => Done \/ Expired
    /\ result = "failed"  => faults > 0 \/ Done

\* A user who decides in good time is never told that the login timed out: the
\* request in progress or the wait for the next one, one that comes too early,
\* the interval after it and the request that brings the decision are all there
\* is between a decision and its arrival (pollForToken).
Smaller(a, b) == IF a < b THEN a ELSE b
DecisionArrives ==
    result = "timeout" /\ decidedAt # None /\ faults = 0
        => Smaller(Timeout, expires) - decidedAt < 2 * (MaxWait + interval)

\* The login returns (the loop of pollForToken).
LoginReturns == <>(pc = "done")

=============================================================================
