--------------------------- MODULE DeviceFlowProofs ---------------------------
(***************************************************************************)
(* What holds of DeviceFlow for every timeout, interval, increment and     *)
(* lifetime of a device code, and for every budget of faults.              *)
(***************************************************************************)
EXTENDS DeviceFlow, TLAPS

-----------------------------------------------------------------------------
LEMMA TypeInit == Init => TypeOK
<1> SUFFICES ASSUME Init PROVE TypeOK
  OBVIOUS
<1>1. 0 \in 0..Timeout /\ 0 \in Times /\ 0 \in 0..MaxFaults
  BY TimeAssumption, FaultsAssumption DEF Times
<1> QED
  BY <1>1 DEF Init, TypeOK, Replies, None

\* One step per action.
LEMMA TypeNext == TypeOK /\ [Next]_vars => TypeOK'
<1> SUFFICES ASSUME TypeOK, [Next]_vars PROVE TypeOK'
  OBVIOUS
<1> USE TimeAssumption, FaultsAssumption
<1> USE DEF TypeOK, Times, Replies, None, Fault, Reliable, Finish, Answered, client, github
<1>1. CASE RequestCode
  BY <1>1 DEF RequestCode, Started, FirstInterval, Larger
<1>2. CASE RequestCodeFails
  BY <1>2 DEF RequestCodeFails
<1>3. CASE TimedOut
  BY <1>3 DEF TimedOut
<1>4. CASE Poll
  <2>1. ticker' \in [next : Nat, pending : BOOLEAN]
    BY <1>4 DEF Poll
  <2> QED
    BY <1>4, <2>1 DEF Poll
<1>5. CASE NoReply
  BY <1>5 DEF NoReply
<1>6. CASE Retry
  BY <1>6 DEF Retry
<1>7. CASE Unreadable
  BY <1>7 DEF Unreadable
<1>8. CASE Pending
  BY <1>8 DEF Pending
<1>9. CASE SlowedDown
  BY <1>9 DEF SlowedDown, Started
<1>10. CASE Granted
  BY <1>10 DEF Granted
<1>11. CASE Refused
  BY <1>11 DEF Refused
<1>12. CASE Store
  BY <1>12 DEF Store
<1>13. CASE Serve
  BY <1>13 DEF Serve
<1>14. CASE Decide
  BY <1>14 DEF Decide
<1>15. CASE Cancel
  BY <1>15 DEF Cancel
<1>16. CASE Tick
  BY <1>16 DEF Tick, Fires, Done
<1>17. CASE Returned \/ UNCHANGED vars
  BY <1>17 DEF Returned, vars
<1> QED
  BY <1>1, <1>2, <1>3, <1>4, <1>5, <1>6, <1>7, <1>8, <1>9, <1>10, <1>11, <1>12,
     <1>13, <1>14, <1>15, <1>16, <1>17 DEF Next, Client

\* The variables keep their types, and time does not pass the deadline of a
\* login that has not returned (performDeviceCodeFlow under context.WithTimeout).
THEOREM TypeCorrect == Spec => []TypeOK
  BY TypeInit, TypeNext, PTL DEF Spec

-----------------------------------------------------------------------------
(***************************************************************************)
(* The pace of the polls.  The ticker is ahead of the clock by at most one *)
(* interval; every poll so far and the tick that may wait in the channel   *)
(* took an interval each before the period that is running; and neither a  *)
(* waiting tick nor the next one is closer than the interval to a          *)
(* slow_down.                                                              *)
(***************************************************************************)
Spent(n) == n * MinInterval

PaceInv ==
    /\ Spent(polls) <= now
    /\ pc = "code" => slowAt = None /\ polls = 0
    /\ Ticking =>
         /\ MinInterval <= interval
         /\ now < ticker.next /\ ticker.next - interval <= now
         /\ Spent(polls) <= ticker.next - interval
         /\ ticker.pending => Spent(polls + 1) <= ticker.next - interval
         /\ slowAt # None => slowAt + interval <= ticker.next
         /\ slowAt # None /\ ticker.pending => slowAt + interval <= now

LEMMA SpentSteps ==
    \A n \in Nat : /\ Spent(n) \in Nat
                   /\ Spent(n + 1) = Spent(n) + MinInterval
                   /\ Spent(0) = 0
  BY TimeAssumption DEF Spent

LEMMA PaceInit == Init => PaceInv
  BY SpentSteps DEF Init, PaceInv, Ticking

LEMMA PaceNext == TypeOK /\ PaceInv /\ [Next]_vars => PaceInv'
<1> SUFFICES ASSUME TypeOK, PaceInv, [Next]_vars PROVE PaceInv'
  OBVIOUS
<1> USE TimeAssumption
<1>a. /\ Spent(polls) \in Nat /\ Spent(polls + 1) \in Nat
      /\ Spent(polls + 1) = Spent(polls) + MinInterval
      /\ Spent(0) = 0
  BY SpentSteps DEF TypeOK
\* A step that leaves clock, ticker and history alone.
<1>b. ASSUME UNCHANGED <<now, interval, ticker, polls, slowAt>>,
             pc' = pc \/ pc' = "done" \/ pc' = "store" \/ (Ticking /\ Ticking')
      PROVE  PaceInv'
  BY <1>b DEF PaceInv, Ticking, Spent
<1>1. CASE RequestCode
  <2>1. PICK i \in Intervals : /\ interval' = FirstInterval(i)
                               /\ ticker' = Started(FirstInterval(i))
    BY <1>1 DEF RequestCode
  <2>2. interval' \in Nat /\ MinInterval <= interval'
    BY <2>1 DEF FirstInterval, Larger
  <2>3. /\ ticker'.next = now + interval' /\ ticker'.pending = FALSE
        /\ slowAt' = None /\ polls' = 0 /\ now' = now
    BY <1>1, <2>1 DEF RequestCode, Started, PaceInv
  <2> QED
    BY <1>1, <1>a, <2>2, <2>3 DEF RequestCode, PaceInv, TypeOK, Ticking, Spent
<1>2. CASE Poll
  <2>1. /\ ticker'.next = ticker.next /\ ticker'.pending = FALSE
        /\ polls' = polls + 1 /\ Ticking
        /\ UNCHANGED <<now, interval, slowAt>> /\ pc' = "request"
    BY <1>2 DEF Poll, TypeOK, Ticking
  <2>2. Spent(polls + 1) <= ticker.next - interval
    BY <1>2, <2>1 DEF Poll, PaceInv
  <2>3. Spent(polls') = Spent(polls + 1)
    BY <2>1 DEF Spent
  <2> QED
    BY <1>a, <2>1, <2>2, <2>3 DEF PaceInv, TypeOK, Ticking
<1>3. CASE SlowedDown
  <2>1. /\ interval' = interval + SlowDown
        /\ ticker'.next = now + interval' /\ ticker'.pending = FALSE
        /\ slowAt' = now /\ now' = now /\ polls' = polls
        /\ Ticking /\ pc' = "select"
    BY <1>3 DEF SlowedDown, Answered, Started, Ticking
  <2>2. Spent(polls') = Spent(polls)
    BY <2>1 DEF Spent
  <2> QED
    BY <1>a, <2>1, <2>2 DEF PaceInv, TypeOK, Ticking
<1>4. CASE Tick
  <2>1. /\ now' = now + 1 /\ polls' = polls /\ slowAt' = slowAt
        /\ interval' = interval /\ pc' = pc
    BY <1>4 DEF Tick
  <2>2. Spent(polls') = Spent(polls) /\ Spent(polls' + 1) = Spent(polls + 1)
    BY <2>1 DEF Spent
  <2>3. CASE ~Ticking
    BY <1>a, <2>1, <2>2, <2>3 DEF PaceInv, TypeOK, Ticking
  <2>4. CASE Ticking /\ ticker.next # now + 1
    <3>1. ticker' = ticker
      BY <1>4, <2>4 DEF Tick, Fires
    <3> QED
      BY <1>a, <2>1, <2>2, <2>4, <3>1 DEF PaceInv, TypeOK, Ticking
  <2>5. CASE Ticking /\ ticker.next = now + 1
    <3>1. ticker'.next = now + 1 + interval /\ ticker'.pending = TRUE
      BY <1>4, <2>5 DEF Tick, Fires
    <3> QED
      BY <1>a, <2>1, <2>2, <2>5, <3>1 DEF PaceInv, TypeOK, Ticking
  <2> QED
    BY <2>3, <2>4, <2>5
<1>5. CASE TimedOut \/ RequestCodeFails \/ Unreadable \/ Refused \/ Store
  BY <1>5, <1>b DEF TimedOut, RequestCodeFails, Unreadable, Refused, Store, Finish
<1>6. CASE NoReply \/ Retry \/ Pending \/ Granted
  BY <1>6, <1>b DEF NoReply, Retry, Pending, Granted, Answered, Ticking
<1>7. CASE Serve \/ Decide \/ Cancel \/ Returned \/ UNCHANGED vars
  BY <1>7, <1>b DEF Serve, Decide, Cancel, Returned, vars, client
<1> QED
  BY <1>1, <1>2, <1>3, <1>4, <1>5, <1>6, <1>7 DEF Next, Client

\* Polls are no more frequent than MinPollInterval on the average, although a
\* missed tick is made up for at once (pollForToken, time.Ticker).
THEOREM PollRateCorrect == Spec => []PollRate
<1>1. PaceInv => PollRate
  BY DEF PaceInv, PollRate, Spent
<1> QED
  BY <1>1, TypeInit, TypeNext, PaceInit, PaceNext, PTL DEF Spec

\* After a slow_down the next poll waits for the whole new interval
\* (ticker.Reset in pollForToken).
THEOREM SlowDownCorrect == Spec => SlowDownObeyed
<1>1. TypeOK /\ PaceInv /\ [Next]_vars
        => [polls' # polls /\ slowAt # None => now - slowAt >= interval]_vars
  <2> SUFFICES ASSUME TypeOK, PaceInv, Next, polls' # polls, slowAt # None
               PROVE  now - slowAt >= interval
    OBVIOUS
  <2>1. Poll
    BY DEF Next, Client, RequestCode, RequestCodeFails, TimedOut, NoReply, Retry,
           Unreadable, Pending, SlowedDown, Granted, Refused, Store, Serve, Decide,
           Cancel, Tick, Returned, Finish, Answered, vars, client
  <2>2. Ticking /\ ticker.pending
    BY <2>1 DEF Poll, Ticking
  <2> QED
    BY <2>2 DEF PaceInv, TypeOK, None
<1> QED
  BY <1>1, TypeInit, TypeNext, PaceInit, PaceNext, PTL DEF Spec, SlowDownObeyed

-----------------------------------------------------------------------------
(***************************************************************************)
(* Outcomes.  An answer on its way agrees with what GitHub has decided,    *)
(* and a code that has been used has its token on the way or at hand,      *)
(* unless a reply was lost or the login is over.                           *)
(***************************************************************************)
OutcomeInv ==
    /\ OutcomeExplained
    /\ pc # "done" => result = "none"
    /\ reply # "none" => pc = "request"
    /\ pc = "code" => code = "none"
    /\ pc = "store" \/ reply = "token" => code = "used"
    /\ reply = "access_denied" => code = "denied"
    /\ reply = "expired_token" => Expired
    /\ reply = "bad_code" => faults > 0
    /\ code = "used" /\ faults = 0 /\ ~Done =>
         pc \in {"store", "done"} \/ reply = "token"

LEMMA OutcomeInit == Init => OutcomeInv
  BY DEF Init, OutcomeInv, OutcomeExplained

LEMMA OutcomeNext == TypeOK /\ OutcomeInv /\ [Next]_vars => OutcomeInv'
<1> SUFFICES ASSUME TypeOK, OutcomeInv, [Next]_vars PROVE OutcomeInv'
  OBVIOUS
<1> USE FaultsAssumption
<1> USE DEF TypeOK, OutcomeInv, OutcomeExplained, Done, Expired, Fault, Reliable,
            Finish, Answered, github
<1>1. CASE RequestCode
  BY <1>1 DEF RequestCode
<1>2. CASE RequestCodeFails
  BY <1>2 DEF RequestCodeFails
<1>3. CASE TimedOut
  BY <1>3 DEF TimedOut
<1>4. CASE Poll
  BY <1>4 DEF Poll
<1>5. CASE NoReply
  BY <1>5 DEF NoReply
<1>6. CASE Retry
  BY <1>6 DEF Retry
<1>7. CASE Unreadable
  BY <1>7 DEF Unreadable
<1>8. CASE Pending \/ SlowedDown \/ Granted
  BY <1>8 DEF Pending, SlowedDown, Granted
<1>9. CASE Refused
  BY <1>9 DEF Refused
<1>10. CASE Store
  BY <1>10 DEF Store
<1>11. CASE Serve
  BY <1>11 DEF Serve, Verdict
<1>12. CASE Decide
  BY <1>12 DEF Decide, client
<1>13. CASE Cancel
  BY <1>13 DEF Cancel, client
<1>14. CASE Tick
  <2>1. now \in Int /\ expires \in Int /\ Timeout \in Int
    BY TimeAssumption DEF Times
  <2> QED
    BY <1>14, <2>1 DEF Tick
<1>15. CASE Returned \/ UNCHANGED vars
  BY <1>15 DEF Returned, vars, client
<1> QED
  BY <1>1, <1>2, <1>3, <1>4, <1>5, <1>6, <1>7, <1>8, <1>9, <1>10, <1>11, <1>12,
     <1>13, <1>14, <1>15 DEF Next, Client

\* A login returns a token only if GitHub issued one, and an error or a timeout
\* only for a reason (the switch of pollForToken).
THEOREM OutcomeCorrect == Spec => []OutcomeExplained
<1>1. OutcomeInv => OutcomeExplained
  BY DEF OutcomeInv
<1> QED
  BY <1>1, TypeInit, TypeNext, OutcomeInit, OutcomeNext, PTL DEF Spec

-----------------------------------------------------------------------------
\* The interval is what GitHub asks for, or will be once the slow_down on its
\* way has arrived.
BackoffInv ==
    /\ reply # "none" => pc = "request"
    /\ faults = 0 /\ ~Done /\ Ticking =>
         required <= interval + (IF reply = "slow_down" THEN SlowDown ELSE 0)

LEMMA BackoffInit == Init => BackoffInv
  BY DEF Init, BackoffInv, Ticking

LEMMA BackoffNext == TypeOK /\ BackoffInv /\ [Next]_vars => BackoffInv'
<1> SUFFICES ASSUME TypeOK, BackoffInv, [Next]_vars PROVE BackoffInv'
  OBVIOUS
<1> USE TimeAssumption, FaultsAssumption
<1> USE DEF TypeOK, BackoffInv, Done, Ticking, Fault, Reliable, Finish, Answered, github
<1>1. CASE RequestCode
  BY <1>1 DEF RequestCode, FirstInterval, Larger
<1>2. CASE RequestCodeFails \/ TimedOut \/ Unreadable \/ Refused \/ Store
  BY <1>2 DEF RequestCodeFails, TimedOut, Unreadable, Refused, Store
<1>3. CASE Poll
  BY <1>3 DEF Poll
<1>4. CASE NoReply \/ Retry
  BY <1>4 DEF NoReply, Retry
<1>5. CASE Pending \/ Granted
  BY <1>5 DEF Pending, Granted
<1>6. CASE SlowedDown
  BY <1>6 DEF SlowedDown
<1>7. CASE Serve
  BY <1>7 DEF Serve, Verdict
<1>8. CASE Decide \/ Cancel
  BY <1>8 DEF Decide, Cancel, client
<1>9. CASE Tick
  BY <1>9 DEF Tick
<1>10. CASE Returned \/ UNCHANGED vars
  BY <1>10 DEF Returned, vars, client
<1> QED
  BY <1>1, <1>2, <1>3, <1>4, <1>5, <1>6, <1>7, <1>8, <1>9, <1>10 DEF Next, Client

\* The interval of a login that goes on and has lost no reply covers the one that
\* GitHub requires, after any number of slow_downs (pollForToken).
THEOREM IntervalCorrect == Spec => []IntervalCoversServer
<1>1. TypeOK /\ BackoffInv => IntervalCoversServer
  BY DEF TypeOK, BackoffInv, IntervalCoversServer, Ticking
<1> QED
  BY <1>1, TypeInit, TypeNext, BackoffInit, BackoffNext, PTL DEF Spec

-----------------------------------------------------------------------------
(***************************************************************************)
(* How long a decision takes to arrive.  Without a fault the poll that     *)
(* follows a decision, or is in progress then, is answered with it, or is  *)
(* too early; and the poll after a slow_down is never too early.           *)
(***************************************************************************)

\* Requests, answers and decisions in the order of time.
TimingInv ==
    /\ last <= now
    /\ decidedAt # None => decidedAt <= now /\ code \in {"approved", "denied", "used"}
    /\ pc = "request" => since <= now /\ now <= since + MaxWait
    /\ reply # "none" => since <= last
    /\ faults = 0 => ~ctxDone

LEMMA TimingInit == Init => TimingInv
  BY DEF Init, TimingInv

LEMMA TimingNext == TypeOK /\ OutcomeInv /\ TimingInv /\ [Next]_vars => TimingInv'
<1> SUFFICES ASSUME TypeOK, OutcomeInv, TimingInv, [Next]_vars PROVE TimingInv'
  OBVIOUS
<1> USE TimeAssumption, FaultsAssumption
<1>a. /\ now \in Int /\ last \in Int /\ since \in Int /\ decidedAt \in Int /\ faults \in Nat
      /\ reply # "none" => pc = "request"
      /\ pc = "code" => code = "none"
  BY DEF TypeOK, None, OutcomeInv
<1> USE DEF TimingInv, Fault, Reliable, Finish, Answered, github, client
<1>1. CASE RequestCode
  BY <1>a, <1>1 DEF RequestCode
<1>2. CASE RequestCodeFails \/ TimedOut \/ Unreadable \/ Refused \/ Store
  BY <1>a, <1>2 DEF RequestCodeFails, TimedOut, Unreadable, Refused, Store
<1>3. CASE Poll
  BY <1>a, <1>3 DEF Poll
<1>4. CASE NoReply \/ Retry \/ Pending \/ SlowedDown \/ Granted
  BY <1>a, <1>4 DEF NoReply, Retry, Pending, SlowedDown, Granted
<1>5. CASE Serve
  BY <1>a, <1>5 DEF Serve
<1>6. CASE Decide
  BY <1>a, <1>6 DEF Decide
<1>7. CASE Cancel
  BY <1>a, <1>7 DEF Cancel
<1>8. CASE Tick
  BY <1>a, <1>8 DEF Tick
<1>9. CASE Returned \/ UNCHANGED vars
  BY <1>a, <1>9 DEF Returned, vars
<1> QED
  BY <1>1, <1>2, <1>3, <1>4, <1>5, <1>6, <1>7, <1>8, <1>9 DEF Next, Client

\* A poll at t is answered with the decision, or comes so early after it that
\* another interval is still in time.
Soon(t) ==
    \/ required <= t - last /\ t - decidedAt < MaxWait + 2 * interval
    \/ t - decidedAt < interval

\* Where a decision is on its way: what has been spent of two requests and two
\* intervals, wherever the login is.
DecisionInv == faults = 0 /\ decidedAt # None /\ Ticking =>
    /\ now - decidedAt < 2 * (MaxWait + interval)
    /\ ~Done /\ pc = "select" => Soon(IF ticker.pending THEN now ELSE ticker.next)
    /\ ~Done /\ pc = "request" =>
         /\ reply = "none" => Soon(since)
         /\ reply = "slow_down" => since - decidedAt < interval
         /\ reply = "authorization_pending" => last <= decidedAt
         /\ reply \notin {"none", "slow_down", "authorization_pending"} =>
              since - decidedAt < MaxWait + 2 * interval

\* What holds after a step.
SoonAfter(t) ==
    \/ required' <= t - last' /\ t - decidedAt' < MaxWait + 2 * interval'
    \/ t - decidedAt' < interval'

\* Without a fault the context is over at the deadline only.
LEMMA Unfailing ==
    ASSUME TypeOK, TimingInv, [Next]_vars, faults' = 0
    PROVE  /\ faults = 0 /\ (Done <=> Timeout <= now) /\ UNCHANGED ctxDone
           /\ Done' <=> Timeout <= now'
<1>1. faults \in Nat /\ (faults = 0 => ctxDone = FALSE)
  BY FaultsAssumption DEF TypeOK, TimingInv
<1>2. faults = 0 /\ UNCHANGED ctxDone
  BY <1>1
  DEF Next, Client, RequestCode, RequestCodeFails, TimedOut, Poll, NoReply, Retry, Unreadable,
      Pending, SlowedDown, Granted, Refused, Store, Serve, Decide, Cancel, Tick, Returned,
      Answered, vars, Fault, Reliable
<1>3. now \in Int /\ now' \in Int /\ Timeout \in Int
  BY TypeNext, TimeAssumption DEF TypeOK
<1> QED
  BY <1>1, <1>2, <1>3 DEF Done

LEMMA DecisionInit == Init => DecisionInv
  BY DEF Init, DecisionInv, Ticking

LEMMA DecisionNext ==
    /\ TypeOK /\ OutcomeInv /\ PaceInv /\ BackoffInv /\ TimingInv /\ DecisionInv
    /\ [Next]_vars
    => DecisionInv'
<1> SUFFICES ASSUME TypeOK, OutcomeInv, PaceInv, BackoffInv, TimingInv, DecisionInv,
                    [Next]_vars, faults' = 0, decidedAt' # None, Ticking'
             PROVE  /\ now' - decidedAt' < 2 * (MaxWait + interval')
                    /\ ~Done' /\ pc' = "select" =>
                         SoonAfter(IF ticker'.pending THEN now' ELSE ticker'.next)
                    /\ ~Done' /\ pc' = "request" =>
                         /\ reply' = "none" => SoonAfter(since')
                         /\ reply' = "slow_down" => since' - decidedAt' < interval'
                         /\ reply' = "authorization_pending" => last' <= decidedAt'
                         /\ reply' \notin {"none", "slow_down", "authorization_pending"} =>
                              since' - decidedAt' < MaxWait + 2 * interval'
  BY DEF DecisionInv, Soon, SoonAfter
<1>a. /\ now \in Int /\ since \in Int /\ interval \in Nat /\ last \in Int
      /\ required \in Int /\ decidedAt \in Int /\ Timeout \in Int
      /\ ticker.next \in Int /\ ticker.pending \in BOOLEAN
      /\ MaxWait \in Nat \ {0} /\ MinInterval \in Nat \ {0} /\ SlowDown \in Nat \ {0}
  BY TimeAssumption DEF TypeOK, None
<1>b. /\ faults = 0 /\ (Done <=> Timeout <= now) /\ (Done' <=> Timeout <= now')
  BY Unfailing
<1>c. Ticking => MinInterval <= interval /\ now < ticker.next /\ ticker.next - interval <= now
  BY DEF PaceInv
<1>d. /\ last <= now
      /\ pc = "request" => since <= now /\ now <= since + MaxWait
      /\ reply # "none" => since <= last /\ pc = "request"
      /\ decidedAt # None => decidedAt <= now /\ code # "pending" /\ code # "none"
      /\ pc = "code" => code = "none"
  BY DEF TimingInv, OutcomeInv
<1>e. ~Done /\ Ticking => required <= interval + (IF reply = "slow_down" THEN SlowDown ELSE 0)
  BY <1>b DEF BackoffInv
<1>1. CASE RequestCode
  BY <1>1, <1>d DEF RequestCode
<1>2. CASE RequestCodeFails \/ TimedOut \/ Unreadable \/ Refused \/ Store \/ Granted
  BY <1>2
  DEF RequestCodeFails, TimedOut, Unreadable, Refused, Store, Granted, Finish, Answered, Ticking
<1>3. CASE Poll
  <2>1. /\ pc = "select" /\ ticker.pending /\ pc' = "request" /\ since' = now /\ reply' = "none"
        /\ UNCHANGED <<now, interval, last, required, decidedAt>>
    BY <1>3 DEF Poll, OutcomeInv, github
  <2>2. now - decidedAt < 2 * (MaxWait + interval) /\ (~Done => Soon(now))
    BY <1>b, <2>1 DEF DecisionInv, Ticking
  <2> QED
    BY <1>b, <2>1, <2>2 DEF Soon, SoonAfter
\* The answer is given up at the deadline only.
<1>4. CASE NoReply \/ Retry
  <2>1. /\ pc = "request" /\ Done /\ pc' = "select" /\ UNCHANGED <<now, interval, decidedAt>>
    BY <1>a, <1>b, <1>4 DEF NoReply, Retry, Fault, github
  <2> QED
    BY <1>b, <2>1 DEF DecisionInv, Ticking
\* The decision came after this answer was given.
<1>5. CASE Pending
  <2>1. /\ pc = "request" /\ reply = "authorization_pending" /\ pc' = "select"
        /\ UNCHANGED <<now, interval, ticker, last, required, decidedAt>>
    BY <1>5 DEF Pending, Answered, github
  <2>2. now - decidedAt < 2 * (MaxWait + interval)
    BY <1>b, <2>1 DEF DecisionInv, Ticking
  <2>3. ASSUME ~Done
        PROVE  SoonAfter(IF ticker.pending THEN now ELSE ticker.next)
    <3>1. last <= decidedAt
      BY <1>b, <2>1, <2>3 DEF DecisionInv, Ticking
    <3>2. since <= decidedAt /\ now <= decidedAt + MaxWait /\ required <= interval
      BY <1>a, <1>d, <1>e, <2>1, <2>3, <3>1 DEF Ticking
    <3>3. ASSUME NEW t \in Int, t <= now + interval
          PROVE  t - last >= required \/ t - decidedAt < interval
      BY <1>a, <3>1, <3>2, <3>3
    <3>4. ASSUME NEW t \in Int, t <= now + interval
          PROVE  t - decidedAt < MaxWait + 2 * interval
      BY <1>a, <1>c, <2>1, <3>2, <3>4 DEF Ticking
    <3>5. now <= now + interval /\ ticker.next <= now + interval
      BY <1>a, <1>c, <2>1 DEF Ticking
    <3> QED
      BY <1>a, <2>1, <3>3, <3>4, <3>5 DEF SoonAfter
  <2> QED
    BY <1>b, <2>1, <2>2, <2>3
\* The next poll is not too early.
<1>6. CASE SlowedDown
  <2>1. /\ pc = "request" /\ reply = "slow_down" /\ pc' = "select"
        /\ interval' = interval + SlowDown
        /\ ticker'.next = now + interval' /\ ticker'.pending = FALSE
        /\ UNCHANGED <<now, last, required, decidedAt>>
    BY <1>6 DEF SlowedDown, Answered, Started, github
  <2>2. now - decidedAt < 2 * (MaxWait + interval)
    BY <1>b, <2>1 DEF DecisionInv, Ticking
  <2>3. ASSUME ~Done PROVE SoonAfter(ticker'.next)
    <3>1. since - decidedAt < interval
      BY <1>b, <2>1, <2>3 DEF DecisionInv, Ticking
    <3>2. required <= interval' /\ now <= since + MaxWait /\ last <= now
      BY <1>d, <1>e, <2>1, <2>3 DEF Ticking
    <3> QED
      BY <1>a, <2>1, <3>1, <3>2 DEF SoonAfter
  <2> QED
    BY <1>a, <1>b, <2>1, <2>2, <2>3
\* A poll that is not too early is answered with the decision.
<1>7. CASE Serve
  <2>1. /\ pc = "request" /\ reply = "none" /\ ~Done /\ pc' = "request" /\ last' = now
        /\ UNCHANGED <<now, interval, since, ticker, decidedAt>>
    BY <1>7 DEF Serve
  <2>2. now - decidedAt < 2 * (MaxWait + interval) /\ Soon(since)
    BY <1>b, <2>1 DEF DecisionInv, Ticking
  <2>3. CASE now - last < required
    <3>1. reply' = "slow_down"
      BY <1>7, <2>3 DEF Serve
    <3>2. since - decidedAt < interval
      BY <1>a, <1>d, <2>1, <2>2, <2>3 DEF Soon
    <3> QED
      BY <2>1, <2>2, <3>1, <3>2
  <2>4. CASE ~(now - last < required)
    <3>1. reply' \notin {"none", "slow_down", "authorization_pending"}
      BY <1>7, <1>d, <2>1, <2>4 DEF Serve, Verdict, Replies
    <3>2. since - decidedAt < MaxWait + 2 * interval
      BY <1>a, <2>2 DEF Soon
    <3> QED
      BY <2>1, <2>2, <3>1, <3>2
  <2> QED
    BY <2>3, <2>4
<1>8. CASE Decide
  <2>1. /\ decidedAt' = now /\ code = "pending" /\ now < expires
        /\ UNCHANGED <<pc, reply, since, ticker, now, interval, last, required>>
    BY <1>8 DEF Decide, Expired, client, TypeOK, Times
  <2>2. reply \in {"none", "slow_down", "authorization_pending"}
    BY <1>b, <2>1 DEF OutcomeInv, TypeOK, Replies, Expired, Times
  <2>3. interval > 0
    BY <1>a, <1>c, <2>1 DEF Ticking
  <2>4. ASSUME ~Done, pc = "select"
        PROVE  SoonAfter(IF ticker.pending THEN now ELSE ticker.next)
    <3>1. required <= interval /\ ticker.next <= now + interval
      BY <1>a, <1>c, <1>d, <1>e, <2>4 DEF Ticking
    <3> QED
      BY <1>a, <1>d, <2>1, <2>3, <3>1 DEF SoonAfter
  <2>5. pc = "request" => SoonAfter(since) /\ since - now < interval
    BY <1>a, <1>d, <2>1, <2>3 DEF SoonAfter
  <2> QED
    BY <1>a, <1>b, <1>d, <2>1, <2>2, <2>3, <2>4, <2>5
<1>9. CASE Tick
  <2>1. /\ ~Done /\ ~Ready /\ now' = now + 1 /\ Ticking
        /\ ticker' = Fires(now + 1)
        /\ UNCHANGED <<pc, reply, since, interval, last, required, decidedAt>>
    BY <1>9 DEF Tick, Ticking, github
  <2>2. CASE pc = "select"
    <3>1. ticker.pending = FALSE
      BY <1>a, <2>1, <2>2 DEF Ready
    <3>2. Soon(ticker.next)
      BY <1>b, <2>1, <2>2, <3>1 DEF DecisionInv
    <3>3. now + 1 <= ticker.next
      BY <1>a, <1>c, <2>1
    <3>4. (IF ticker'.pending THEN now' ELSE ticker'.next) = ticker.next
      BY <2>1, <3>1 DEF Fires
    <3> QED
      BY <1>a, <2>1, <2>2, <3>2, <3>3, <3>4 DEF Soon, SoonAfter
  <2>3. CASE pc = "request"
    <3>1. now + 1 <= since + MaxWait
      BY <1>9, <1>a, <2>3 DEF Tick
    <3>2. since - decidedAt < MaxWait + 2 * interval
      BY <1>a, <1>b, <1>c, <1>d, <2>1, <2>3 DEF DecisionInv, Soon
    <3>3. /\ reply = "none" => Soon(since)
          /\ reply = "slow_down" => since - decidedAt < interval
          /\ reply = "authorization_pending" => last <= decidedAt
      BY <1>b, <2>1, <2>3 DEF DecisionInv
    <3> QED
      BY <1>a, <2>1, <2>3, <3>1, <3>2, <3>3 DEF Soon, SoonAfter
  <2> QED
    BY <2>1, <2>2, <2>3 DEF Ticking
<1>10. CASE Cancel
  BY <1>b, <1>10 DEF Cancel, Fault
<1>11. CASE Returned \/ UNCHANGED vars
  <2>1. UNCHANGED <<now, pc, reply, since, ticker, interval, last, required, decidedAt>>
    BY <1>11 DEF Returned, vars, client, github
  <2> QED
    BY <1>b, <2>1 DEF DecisionInv, Ticking, Soon, SoonAfter
<1> QED
  BY <1>1, <1>2, <1>3, <1>4, <1>5, <1>6, <1>7, <1>8, <1>9, <1>10, <1>11 DEF Next, Client

LEMMA ArrivesInit == Init => DecisionArrives
  BY DEF Init, DecisionArrives

\* A login that ends by the deadline had not waited longer than that.
LEMMA ArrivesNext ==
    /\ TypeOK /\ OutcomeInv /\ TimingInv /\ DecisionInv /\ DecisionArrives
    /\ [Next]_vars
    => DecisionArrives'
<1> SUFFICES ASSUME TypeOK, OutcomeInv, TimingInv, DecisionInv, DecisionArrives, [Next]_vars,
                    result' = "timeout", decidedAt' # None, faults' = 0
             PROVE  Smaller(Timeout, expires') - decidedAt' < 2 * (MaxWait + interval')
  BY DEF DecisionArrives
<1>a. /\ now \in Int /\ interval \in Nat /\ decidedAt \in Int /\ Timeout \in Int
      /\ expires \in Int /\ MaxWait \in Nat \ {0}
  BY TimeAssumption DEF TypeOK, None, Times
<1>b. faults = 0 /\ (Done <=> Timeout <= now)
  BY Unfailing
<1>1. CASE result = "timeout" /\ UNCHANGED <<expires, decidedAt, interval>>
  BY <1>b, <1>1 DEF DecisionArrives
<1>2. CASE TimedOut \/ Refused
  <2>1. /\ Ticking /\ UNCHANGED <<expires, decidedAt, interval>>
        /\ Done \/ Expired
    BY <1>2 DEF TimedOut, Refused, Finish, Ticking, github, OutcomeInv
  <2>2. now - decidedAt < 2 * (MaxWait + interval)
    BY <1>b, <2>1 DEF DecisionInv
  <2>3. Timeout <= now \/ expires <= now
    BY <1>a, <1>b, <2>1 DEF Expired
  <2> QED
    BY <1>a, <2>1, <2>2, <2>3 DEF Smaller
<1>3. CASE Decide
  <2>1. result = "timeout" /\ decidedAt' = now /\ ~Expired /\ UNCHANGED <<expires, interval>>
    BY <1>3 DEF Decide, client
  <2>2. Timeout <= now
    BY <1>b, <2>1 DEF OutcomeInv, OutcomeExplained
  <2> QED
    BY <1>a, <2>1, <2>2 DEF Smaller
<1>4. CASE ~TimedOut /\ ~Refused /\ ~Decide
  <2>1. result = "timeout"
    BY <1>4
    DEF Next, Client, RequestCode, RequestCodeFails, Poll, NoReply, Retry, Unreadable,
        Pending, SlowedDown, Granted, Store, Serve, Cancel, Tick, Returned, Finish, vars, client
  <2>2. pc = "done"
    BY <2>1 DEF OutcomeInv
  <2>3. UNCHANGED <<expires, decidedAt, interval>>
    BY <1>4, <2>2
    DEF Next, Client, RequestCode, RequestCodeFails, Poll, NoReply, Retry, Unreadable,
        Pending, SlowedDown, Granted, Store, Serve, Cancel, Tick, Returned, Answered,
        vars, client, github
  <2> QED
    BY <1>1, <2>1, <2>3
<1> QED
  BY <1>2, <1>3, <1>4

\* A decision made two intervals and two requests before the deadline arrives
\* before it, whatever a slow_down costs (pollForToken).
THEOREM DecisionCorrect == Spec => []DecisionArrives
  BY TypeInit, TypeNext, PaceInit, PaceNext, OutcomeInit, OutcomeNext, BackoffInit, BackoffNext,
     TimingInit, TimingNext, DecisionInit, DecisionNext, ArrivesInit, ArrivesNext, PTL DEF Spec
=============================================================================
