----------------------------- MODULE TokenSource -----------------------------
(***************************************************************************)
(* What server mode promises to those who ask it for a token, whatever it  *)
(* keeps in between: a token belongs to the credential that was configured *)
(* when the caller asked, and it either has not expired or was obtained    *)
(* for this call.                                                          *)
(***************************************************************************)
EXTENDS Integers

CONSTANTS
    Callers,    \* concurrent calls of GetToken
    Modes,      \* activations of server mode, numbered from 1; 0 is none
    Delay,      \* how long before a call a token may have been obtained for it
    None,
    Error

VARIABLES
    now,        \* the clock
    mode,       \* the activation in force
    asked,      \* the activation each call asked, 0 if there is no call
    since,      \* when it asked
    answer      \* what the last step answered: a token, Error, or None

vars == <<now, mode, asked, since, answer>>

Tokens == [mode : Modes, got : Nat, expires : Int]

Init ==
    /\ now = 0
    /\ mode = 0
    /\ asked = [c \in Callers |-> 0]
    /\ since = [c \in Callers |-> 0]
    /\ answer = [c \in Callers |-> None]

\* A token that had no lifetime left when it arrived is kept as one without
\* expiry: the promise does not cover it.
Honest(t, c) ==
    /\ t.mode = asked[c]
    /\ \/ now < t.expires
       \/ since[c] <= t.got + Delay
       \/ t.expires = t.got

Silent == answer' = [c \in Callers |-> None]

Ask(c) ==
    /\ asked[c] = 0
    /\ mode # 0
    /\ asked' = [asked EXCEPT ![c] = mode]
    /\ since' = [since EXCEPT ![c] = now]
    /\ Silent
    /\ UNCHANGED <<now, mode>>

\* Calls that share a fetch get its result together: a token, or an error.
\* Nobody may get an answer at all.
Answer(C) ==
    /\ \A c \in C :
        /\ asked[c] # 0
        /\ \/ answer'[c] = Error
           \/ answer'[c] \in Tokens /\ Honest(answer'[c], c)
    /\ \A c \in Callers \ C : answer'[c] = None
    /\ answer' = [c \in Callers |-> answer'[c]]
    /\ asked' = [c \in Callers |-> IF c \in C THEN 0 ELSE asked[c]]
    /\ since' = [c \in Callers |-> IF c \in C THEN 0 ELSE since[c]]
    /\ UNCHANGED <<now, mode>>

Switch ==
    /\ mode' \in Modes
    /\ Silent
    /\ UNCHANGED <<now, asked, since>>

Tick ==
    /\ now' = now + 1
    /\ Silent
    /\ UNCHANGED <<mode, asked, since>>

Next ==
    \/ \E c \in Callers : Ask(c)
    \/ \E C \in SUBSET Callers : Answer(C)
    \/ Switch
    \/ Tick

Spec == Init /\ [][Next]_vars
=============================================================================
