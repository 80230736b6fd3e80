------------------------------ MODULE MCCliMode ------------------------------
(* Small instances of CliMode for TLC. *)
EXTENDS CliMode, TLC

AllOps    == {"GetToken", "Login", "AppLogin", "Logout", "Purge", "GetStatus", "List"}
RaceOps   == {"GetToken", "Login"}
RotationOps == {"GetToken", "Login", "Logout"}
PurgeOps  == {"Login", "Purge"}
ListOps   == {"AppLogin", "List"}

\* The clock only moves between calls: a call takes no time compared with the
\* life of a token.  These are behaviours of FairSpec.
BriskNext == (Quiet /\ Tick) \/ \E c \in Callers : Call(c) \/ Step(c) \/ Crash(c)

BriskSpec == Init /\ [][BriskNext]_vars /\ \A c \in Callers : WF_vars(Step(c))

Interchangeable == Permutations(Callers) \cup Permutations(Sessions)
=============================================================================
