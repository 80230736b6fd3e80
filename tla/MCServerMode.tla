---------------------------- MODULE MCServerMode ----------------------------
(* Small instances of ServerMode for TLC. *)
EXTENDS ServerMode, TLC

\* Expired when it comes, no time left, enough to be kept for a while.
SomeLives == {-1, 0, 2}

\* A PAT, and an App whose credential delegated calls use too.
SomeSettings ==
    { [flow |-> "pat", delegated |-> FALSE], [flow |-> "github_app", delegated |-> TRUE] }

Interchangeable == Permutations(Callers)
=============================================================================
