----------------------------- MODULE MCProfiles -----------------------------
(* Small instances of Profiles for TLC. *)
EXTENDS Profiles, TLC

\* The default profile, two named ones, and two that validateProfile refuses.
PlainProfiles == {<<>>, <<"work">>, <<"home">>, <<"work", "token">>, <<"a/b">>}

\* The default profile beside one named like a part of the names of secrets.
NestedProfiles == {<<>>, <<"token">>, <<"token", "work">>, <<"a/b">>}

SomeParts ==
    { "refresh_token", "access_token", "metadata", "token", "host", "app",
      "work", "home", "a/b" }
SomeSeparators == {"a/b"}

Interchangeable == Permutations(Callers)
=============================================================================
