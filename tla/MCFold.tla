------------------------------- MODULE MCFold -------------------------------
(* Small instances of Fold for TLC. *)
EXTENDS Fold

CONSTANTS a, b, c

\* Two recipes that share a path, and one that is only ever ingested.
MCAnchors == a :> <<"p">> @@ b :> <<"p">> @@ c :> <<>>
Symmetry == Permutations({a, b})
=============================================================================
