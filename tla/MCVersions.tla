------------------------------ MODULE MCVersions ------------------------------
(***************************************************************************)
(* Instances of Versions for TLC: requests of a kind are interchangeable.  *)
(***************************************************************************)
EXTENDS Versions, FiniteSets, TLC

Symmetry ==
  Permutations(Manuals) \cup Permutations(Imports) \cup Permutations(Removals)
    \cup Permutations(Starts) \cup Permutations(Edits)

CONSTANT MaxServed      \* bound: requests the API is asked in one behaviour

Served == Cardinality({r \in Requests : ~At(r, "new")}) <= MaxServed
=============================================================================
