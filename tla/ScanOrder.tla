----------------------------- MODULE ScanOrder -----------------------------
(***************************************************************************)
(* The order in which a loop over slots or pins visits the members of a    *)
(* set of them: SetToSortSeq(S, <) of the community modules, in a form     *)
(* that proofs can unfold.                                                 *)
(***************************************************************************)
EXTENDS Naturals, FiniteSets

\* The members of S, lowest first.
Upwards(S) ==
    CHOOSE s \in [1..Cardinality(S) -> S] :
        \A i, j \in 1..Cardinality(S) : i < j => s[i] < s[j]
=============================================================================
