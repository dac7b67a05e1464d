----------------------------- MODULE MCSimBase -----------------------------
(* Checks SimBase on small sets of goroutines.                             *)
EXTENDS SimBase, TLC

\* Sound for the safety runs: no operator tells one goroutine of a kind, or one
\* connection slot, from another.
Symmetry == Permutations(Callers) \cup Permutations(Loops) \cup Permutations(Conns)
            \cup Permutations(Senders)
=============================================================================
