------------------------- MODULE MCStatelessServer -------------------------
(***************************************************************************)
(* StatelessServer on small instances.                                     *)
(***************************************************************************)
EXTENDS StatelessServer, TLC

\* Threads, texts and deltas are interchangeable.
Symmetry ==
    Permutations(Thread) \cup Permutations(Text) \cup Permutations(DeltaText)
=============================================================================
