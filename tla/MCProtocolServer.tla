------------------------- MODULE MCProtocolServer -------------------------
(***************************************************************************)
(* ProtocolServer on small instances.                                      *)
(***************************************************************************)
EXTENDS ProtocolServer, TLC

\* Clients, texts and deltas are interchangeable.
Symmetry ==
    Permutations(Client) \cup Permutations(Text) \cup Permutations(DeltaText)
=============================================================================
