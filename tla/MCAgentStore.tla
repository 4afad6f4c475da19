--------------------------- MODULE MCAgentStore ---------------------------
(***************************************************************************)
(* AgentStore on small instances.                                          *)
(***************************************************************************)
EXTENDS AgentStore, TLC

\* Agents of one kind are interchangeable, and so are texts.
Symmetry ==
    Permutations(Wrapper) \cup Permutations(Loop) \cup Permutations(Handler)
    \cup Permutations(Text) \cup Permutations(DeltaText)
=============================================================================
