--------------------------- MODULE MCPacketStore ---------------------------
(***************************************************************************)
(* PacketStore on small instances.                                         *)
(***************************************************************************)
EXTENDS PacketStore, TLC

\* Processes of one kind, complete blobs, and base texts are interchangeable.
Symmetry ==
    Permutations(CliProc) \cup Permutations(PyProc) \cup Permutations(Variant)
    \cup Permutations(Text)
=============================================================================
