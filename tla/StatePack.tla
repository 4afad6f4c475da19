----------------------------- MODULE StatePack -----------------------------
(***************************************************************************)
(* Vocabulary shared by the modules of this project.                       *)
(*                                                                         *)
(* State Pack names a model state (a KV cache) by a SHA-256 digest: of the *)
(* base text, for a state made by CREATE, and of "parent|digest of delta"  *)
(* for a state made from another one.  SHA-256 is taken to be injective,   *)
(* so an address is represented by what was hashed, the base text and the  *)
(* deltas folded into it since.                                            *)
(***************************************************************************)
EXTENDS Naturals, Sequences, FiniteSets

CONSTANTS
    Text,        \* base texts
    DeltaText,   \* delta texts
    MaxChain     \* bound: deltas folded into one base text

ASSUME MaxChainAssumption == MaxChain \in Nat

\* The digest chains of at most MaxChain deltas.
Chain == UNION { [1..n -> DeltaText] : n \in 0..MaxChain }

Addr == [base : Text, chain : Chain]

\* sha256(base text)
BaseAddr(t) == [base |-> t, chain |-> << >>]

\* A delta can be folded into h within the bound MaxChain.
CanExtend(h) == Len(h.chain) < MaxChain

\* sha256(h | sha256(d))
MergedAddr(h, d) == [base |-> h.base, chain |-> Append(h.chain, d)]

=============================================================================
