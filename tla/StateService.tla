---------------------------- MODULE StateService ----------------------------
(***************************************************************************)
(* What the stateless server promises its clients: "The same state_hash    *)
(* from any client always returns the same result."  A state hash that was *)
(* returned once stands for the same KV cache from then on: the base text, *)
(* and each delta run on what the hash before it stands for.               *)
(***************************************************************************)
EXTENDS Sequences

CONSTANTS
    Text,       \* base texts
    DeltaText   \* delta texts

\* A hash, by the text and deltas that were hashed, and a KV cache, by the
\* text it was computed from.
Kv == [base : Text, deltas : Seq(DeltaText)]
Base(t) == [base |-> t, deltas |-> << >>]
With(s, d) == [base |-> s.base, deltas |-> Append(s.deltas, d)]

VARIABLE value   \* what the hashes returned so far stand for

Init == value = << >>

\* The hash s is returned; it stands for kv.
Return(s, kv) ==
    value' = [u \in DOMAIN value \cup {s} |-> IF u = s THEN kv ELSE value[u]]

\* POST /states; POST /infer and /merge.
Create(t) == Return(Base(t), Base(t))
Extend(s, d) == s \in DOMAIN value /\ Return(With(s, d), With(value[s], d))

Next ==
    \/ \E t \in Text : Create(t)
    \/ \E s \in DOMAIN value, d \in DeltaText : Extend(s, d)

Spec == Init /\ [][Next]_value

\* The server is killed now and then: what some hashes stand for is lost, and
\* requests that name them fail until it is made again in the same way.
Lose(kept) == value' = [u \in kept |-> value[u]]

LossySpec ==
    Init /\ [][Next \/ \E kept \in SUBSET DOMAIN value : Lose(kept)]_value
=============================================================================
