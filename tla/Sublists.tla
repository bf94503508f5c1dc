-------------------------------- MODULE Sublists -------------------------------
(* Lists that lose some of their elements and keep the order of the others, as *)
(* slices.DeleteFunc and the loops of the code that copy what they keep. It is *)
(* SelectSeq with the condition as a set: what is said of a set can be proved. *)
EXTENDS Naturals, FiniteSets, Sequences

\* The place of position i among the positions P
Place(P, i) == Cardinality({j \in P : j <= i})

\* The elements of s at the positions P
At(s, P) == [k \in 1 .. Cardinality(P) |-> s[CHOOSE i \in P : Place(P, i) = k]]

\* The elements of s that are in S
Only(s, S) == At(s, {i \in DOMAIN s : s[i] \in S})
================================================================================
