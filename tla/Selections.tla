----------------------------- MODULE Selections -----------------------------
(***************************************************************************)
(* What is left of a sequence at some of its positions.                    *)
(***************************************************************************)
EXTENDS SequencesExt

\* The elements of s whose positions are in I, in their order.
Selected(s, I) == FlattenSeq([i \in DOMAIN s |-> IF i \in I THEN <<s[i]>> ELSE << >>])
=============================================================================
