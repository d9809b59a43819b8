------------------------------ MODULE Sublists ------------------------------
(***************************************************************************)
(* The part of a sequence that lies in a set, by rank: what `filter` makes *)
(* of a list of cards, of efforts or of permission modes.                  *)
(***************************************************************************)
EXTENDS Naturals, SequencesExt, FiniteSetsExt

Kept(s, set) ==
    LET at == {k \in DOMAIN s : s[k] \in set}
        Rank(k) == Cardinality({l \in at : l <= k})
    IN [n \in 1..Cardinality(at) |-> s[CHOOSE k \in at : Rank(k) = n]]
=============================================================================
