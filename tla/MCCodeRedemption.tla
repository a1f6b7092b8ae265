-------------------------- MODULE MCCodeRedemption ---------------------------
(* CodeRedemption for TLC: quotes are interchangeable, and so are accounts. *)
EXTENDS CodeRedemption, TLC

Symmetry == Permutations(Quotes) \cup Permutations(Users)

=============================================================================
