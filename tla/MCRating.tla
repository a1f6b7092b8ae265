------------------------------ MODULE MCRating ------------------------------
(* Model values for Rating: purchases, memos and runs are interchangeable. *)
EXTENDS Rating, TLC

CONSTANTS a, b, rated, one, two

Alike == Permutations(Purchases) \union Permutations(Memos) \union Permutations(Runs)

=============================================================================
