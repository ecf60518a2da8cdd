------------------------- MODULE MCAccountRepository -------------------------
(* Names are interchangeable: nothing orders them. *)
EXTENDS AccountRepository, TLC

Symmetry == Permutations(Names)

=============================================================================
