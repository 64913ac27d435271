------------------------- MODULE MCSessionHandlers -------------------------
(* Small instances of SessionHandlers for TLC.                             *)
EXTENDS SessionHandlers, TLC

Symmetry == Permutations(Tokens) \cup Permutations(Handlers)
               \cup Permutations(Users)

=============================================================================
