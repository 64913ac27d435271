---------------------------- MODULE MCCsrfTokens ----------------------------
(* Small instances of CsrfTokens for TLC.                                  *)
EXTENDS CsrfTokens, TLC

Symmetry == Permutations(Tabs) \cup Permutations(Tokens)

=============================================================================
