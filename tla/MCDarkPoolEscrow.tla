-------------------------- MODULE MCDarkPoolEscrow --------------------------
(***************************************************************************)
(* A small escrow: two traders, two tokens, and a fee of one half rounded  *)
(* down, so that a fill of 1 pays no fee and a fill of 2 pays 1.           *)
(***************************************************************************)
EXTENDS DarkPoolEscrow, TLC

\* Tokens, swap ids and signers are interchangeable: every action treats them
\* alike and no property singles one out.
MCSymmetry ==
  Permutations(Tokens) \union Permutations(SwapIds) \union Permutations(Signers)
=============================================================================
