---------------------------- MODULE MCSettlement ----------------------------
(***************************************************************************)
(* Small instances of Settlement.                                          *)
(***************************************************************************)
EXTENDS Settlement, TLC

CONSTANTS p, q, s1, s2, b1, b2

MM == 9

Sell(pair, wallet, amount, limit) ==
  [pair |-> pair, side |-> "sell", wallet |-> wallet, amount |-> amount, limit |-> limit]

Buy(pair, wallet, amount, limit) ==
  [pair |-> pair, side |-> "buy", wallet |-> wallet, amount |-> amount, limit |-> limit]

\* A quote of the market maker and two buyers, who together ask for more than
\* it offers.
MCTerms == s1 :> Sell(p, MM, 2, 10) @@ b1 :> Buy(p, 1, 2, 11) @@ b2 :> Buy(p, 2, 1, 10)

\* One quote and one buyer.
MCSmallTerms == s1 :> Sell(p, MM, 2, 10) @@ b1 :> Buy(p, 1, 2, 11)

\* A quote and a buyer on one pair; a seller, and a buyer who posts under the
\* bot's wallet, on another.
MCPairTerms ==
  s1 :> Sell(p, MM, 1, 10) @@ b1 :> Buy(p, 1, 1, 10)
    @@ s2 :> Sell(q, 2, 1, 30) @@ b2 :> Buy(q, MM, 1, 30)

\* A fair price below the limit of the quote.
MCSteady == p :> {9}

\* A move of 20 percent, and quotes of their own for two pairs.
MCJumping == p :> {10, 12}
MCPairPrices == p :> {10} @@ q :> {30}

MCSymmetry == Permutations(Cycles)
=============================================================================
