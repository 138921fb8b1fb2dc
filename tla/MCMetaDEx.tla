----------------------------- MODULE MCMetaDEx ------------------------------
(***************************************************************************)
(* Instances of MetaDEx for TLC.                                           *)
(***************************************************************************)
EXTENDS MetaDEx, TLC

\* Two traders, each with a token the other has not, and owners of the fee token.
MCSupply ==
  [k \in TallyKey |-> CASE k[3] # BALANCE -> 0
                        [] k[2] = 1 -> k[1]
                        [] OTHER -> IF k \in {<<1, 3, BALANCE>>, <<2, 4, BALANCE>>} THEN 4 ELSE 0]

MCThresholds == [p \in Property |-> 2]

\* Two tokens, so that a trade may cost a fee, and one for the fee token.
MCPairs == {<<3, 4>>, <<4, 3>>, <<1, 3>>}

\* Prices that meet exactly, and ones that have to be rounded: an order may be
\* left over with too little for the next one, or with too little to be sold
\* at its price.
MCTerms == <<3, 4>> :> {<<3, 2>>, <<1, 3>>} @@ <<4, 3>> :> {<<1, 1>>, <<2, 3>>, <<3, 1>>} @@ <<1, 3>> :> {<<1, 1>>}
=============================================================================
