-------------------------------- MODULE MCNFT --------------------------------
(***************************************************************************)
(* Instances of NFT for TLC.                                               *)
(***************************************************************************)
EXTENDS NFT

CONSTANTS a1, a2, a3

\* A range, ranges that cut it at its front, in its middle and at its end, and
\* one that leaves a gap.
MCDataRanges == {<<1, 3>>, <<1, 1>>, <<2, 2>>, <<3, 4>>}
=============================================================================
