----------------------------- MODULE MCFeeCache -----------------------------
(***************************************************************************)
(* Instances of FeeCache for TLC.                                          *)
(***************************************************************************)
EXTENDS FeeCache

\* Balances of the fee token and of one other property.
Ledger(fee, other) ==
  [k \in TallyKey |-> IF k[3] # BALANCE THEN 0
                      ELSE IF k[2] = COUNOS_PROPERTY_MSC THEN fee[k[1]] ELSE other[k[1]]]

\* The first address is the Exodus address.
MCInitial == {Ledger(<<1, 4, 2>>, <<0, 3, 1>>)}

\* A negative one for a block with an earlier time stamp.
MCDelta == {-1, 1}

MCFeePerOwner == [version \in {0, 1} |-> 1]
=============================================================================
