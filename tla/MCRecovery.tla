----------------------------- MODULE MCRecovery -----------------------------
(***************************************************************************)
(* Instances of Recovery for TLC.                                          *)
(***************************************************************************)
EXTENDS Recovery

Simple(id, type, from, to) == [txid |-> id, type |-> type, sender |-> from, receiver |-> to, property |-> 3]

send           == Simple(1, "send", 2, 1)
freeze         == Simple(2, "freeze", 1, 2)
unfreeze       == Simple(3, "unfreeze", 1, 2)
enable         == Simple(4, "enable", 1, 1)
disable        == Simple(5, "disable", 1, 1)
changeissuer   == Simple(6, "changeissuer", 1, 2)
changeback     == Simple(7, "changeissuer", 2, 1)
adddelegate    == Simple(8, "adddelegate", 1, 2)
removedelegate == Simple(9, "removedelegate", 2, 2)
activate   == [txid |-> 10, type |-> "activate", feature |-> "freezenotice", block |-> 3, version |-> 1]
deactivate == [txid |-> 11, type |-> "deactivate", feature |-> "freezenotice"]
activateNewer == [txid |-> 12, type |-> "activate", feature |-> "newer", block |-> 3, version |-> 2]

MCContents ==
  {<<>>, <<send>>, <<enable>>, <<disable>>, <<freeze>>, <<unfreeze>>, <<changeissuer>>, <<adddelegate>>,
   <<removedelegate>>, <<activate>>, <<deactivate>>, <<activateNewer>>,
   <<send, enable>>, <<enable, freeze>>, <<send, changeissuer>>, <<changeissuer, changeback>>,
   <<adddelegate, removedelegate>>, <<activate, send>>}

MCExcluded == {"rescan", "activation", "twice", "delegate", "ahead", "offchain", "deactivation", "authority"}

\* For the restart of a node whose freezes look unauthorized.
MCExcludedButAuthority == MCExcluded \ {"authority"}
=============================================================================
