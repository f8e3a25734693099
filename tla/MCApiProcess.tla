----------------------------- MODULE MCApiProcess -----------------------------
(* TLC instance of ApiProcess: signing keys around the shortest one that is *)
(* accepted, numbers below, at and above zero, lists with a blank entry.    *)
EXTENDS ApiProcess

MCKeyLengths  == {KeyBytes - 1, KeyBytes}
MCNumbers     == {-1, 0, 5}
MCBrokerLists == {{BlankEntry}, {Text, BlankEntry}}
=============================================================================
