---------------------------- MODULE MCOmsRestart ----------------------------
(* One order of a spot instrument, an OMS that may crash once.              *)
EXTENDS OmsRestart, TLC

SpotMeta == [bk |-> TRUE, bc |-> TRUE, um |-> FALSE, max |-> NoMax, lot |-> 1, fund |-> 1, pos |-> 2]
McMeta == "spot" :> SpotMeta
McRequests == {[acct |-> "a", inst |-> "spot", buy |-> TRUE, qty |-> 2, price |-> 1]}
McRefOf == 1 :> "r1"
Cash == {[acct |-> "a", spot |-> TRUE, target |-> 1, qty |-> 2, avail |-> 2, short |-> FALSE]}
=============================================================================
