---------------------------- MODULE MCOmsSystem ----------------------------
(* Small instances of OmsSystem: two client orders of up to two lots on a   *)
(* fully checked spot instrument.                                           *)
EXTENDS OmsSystem, TLC

SpotMeta == [bk |-> TRUE, bc |-> TRUE, um |-> FALSE, max |-> NoMax, lot |-> 1, fund |-> 1, pos |-> 2]

McMeta == "spot" :> SpotMeta

Req(inst, buy, qty) ==
    [acct |-> "a", inst |-> inst, buy |-> buy, qty |-> qty, price |-> 1]

SpotRequests == {Req("spot", TRUE, 2), Req("spot", FALSE, 1)}

McRefOf == 1 :> "r1" @@ 2 :> "r2"

Cash == {[acct |-> "a", spot |-> TRUE, target |-> 1, qty |-> 4, avail |-> 4, short |-> FALSE]}

SysView == <<orders, resv, pos, bal, pending, panic, used, sendq, execq, venue, held, heldMatch, wire, fails>>
=============================================================================
