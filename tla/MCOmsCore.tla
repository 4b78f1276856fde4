----------------------------- MODULE MCOmsCore -----------------------------
(* Small instances of OmsCore: two client orders and one generated id, a    *)
(* cash asset (1) and a position key (2), every report shape the senders    *)
(* build, for the client orders by id and for strangers by reference.       *)
EXTENDS OmsCore, TLC

SpotMeta == [bk |-> TRUE, bc |-> TRUE, um |-> FALSE, max |-> 2, lot |-> 1, fund |-> 1, pos |-> 2]

McMeta == "spot" :> SpotMeta @@ "loose" :> [SpotMeta EXCEPT !.bc = FALSE, !.max = NoMax]

Req(inst, buy, qty) ==
    [acct |-> "a", inst |-> inst, buy |-> buy, qty |-> qty, price |-> 1]

McRequests == {Req("spot", TRUE, 2), Req("spot", FALSE, 1), Req("spot", TRUE, 3),
               Req("loose", FALSE, 2)}

Rep(o, ref, link, trade, state, filled, exec) ==
    [oid |-> o, ref |-> ref, gw |-> TRUE, acct |-> "a", link |-> link, trade |-> trade,
     state |-> state, filled |-> filled, unfilled |-> 0, exec |-> exec, fee |-> FALSE]

(* The entries of one report: trade, state, cumulative fill, execution.     *)
Shapes(o, ref) ==
    LET shape(t, s, f, x) == Rep(o, ref, ref # NoRef, t, s, f, x)
    IN  {shape(0, NoState, 0, "none"), shape(0, NoState, 0, "Rejected"),
         shape(1, NoState, 0, "none"), shape(0, "Booked", 0, "none"),
         shape(1, "Booked", 1, "none"), shape(0, "Filled", 2, "none"),
         shape(0, "Cancelled", 0, "none"), shape(0, "Cancelled", 1, "none")}

(* Only the first order receives trade entries, and the others no           *)
(* cancellation before a fill, to keep the space small.                     *)
Brief(r) == r.trade = 0 /\ (r.state = "Cancelled" => r.filled > 0)

OwnReports == {r \in Shapes(1, NoRef) : HasEntry(r)} \cup {r \in Shapes(2, "r") : Brief(r)}

McReports ==
    OwnReports
    \cup {r \in Shapes(NoId, "r") : Brief(r) \/ r.state = NoState}
    \cup {[Rep(1, NoRef, FALSE, 0, "Booked", 0, "none") EXCEPT !.gw = FALSE],
          Rep(NoId, NoRef, FALSE, 0, "Booked", 0, "none")}

McUpdates ==
    {[acct |-> "a", spot |-> TRUE, target |-> 1, qty |-> 3, avail |-> 3, short |-> FALSE]}

(* A venue that also reports positions.  The update is keyed by the index   *)
(* of an instrument, orders by an interned symbol; both are small integers  *)
(* of one key space, and here an index equals the symbol of "spot".         *)
McPositionUpdates ==
    McUpdates \cup
    {[acct |-> "a", spot |-> FALSE, target |-> 2, qty |-> 2, avail |-> 1, short |-> FALSE]}

SellRequests == {Req("spot", FALSE, 1), Req("loose", FALSE, 2), Req("spot", TRUE, 1)}

(* Inventory: sells against positions that the venue reports, without       *)
(* strangers' orders and cancels.                                           *)
Seeded == INSTANCE OmsCore WITH
    HandleExternal <- FALSE, MaxCancels <- 0,
    Requests <- SellRequests, Reports <- OwnReports, Updates <- McPositionUpdates

VARIABLE part      \* which of the two instances runs

McInit == part \in {"orders", "inventory"} /\ Init

McNext ==
    /\ \/ part = "orders" /\ Next
       \/ part = "inventory" /\ Seeded!Next
    /\ UNCHANGED part

McSpec == McInit /\ [][McNext]_<<part, vars>>

(* Nothing reads out: states that differ only in it have the same future.   *)
CoreView == <<part, orders, resv, pos, bal, pending, panic, used>>
=============================================================================
