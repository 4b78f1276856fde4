---------------------------- MODULE OrderStore ----------------------------
(***************************************************************************)
(* OrderStoreV2 (zk-oms-rs/src/order_store_v2.rs): the live orders, the set *)
(* of open ids, the LRU of closed ones, and the index by exchange reference.*)
(*                                                                          *)
(* A store is a record [live, open, lru, refIdx, extIdx].  live maps every  *)
(* order id to its LiveOrder; an id the HashMap lacks maps to AbsentOrder.  *)
(* One gateway is modelled, so the (gw_id, ref) indices are keyed by the    *)
(* reference alone.  open_by_account is the same set split by account and   *)
(* is left out, as are prices of fills, timestamps and the audit log.       *)
(***************************************************************************)
EXTENDS ReservationStore, Sequences

CONSTANTS
    Refs,               \* exchange order references
    MaxCachedOrders     \* closed orders kept before the oldest is evicted

ASSUME MaxCachedAssumption == MaxCachedOrders \in Nat \ {0}

NoRef == ""
NoId == 0
NoTarget == -1

ASSUME RefsAssumption == NoRef \notin Refs

OrderStatus == {"Pending", "Booked", "PartiallyFilled", "Filled", "Cancelled", "Rejected"}

ExchangeOrderStatus == {"Booked", "PartialFilled", "Filled", "Cancelled", "ExchRejected",
                        "Expired", "Unspecified"}

(* bc and pos are the accounting flags that outlive order creation:         *)
(* balance_check and pos_instrument_id; cancels is cancel_attempts.         *)
LiveOrder == [status : OrderStatus \cup {"Absent"}, acct : Accounts, buy : BOOLEAN,
              qty : Nat, price : Nat, filled : Nat, acc : Nat, ref : Refs \cup {NoRef},
              ext : BOOLEAN, bc : BOOLEAN, pos : Targets \cup {NoTarget}, cancels : Nat]

Orders == [live : [OrderIds -> LiveOrder], open : SUBSET OrderIds, lru : Seq(OrderIds),
           refIdx : [Refs -> OrderIds \cup {NoId}], extIdx : [Refs -> OrderIds \cup {NoId}]]

AbsentOrder == [status |-> "Absent", acct |-> CHOOSE a \in Accounts : TRUE, buy |-> FALSE,
                qty |-> 0, price |-> 0, filled |-> 0, acc |-> 0, ref |-> NoRef,
                ext |-> FALSE, bc |-> FALSE, pos |-> NoTarget, cancels |-> 0]

IsTerminal(l) == l.status \in {"Filled", "Cancelled", "Rejected"}

Present(os, o) == os.live[o].status # "Absent"

EmptyOrders == [live |-> [o \in OrderIds |-> AbsentOrder], open |-> {}, lru |-> << >>,
                refIdx |-> [r \in Refs |-> NoId], extIdx |-> [r \in Refs |-> NoId]]

-----------------------------------------------------------------------------
(* create_order(): an id that is already live is overwritten.               *)
CreateOrder(os, o, l) == [os EXCEPT !.live[o] = l, !.open = @ \cup {o}]

(* create_external_order(): indexed, but never put in open_order_ids.       *)
CreateExternalOrder(os, e, ref, acct) ==
    [os EXCEPT !.live[e] = [AbsentOrder EXCEPT !.status = "Pending", !.acct = acct,
                                               !.ref = ref, !.ext = TRUE],
               !.refIdx[ref] = e, !.extIdx[ref] = e]

(* resolve_order_id(): by id while it is live, else by exchange reference.  *)
ResolveOrderId(os, o, ref) ==
    IF o # NoId /\ Present(os, o) THEN o
    ELSE IF ref # NoRef THEN os.refIdx[ref] ELSE NoId

(* register_exch_ref()                                                      *)
RegisterExchRef(os, o, ref) == [os EXCEPT !.refIdx[ref] = o, !.live[o].ref = ref]

(* cleanup_order(): the order and its reference entry go; extIdx keeps its. *)
CleanupOrder(os, o) ==
    IF ~ Present(os, o)
    THEN os
    ELSE LET ref == os.live[o].ref
         IN  [os EXCEPT !.live[o] = AbsentOrder,
                        !.refIdx = IF ref = NoRef THEN @ ELSE [@ EXCEPT ![ref] = NoId]]

(* A mark_closed() that leaves the id in the open set.                      *)
MarkClosedKeepsOpen(os, o) ==
    IF Len(os.lru) >= MaxCachedOrders
    THEN CleanupOrder([os EXCEPT !.lru = Append(Tail(@), o)], Head(os.lru))
    ELSE [os EXCEPT !.lru = Append(@, o)]

(* A mark_closed() that evicts one order too late.                          *)
MarkClosedLate(os, o) ==
    LET q == Append(os.lru, o)
        c == [os EXCEPT !.open = @ \ {o}]
    IN  IF Len(q) > MaxCachedOrders + 1
        THEN CleanupOrder([c EXCEPT !.lru = Tail(q)], Head(q))
        ELSE [c EXCEPT !.lru = q]

(* mark_closed(): the id joins the LRU; beyond capacity the oldest id is    *)
(* popped and its order dropped, whatever state that order is in by now.    *)
MarkClosed(os, o) ==
    LET q == Append(os.lru, o)
        c == [os EXCEPT !.open = @ \ {o}]
    IN  IF Len(q) > MaxCachedOrders
        THEN CleanupOrder([c EXCEPT !.lru = Tail(q)], Head(q))
        ELSE [c EXCEPT !.lru = q]

-----------------------------------------------------------------------------
(* An order report holds at most one entry of each kind, as every sender    *)
(* builds it: a linkage, a trade (0 when absent), a state ("none" when      *)
(* absent), an execution message and a fee.                                 *)
NoState == "none"

LinkOnly(r) == r.link /\ r.trade = 0 /\ r.state = NoState /\ r.exec = "none" /\ ~ r.fee

HasEntry(r) == r.link \/ r.trade > 0 \/ r.state # NoState \/ r.exec # "none" \/ r.fee

(* map_order_status()                                                       *)
MapOrderStatus(x) ==
    CASE x = "Booked"                    -> "Booked"
      [] x = "PartialFilled"             -> "PartiallyFilled"
      [] x = "Filled"                    -> "Filled"
      [] x \in {"Cancelled", "Expired"}  -> "Cancelled"
      [] x = "ExchRejected"              -> "Rejected"
      [] OTHER                           -> "Unspecified"

(* A status update without the terminal guard.                              *)
UpdateStatusAlways(old, new) == IF new # "Unspecified" THEN new ELSE old

(* can_update_status(): Filled and Cancelled are final, Rejected is not.    *)
UpdateStatus(old, new) ==
    IF old \notin {"Cancelled", "Filled"} /\ new # "Unspecified" THEN new ELSE old

(* The cumulative fill a state entry reports: filled_qty, or what the       *)
(* unfilled quantity leaves of the order; 0 stands for "not reported".      *)
ReportedFill(l, r) ==
    IF r.filled # 0 THEN r.filled
    ELSE IF r.unfilled # 0 THEN l.qty - r.unfilled ELSE 0

(* infer_state_from_trades(): a report with a trade and no state gets one,  *)
(* unless the order is terminal or the trades exceed its quantity.          *)
InfersState(l, r) ==
    ~ IsTerminal(l) /\ r.state = NoState /\ r.trade > 0 /\ l.acc + r.trade <= l.qty

InferredStatus(l, r) == IF l.acc + r.trade = l.qty THEN "Filled" ELSE "PartiallyFilled"

(* A fill taken as reported, even when a later report was processed first.  *)
FilledAsReported(l, r) ==
    IF InfersState(l, r) THEN l.acc + r.trade
    ELSE IF r.state # NoState THEN ReportedFill(l, r) ELSE l.filled

(* A cumulative fill added as if it were an increment.                      *)
FilledAccumulates(l, r) ==
    IF r.state # NoState THEN l.filled + r.filled ELSE l.filled

(* The cumulative fill after apply_state_report(): it never goes back.      *)
FilledAfter(l, r) ==
    LET reported == IF InfersState(l, r) THEN l.acc + r.trade
                    ELSE IF r.state # NoState THEN ReportedFill(l, r) ELSE 0
    IN  IF reported > l.filled THEN reported ELSE l.filled

(* Increments reported after the order was closed are not booked.           *)
InferredTradeUnlessClosed(l, r) == IF IsTerminal(l) THEN 0 ELSE FilledAfter(l, r) - l.filled

(* The increment of the cumulative fill, booked as an inferred trade.       *)
InferredTrade(l, r) == FilledAfter(l, r) - l.filled

(* The status after the entries in order: linkage promotion, state entry,   *)
(* apply_oms_error() for a placement reject, then the inferred state.       *)
StatusAfter(l, r) ==
    LET s1 == IF LinkOnly(r) /\ l.status \in {"Pending", "Rejected"} THEN "Booked"
              ELSE IF r.state # NoState THEN UpdateStatus(l.status, MapOrderStatus(r.state))
              ELSE l.status
        s2 == IF r.exec = "Rejected" THEN "Rejected" ELSE s1
    IN  IF InfersState(l, r) THEN UpdateStatus(s2, InferredStatus(l, r)) ELSE s2

(* The live order after every entry of the report.                          *)
ApplyEntries(l, r) ==
    [l EXCEPT !.status = StatusAfter(l, r), !.filled = FilledAfter(l, r), !.acc = @ + r.trade]
=============================================================================
