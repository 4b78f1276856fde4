----------------------------- MODULE OmsSystem -----------------------------
(***************************************************************************)
(* The OMS core with everything between it and the exchange:                *)
(*                                                                          *)
(*   core --sendq--> gw_worker --gRPC--> gateway --execq--> gw_exec_worker  *)
(*     ^                 |                  |                    |          *)
(*     |               fails             rejects              simulator     *)
(*     +-----------------+------ wire (NATS) <--- held (events) ---+        *)
(*                                                                          *)
(* sendq is zk-oms-svc's GwExecutorPool, execq zk-gw-svc's GwExecPool; both *)
(* are sharded by order id, so they are FIFO per order.  A gateway answers  *)
(* a placement as soon as it is queued.  The venue is SimulatorCore behind  *)
(* SimulatorVenueAdapter, which changes the book under a lock but queues    *)
(* the resulting events after releasing it: held and heldMatch are those    *)
(* two windows.  wire is one NATS subject, in publication order.            *)
(***************************************************************************)
EXTENDS OmsCore, FiniteSetsExt

CONSTANTS
    RefOf,          \* the exchange reference the venue gives an order
    ReportStyle,    \* "both": trade and state in one report; "state": state only
    Ambiguous,      \* a call may fail after it took effect
    LossyFeedback   \* try_send of a send failure may find the command channel full

ASSUME SystemAssumption ==
    /\ RefOf \in [OrderIds -> Refs]
    /\ \A o, p \in ClientIds : RefOf[o] = RefOf[p] => o = p
    /\ ReportStyle \in {"both", "state"}
    /\ Ambiguous \in BOOLEAN /\ LossyFeedback \in BOOLEAN

VARIABLES
    sendq,      \* per order: requests waiting in the OMS executor shard
    execq,      \* per order: requests waiting in the gateway executor shard
    venue,      \* per order: the book entry of the simulator
    held,       \* per order: events of a placement or cancel not yet queued
    heldMatch,  \* per order: events of a match not yet queued
    wire,       \* order reports published and not yet processed
    fails       \* send failures on their way back to the writer

sysVars == <<orders, resv, pos, bal, pending, panic, used, out,
             sendq, execq, venue, held, heldMatch, wire, fails>>
coreVars == <<orders, resv, pos, bal, pending, panic, used, out>>
channels == <<sendq, execq, venue, held, heldMatch, wire, fails>>

VenueStatus == {"none", "open", "filled", "cancelled"}

NoBookEntry == [status |-> "none", acct |-> AbsentOrder.acct, buy |-> FALSE,
                qty |-> 0, filled |-> 0]

(* What the executors carry of an order: the request as the core built it.  *)
GwRequest(kind, l) == [kind |-> kind, acct |-> l.acct, buy |-> l.buy, qty |-> l.qty]

SysInit ==
    /\ Init
    /\ sendq = [o \in OrderIds |-> << >>]
    /\ execq = [o \in OrderIds |-> << >>]
    /\ venue = [o \in OrderIds |-> NoBookEntry]
    /\ held = [o \in OrderIds |-> << >>]
    /\ heldMatch = [o \in OrderIds |-> << >>]
    /\ wire = << >>
    /\ fails = {}

-----------------------------------------------------------------------------
(* Report builders                                                          *)

BlankReport(o, acct) ==
    [oid |-> o, ref |-> NoRef, gw |-> TRUE, acct |-> acct, link |-> FALSE,
     trade |-> 0, state |-> NoState, filled |-> 0, unfilled |-> 0, exec |-> "none",
     fee |-> FALSE]

(* make_state_entry_with_status(): the remaining quantity of a cancelled    *)
(* order is already 0.                                                      *)
StateReport(o, v) ==
    [BlankReport(o, v.acct) EXCEPT
        !.ref = RefOf[o], !.filled = v.filled,
        !.state = IF v.status = "filled" THEN "Filled"
                  ELSE IF v.status = "cancelled" THEN "Cancelled" ELSE "Booked",
        !.unfilled = IF v.status = "open" THEN v.qty - v.filled ELSE 0]

(* make_booked_report()                                                     *)
BookedReport(o, v) == [StateReport(o, v) EXCEPT !.link = TRUE]

(* apply_match() reports a trade and the new state; a state-only venue      *)
(* reports the state with its linkage.                                      *)
MatchReport(o, v, q, first) ==
    IF ReportStyle = "both"
    THEN [StateReport(o, v) EXCEPT !.trade = q, !.link = first]
    ELSE [StateReport(o, v) EXCEPT !.link = TRUE]

(* build_rejection_report() and build_cancel_rejection_report()             *)
ExecReport(o, req) ==
    [BlankReport(o, req.acct) EXCEPT
        !.exec = IF req.kind = "place" THEN "Rejected" ELSE "CancelReject"]

-----------------------------------------------------------------------------
(* Clients, through the writer task                                         *)

Emits(kind, o) ==
    \E i \in DOMAIN out' : out'[i].act = kind /\ out'[i].on = o

(* The executor queue of the shard is full: the writer runs the send        *)
(* failure inline, in the same step.                                        *)
PlaceDropped(o, req) ==
    /\ o \in used => ReuseIds
    /\ Acceptable(req)
    /\ LET st == SendFailed(Accepted(o, req), o)
       IN  orders' = st.orders /\ resv' = st.resv /\ pos' = st.pos
    /\ used' = used \cup {o}
    /\ out' = SendFailureOut(o)
    /\ UNCHANGED <<bal, pending, panic, sendq>>

PlaceDispatched(o, req) ==
    /\ PlaceOrder(o, req)
    /\ sendq' = IF Emits("SendOrderToGw", o)
                THEN [sendq EXCEPT ![o] = Append(@, GwRequest("place", orders'.live[o]))] ELSE sendq

ClientPlaces(o, req) ==
    /\ PlaceDispatched(o, req) \/ PlaceDropped(o, req)
    /\ UNCHANGED <<execq, venue, held, heldMatch, wire, fails>>

(* A cancel that finds the queue full is dropped: the inline failure only   *)
(* logs it.                                                                 *)
ClientCancels(o) ==
    /\ CancelOrder(o)
    /\ \/ sendq' = IF Emits("SendCancelToGw", o)
                   THEN [sendq EXCEPT ![o] = Append(@, GwRequest("cancel", orders.live[o]))] ELSE sendq
       \/ Emits("SendCancelToGw", o) /\ UNCHANGED sendq
    /\ UNCHANGED <<execq, venue, held, heldMatch, wire, fails>>

Funded(u) == BalanceUpdate(u) /\ UNCHANGED channels

-----------------------------------------------------------------------------
(* gw_worker(): the next request of an order's shard goes to the gateway.   *)

(* dispatch_or_reject(): queued, or rejected over NATS when the queue is    *)
(* full; the gRPC answer is success either way.                             *)
RpcSucceeds(o) ==
    /\ \/ /\ execq' = [execq EXCEPT ![o] = Append(@, Head(sendq[o]))]
          /\ UNCHANGED wire
       \/ /\ wire' = Append(wire, ExecReport(o, Head(sendq[o])))
          /\ UNCHANGED execq
    /\ UNCHANGED fails

(* No client, no connection, or an error status: feedback by try_send, and  *)
(* nothing at the gateway unless the answer was what got lost.              *)
RpcFails(o) ==
    /\ \/ fails' = fails \cup {<<o, Head(sendq[o]).kind>>}
       \/ LossyFeedback /\ UNCHANGED fails
    /\ \/ UNCHANGED execq
       \/ Ambiguous /\ execq' = [execq EXCEPT ![o] = Append(@, Head(sendq[o]))]
    /\ UNCHANGED wire

GwWorker(o) ==
    /\ sendq[o] # << >>
    /\ RpcSucceeds(o) \/ RpcFails(o)
    /\ sendq' = [sendq EXCEPT ![o] = Tail(@)]
    /\ UNCHANGED <<coreVars, venue, held, heldMatch>>

(* The writer processes GatewaySendFailed / GatewayCancelSendFailed.        *)
Feedback(o, kind) ==
    /\ <<o, kind>> \in fails
    /\ fails' = fails \ {<<o, kind>>}
    /\ IF kind = "place" THEN GatewaySendFailed(o) ELSE GatewayCancelSendFailed(o)
    /\ UNCHANGED <<sendq, execq, venue, held, heldMatch, wire>>

-----------------------------------------------------------------------------
(* gw_exec_worker() on the simulator: one request at a time per shard, and  *)
(* the next one only after the events of the last are queued.               *)

(* on_new_order(): booked; matching is a later VenueMatches.                *)
VenueBooks(o) ==
    LET req == Head(execq[o])
        v   == [status |-> "open", acct |-> req.acct, buy |-> req.buy,
                qty |-> req.qty, filled |-> 0]
    IN  /\ req.kind = "place"
        /\ venue' = [venue EXCEPT ![o] = v]
        /\ held' = [held EXCEPT ![o] = <<BookedReport(o, v)>>]
        /\ UNCHANGED wire

(* on_cancel(): only an order with remaining quantity is cancelled.         *)
VenueCancels(o) ==
    LET v == [venue[o] EXCEPT !.status = "cancelled"]
    IN  /\ Head(execq[o]).kind = "cancel" /\ venue[o].status = "open"
        /\ venue' = [venue EXCEPT ![o] = v]
        /\ held' = [held EXCEPT ![o] = <<StateReport(o, v)>>]
        /\ UNCHANGED wire

(* The adapter answers "not found", or an error was injected.               *)
AdapterRejects(o) ==
    /\ wire' = Append(wire, ExecReport(o, Head(execq[o])))
    /\ UNCHANGED <<venue, held>>

ExecWorker(o) ==
    /\ execq[o] # << >> /\ held[o] = << >>
    /\ VenueBooks(o) \/ VenueCancels(o) \/ AdapterRejects(o)
    /\ execq' = [execq EXCEPT ![o] = Tail(@)]
    /\ UNCHANGED <<coreVars, sendq, heldMatch, fails>>

(* force_match_order() / on_tick(), from another task than the worker.      *)
VenueMatches(o, q) ==
    LET n == venue[o].filled + q
        v == [venue[o] EXCEPT !.filled = n,
                              !.status = IF n = venue[o].qty THEN "filled" ELSE "open"]
    IN  /\ venue[o].status = "open" /\ n <= venue[o].qty
        /\ heldMatch[o] = << >>
        /\ venue' = [venue EXCEPT ![o] = v]
        /\ heldMatch' = [heldMatch EXCEPT ![o] = <<MatchReport(o, v, q, venue[o].filled = 0)>>]
        /\ UNCHANGED <<coreVars, sendq, execq, held, wire, fails>>

(* event_tx.send(): the events reach the pipeline, which publishes them.    *)
QueueEvents(o) ==
    /\ \/ /\ held[o] # << >>
          /\ wire' = wire \o held[o]
          /\ held' = [held EXCEPT ![o] = << >>]
          /\ UNCHANGED heldMatch
       \/ /\ heldMatch[o] # << >>
          /\ wire' = wire \o heldMatch[o]
          /\ heldMatch' = [heldMatch EXCEPT ![o] = << >>]
          /\ UNCHANGED held
    /\ UNCHANGED <<coreVars, sendq, execq, venue, fails>>

(* The NATS subscriber hands the next report to the writer.                 *)
DeliverReport ==
    /\ wire # << >>
    /\ OrderReport(Head(wire))
    /\ wire' = Tail(wire)
    /\ UNCHANGED <<sendq, execq, venue, held, heldMatch, fails>>

SysNext ==
    \/ \E o \in ClientIds, req \in Requests : ClientPlaces(o, req)
    \/ \E o \in ClientIds : ClientCancels(o)
    \/ \E u \in Updates : Funded(u)
    \/ \E o \in ClientIds : GwWorker(o)
    \/ \E o \in ClientIds, kind \in {"place", "cancel"} : Feedback(o, kind)
    \/ \E o \in ClientIds : ExecWorker(o)
    \/ \E o \in ClientIds, q \in 1 .. MaxTraded : VenueMatches(o, q)
    \/ \E o \in ClientIds : QueueEvents(o)
    \/ DeliverReport

(* The worker loops, the event pump, the NATS subscriber and the writer run *)
(* as tasks that always take their next item; clients and the market owe    *)
(* nothing.                                                                 *)
Fairness ==
    /\ \A o \in ClientIds : WF_sysVars(GwWorker(o))
    /\ \A o \in ClientIds, kind \in {"place", "cancel"} : WF_sysVars(Feedback(o, kind))
    /\ \A o \in ClientIds : WF_sysVars(ExecWorker(o))
    /\ \A o \in ClientIds : WF_sysVars(QueueEvents(o))
    /\ WF_sysVars(DeliverReport)

SysSpec == SysInit /\ [][SysNext]_sysVars /\ Fairness

-----------------------------------------------------------------------------
Quiet(o) ==
    /\ sendq[o] = << >> /\ execq[o] = << >> /\ held[o] = << >> /\ heldMatch[o] = << >>
    /\ \A i \in DOMAIN wire : wire[i].oid # o
    /\ <<o, "place">> \notin fails

(* The OMS never believes in a fill the venue has not made, whatever order  *)
(* the placement, match and cancel events reach it in.                      *)
FillsBoundedByVenue ==
    \A o \in ClientIds : Present(orders, o) => orders.live[o].filled <= venue[o].filled

(* Once nothing is in flight for an order, the OMS agrees with the venue on *)
(* its status and its fill: reports that overtook each other between the    *)
(* simulator's lock and its event queue leave no trace.                     *)
ConvergesWhenQuiet ==
    \A o \in ClientIds :
        (Quiet(o) /\ Present(orders, o) /\ ~ LossyFeedback) =>
            LET l == orders.live[o]
                v == venue[o]
            IN  /\ l.filled = v.filled
                /\ v.status = "open" => l.status = "Booked"
                /\ v.status = "filled" => l.status = "Filled"
                /\ v.status = "cancelled" => l.status = "Cancelled"
                /\ v.status = "none" => l.status = "Rejected"

Signed(p) == IF p.short THEN -p.total ELSE p.total

AllQuiet == \A o \in ClientIds : Quiet(o)

OrdersOn(k) == {o \in ClientIds : <<orders.live[o].acct, orders.live[o].pos>> = k}

(* When nothing is in flight, the managed position is what the venue bought *)
(* less what it sold: every executed lot moved it once, as in v1 where one  *)
(* trade report is one position delta.                                      *)
PositionsMatchFills ==
    AllQuiet =>
        \A k \in Keys :
            Signed(pos[k]) =
                MapThenSumSet(LAMBDA o : IF orders.live[o].buy THEN venue[o].filled
                                         ELSE -venue[o].filled, OrdersOn(k))

(* When nothing is in flight, the frozen quantity is exactly what open sell *)
(* orders may still deliver: cancels, fills and rejects of one order never  *)
(* unfreeze what another one holds, nor leave anything frozen behind.       *)
FrozenMatchesOpenSells ==
    AllQuiet =>
        \A k \in Keys :
            pos[k].frozen =
                MapThenSumSet(LAMBDA o : orders.live[o].qty - orders.live[o].filled,
                              {o \in OrdersOn(k) : o \in orders.open /\ ~ orders.live[o].buy})

(* Every order the core accepts leaves Pending: it is booked, finished or   *)
(* rejected, because each stage of the path answers.                        *)
PendingResolves ==
    \A o \in ClientIds : (orders.live[o].status = "Pending") ~> (orders.live[o].status # "Pending")
=============================================================================
