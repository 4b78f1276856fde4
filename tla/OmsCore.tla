------------------------------ MODULE OmsCore ------------------------------
(***************************************************************************)
(* OmsCoreV2 (zk-oms-rs/src/oms_core_v2.rs): the single-threaded state      *)
(* machine the OMS writer task drives.  Every message of process_message()  *)
(* is one action; the actions it returns to the caller are the sequence     *)
(* out.  Its inputs are arbitrary: this module promises what the core does  *)
(* with any request, report or balance update.  OmsSystem feeds it what a   *)
(* gateway and a venue really send.                                         *)
(***************************************************************************)
EXTENDS OrderStore, PositionStore

CONSTANTS
    ClientIds,          \* order ids clients may use; the others are generated
    Routed,             \* accounts with a route to the gateway
    Meta,               \* instrument -> trading metadata (see InstrumentMeta)
    RiskCheck,          \* risk_check_enabled
    HandleExternal,     \* handle_external_orders
    ReuseIds,           \* a client id may reach the core twice
    MaxPendingReports,  \* bound on reports buffered per reference
    MaxTraded,          \* bound on the explicit trades reported for one order
    MaxCancels,         \* bound on the cancels sent for one order
    Requests,           \* order requests clients send
    Reports,            \* order reports the core may receive
    Updates             \* balance updates the core may receive

NoMax == 0

InstrumentMeta == [bk : BOOLEAN, bc : BOOLEAN, um : BOOLEAN, max : Nat, lot : Nat \ {0},
                   fund : Targets \cup {NoTarget}, pos : Targets \cup {NoTarget}]

Request == [acct : Accounts, inst : STRING, buy : BOOLEAN, qty : Nat \ {0}, price : Nat]

Report == [oid : OrderIds \cup {NoId}, ref : Refs \cup {NoRef}, gw : BOOLEAN, acct : Accounts,
           link : BOOLEAN, trade : Nat, state : ExchangeOrderStatus \cup {NoState},
           filled : Nat, unfilled : Nat, exec : {"none", "Rejected", "CancelReject"},
           fee : BOOLEAN]

BalanceEntry == [acct : Accounts, spot : BOOLEAN, target : Targets \cup {NoTarget},
                 qty : Int, avail : Int, short : BOOLEAN]

ASSUME ConstantsAssumption ==
    /\ Accounts # {}
    /\ Targets \subseteq Nat
    /\ ClientIds \subseteq OrderIds
    /\ Routed \subseteq Accounts
    /\ \A i \in DOMAIN Meta : Meta[i] \in InstrumentMeta
    /\ RiskCheck \in BOOLEAN /\ HandleExternal \in BOOLEAN /\ ReuseIds \in BOOLEAN
    /\ MaxPendingReports \in Nat /\ MaxTraded \in Nat /\ MaxCancels \in Nat

ASSUME InputsAssumption ==
    /\ Requests \subseteq Request
    /\ Reports \subseteq Report
    /\ \A r \in Reports : r.link => r.ref # NoRef
    /\ Updates \subseteq BalanceEntry

VARIABLES
    orders,     \* OrderStoreV2
    resv,       \* ReservationStoreV2
    pos,        \* PositionStoreV2.managed
    bal,        \* avail_qty of BalanceStoreV2
    pending,    \* pending_reports: how many are buffered per reference
    panic,      \* panic_accounts
    used,       \* order ids ever created (history)
    out         \* what the last process_message() returned

vars == <<orders, resv, pos, bal, pending, panic, used, out>>

Init ==
    /\ orders = EmptyOrders
    /\ resv = EmptyStore
    /\ pos = [k \in Keys |-> NoPosition]
    /\ bal = [k \in Keys |-> 0]
    /\ pending = [r \in Refs |-> 0]
    /\ panic = {}
    /\ used = {}
    /\ out = << >>

Act(kind, on, closed) == [act |-> kind, on |-> on, closed |-> closed]
KeyAct(kind, k) == [act |-> kind, key |-> k]
AccountAct(kind, a) == [act |-> kind, account |-> a]
PersistOrder(o, closed) == Act("PersistOrder", o, closed)
Publish(o) == Act("PublishOrderUpdate", o, FALSE)

-----------------------------------------------------------------------------
(* process_order()                                                          *)

Resolves(req) == req.acct \in Routed /\ req.inst \in DOMAIN Meta

TooLarge(req) ==
    LET m == Meta[req.inst] IN RiskCheck /\ m.max # NoMax /\ req.qty > m.max

FundKey(req) == <<req.acct, Meta[req.inst].fund>>
PosKey(req) == <<req.acct, Meta[req.inst].pos>>

(* The pre-trade section runs for bookkept instruments not on margin.       *)
PreTrade(req) == Meta[req.inst].bk /\ ~ Meta[req.inst].um

ReservesCash(req) ==
    PreTrade(req) /\ req.buy /\ Meta[req.inst].fund # NoTarget /\ Meta[req.inst].bc

(* A sell freezes inventory whether or not balance_check is set.            *)
FreezesPosition(req) == PreTrade(req) /\ ~ req.buy /\ Meta[req.inst].pos # NoTarget

(* A check that forgets what other orders have reserved.                    *)
HasCashIgnoresReserved(req) ==
    ReservesCash(req) => bal[FundKey(req)] >= req.qty * req.price

HasCash(req) ==
    ReservesCash(req)
        => CheckAvailable(resv, FundKey(req), req.qty * req.price, bal[FundKey(req)])

HasPosition(req) == FreezesPosition(req) => CanFreeze(pos[PosKey(req)], req.qty)

(* round_to_precision() of build_gw_request(): quantities are floored.      *)
RoundDown(q, lot) == (q \div lot) * lot

NewOrder(req, status, qty, bc, key) ==
    [status |-> status, acct |-> req.acct, buy |-> req.buy, qty |-> qty, price |-> req.price,
     filled |-> 0, acc |-> 0, ref |-> NoRef, ext |-> FALSE, bc |-> bc, pos |-> key,
     cancels |-> 0]

(* The order is created, rejected by apply_oms_error() and closed at once.  *)
CloseAsRejected(o, req, bc, key) ==
    MarkClosed(CreateOrder(orders, o, NewOrder(req, "Rejected", req.qty, bc, key)), o)

(* A panicked account: nothing is created.                                  *)
PlaceBlocked(o, req) ==
    /\ req.acct \in panic
    /\ out' = << >>
    /\ UNCHANGED <<orders, resv, pos, used>>

(* resolve_order_meta() or the risk check fails: default accounting flags.  *)
PlaceRefused(o, req) ==
    /\ req.acct \notin panic
    /\ ~ Resolves(req) \/ TooLarge(req)
    /\ orders' = CloseAsRejected(o, req, FALSE, NoTarget)
    /\ used' = used \cup {o}
    /\ out' = <<Publish(o)>>
    /\ UNCHANGED <<resv, pos>>

(* Not enough cash or position: rejected with the real flags.               *)
PlaceUncovered(o, req) ==
    /\ req.acct \notin panic
    /\ Resolves(req) /\ ~ TooLarge(req)
    /\ ~ HasCash(req) \/ ~ HasPosition(req)
    /\ orders' = CloseAsRejected(o, req, Meta[req.inst].bc, Meta[req.inst].pos)
    /\ used' = used \cup {o}
    /\ out' = <<Publish(o)>>
    /\ UNCHANGED <<resv, pos>>

ReserveFor(o, req) ==
    IF ReservesCash(req) THEN Reserve(resv, o, FundKey(req), req.qty * req.price)
    ELSE IF FreezesPosition(req) THEN Reserve(resv, o, PosKey(req), req.qty)
    ELSE resv

Acceptable(req) ==
    /\ req.acct \notin panic
    /\ Resolves(req) /\ ~ TooLarge(req)
    /\ HasCash(req) /\ HasPosition(req)

(* The stores once the order is accepted: covered, then created.            *)
Accepted(o, req) ==
    LET m == Meta[req.inst]
    IN  [orders |-> CreateOrder(orders, o,
                        NewOrder(req, "Pending", RoundDown(req.qty, m.lot), m.bc, m.pos)),
         resv   |-> ReserveFor(o, req),
         pos    |-> IF FreezesPosition(req)
                    THEN [pos EXCEPT ![PosKey(req)] = Freeze(@, req.qty)] ELSE pos]

PlaceAccepted(o, req) ==
    /\ Acceptable(req)
    /\ orders' = Accepted(o, req).orders
    /\ resv' = Accepted(o, req).resv
    /\ pos' = Accepted(o, req).pos
    /\ used' = used \cup {o}
    /\ out' = <<PersistOrder(o, FALSE), Act("SendOrderToGw", o, FALSE)>>

PlaceOrder(o, req) ==
    /\ o \in used => ReuseIds
    /\ \/ PlaceBlocked(o, req)
       \/ PlaceRefused(o, req)
       \/ PlaceUncovered(o, req)
       \/ PlaceAccepted(o, req)
    /\ UNCHANGED <<bal, pending, panic>>

-----------------------------------------------------------------------------
(* process_cancel(): nothing for unknown and external orders, a rejected    *)
(* cancel for terminal ones, otherwise the cancel goes to the gateway.      *)
CancelSent(o) ==
    /\ Present(orders, o) /\ ~ orders.live[o].ext /\ ~ IsTerminal(orders.live[o])
    /\ orders.live[o].cancels < MaxCancels
    /\ orders' = [orders EXCEPT !.live[o].cancels = @ + 1]
    /\ out' = <<Act("SendCancelToGw", o, FALSE)>>

CancelRefused(o) ==
    /\ ~ Present(orders, o) \/ orders.live[o].ext \/ IsTerminal(orders.live[o])
    /\ out' = IF ~ Present(orders, o) \/ orders.live[o].ext THEN << >> ELSE <<Publish(o)>>
    /\ UNCHANGED orders

CancelOrder(o) ==
    /\ CancelSent(o) \/ CancelRefused(o)
    /\ UNCHANGED <<resv, pos, bal, pending, panic, used>>

-----------------------------------------------------------------------------
(* A handler that only logs the failure.                                    *)
GatewaySendFailedLogged(o) ==
    /\ out' = << >>
    /\ UNCHANGED <<orders, resv, pos, bal, pending, panic, used>>

(* process_gateway_send_failed() on a live order: it is rejected and        *)
(* closed, its reservation released and what is left of a sell unfrozen;    *)
(* mark_closed() runs before the remaining quantity is read.                *)
SendFailed(st, o) ==
    LET l      == st.orders.live[o]
        closed == MarkClosed([st.orders EXCEPT !.live[o].status = "Rejected"], o)
        left   == IF Present(closed, o) THEN l.qty - l.filled ELSE 0
    IN  [orders |-> closed,
         resv   |-> Release(st.resv, o),
         pos    |-> IF l.pos # NoTarget /\ ~ l.buy /\ left > 0
                    THEN [st.pos EXCEPT ![<<l.acct, l.pos>>] = Unfreeze(@, left)] ELSE st.pos]

SendFailureOut(o) == <<PersistOrder(o, TRUE), Publish(o)>>

GatewaySendFailed(o) ==
    /\ IF ~ Present(orders, o) \/ IsTerminal(orders.live[o])
       THEN out' = << >> /\ UNCHANGED <<orders, resv, pos>>
       ELSE LET st == SendFailed([orders |-> orders, resv |-> resv, pos |-> pos], o)
            IN  /\ orders' = st.orders
                /\ resv' = st.resv
                /\ pos' = st.pos
                /\ out' = SendFailureOut(o)
    /\ UNCHANGED <<bal, pending, panic, used>>

(* process_gateway_cancel_send_failed(): logged; the order stays live.      *)
GatewayCancelSendFailed(o) ==
    /\ out' = IF ~ Present(orders, o) \/ IsTerminal(orders.live[o]) THEN << >>
              ELSE <<PersistOrder(o, FALSE), Publish(o)>>
    /\ UNCHANGED <<orders, resv, pos, bal, pending, panic, used>>

-----------------------------------------------------------------------------
(* process_report_for_order()                                               *)

(* One fill gives back the cash it was reserved for at the order's price,   *)
(* or the inventory.                                                        *)
ReleaseFill(s, o, l, f) ==
    IF f <= 0 THEN s ELSE ReleasePartial(s, o, IF l.buy THEN f * l.price ELSE f)

(* The order store after the entries: the reference, the order itself and,  *)
(* in a terminal state, the move to the closed LRU.                         *)
OrdersAfter(os, o, r) ==
    LET l2  == ApplyEntries(os.live[o], r)
        os1 == [os EXCEPT !.live[o] = l2]
        os2 == IF r.link THEN RegisterExchRef(os1, o, r.ref) ELSE os1
    IN  IF IsTerminal(l2) THEN MarkClosed(os2, o) ELSE os2

(* A report handler that keeps the reservation of a closed order.           *)
ReservationsKeptWhenTerminal(o, l, r) ==
    ReleaseFill(ReleaseFill(resv, o, l, r.trade), o, l, InferredTrade(l, r))

(* Explicit trades and the inferred trade both release.                     *)
ReservationsAfter(o, l, r) ==
    LET s == ReleaseFill(ReleaseFill(resv, o, l, r.trade), o, l, InferredTrade(l, r))
    IN  IF IsTerminal(ApplyEntries(l, r)) THEN Release(s, o) ELSE s

(* Only explicit trades move the position.                                  *)
PositionAfterExplicitOnly(p, l, r) == ApplyFill(p, l.buy, l.bc, r.trade)

(* A closed sell keeps what it had frozen.                                  *)
PositionAfterKeepsFrozen(p, l, r) ==
    ApplyFill(ApplyFill(p, l.buy, l.bc, r.trade), l.buy, l.bc, InferredTrade(l, r))

(* Explicit trades and the inferred trade both move the position; a         *)
(* terminal sell unfreezes what is left.                                    *)
PositionAfter(p, l, r) ==
    LET l2    == ApplyEntries(l, r)
        fills == ApplyFill(ApplyFill(p, l.buy, l.bc, r.trade), l.buy, l.bc, InferredTrade(l, r))
        left  == l2.qty - l2.filled
    IN  IF IsTerminal(l2) /\ ~ l.buy /\ left > 0 THEN Unfreeze(fills, left) ELSE fills

ReportForOrder(os, o, r) ==
    LET l      == os.live[o]
        k      == <<l.acct, l.pos>>
        closed == IsTerminal(ApplyEntries(l, r))
        filled == r.trade > 0 \/ InferredTrade(l, r) > 0
    IN  /\ l.acc + r.trade <= MaxTraded
        /\ orders' = OrdersAfter(os, o, r)
        /\ resv' = ReservationsAfter(o, l, r)
        /\ pos' = IF l.pos # NoTarget THEN [pos EXCEPT ![k] = PositionAfter(@, l, r)] ELSE pos
        /\ out' = <<Publish(o)>>
                  \o (IF filled /\ l.pos # NoTarget
                      THEN <<KeyAct("PersistPosition", k), AccountAct("PublishPositionUpdate", l.acct)>>
                      ELSE << >>)
                  \o <<PersistOrder(o, closed)>>

Ignored == out' = << >> /\ UNCHANGED <<orders, resv, pos, pending, used>>

(* Unknown gateway, nothing to resolve the order by, or an order that is    *)
(* gone although the external index still names it.                         *)
ReportDropped(r) ==
    /\ \/ ~ r.gw
       \/ r.gw /\ ResolveOrderId(orders, r.oid, r.ref) = NoId /\ r.ref = NoRef
       \/ /\ r.gw /\ r.ref # NoRef /\ HandleExternal
          /\ ResolveOrderId(orders, r.oid, r.ref) = NoId
          /\ orders.extIdx[r.ref] # NoId /\ ~ Present(orders, orders.extIdx[r.ref])
    /\ Ignored

(* A reference nobody knows: kept in pending_reports, which nothing reads.  *)
ReportBuffered(r) ==
    /\ r.gw /\ r.ref # NoRef /\ ~ HandleExternal
    /\ ResolveOrderId(orders, r.oid, r.ref) = NoId
    /\ pending[r.ref] < MaxPendingReports
    /\ pending' = [pending EXCEPT ![r.ref] = @ + 1]
    /\ out' = << >>
    /\ UNCHANGED <<orders, resv, pos, used>>

ReportKnown(r) ==
    LET o == ResolveOrderId(orders, r.oid, r.ref)
    IN  /\ r.gw /\ HasEntry(r)
        /\ o # NoId
        /\ IF Present(orders, o)
           THEN ReportForOrder(orders, o, r) /\ UNCHANGED <<pending, used>>
           ELSE Ignored

(* An order the OMS did not place: reuse its record or create one under a   *)
(* generated id, then process the report.                                   *)
ReportExternal(r) ==
    /\ r.gw /\ r.ref # NoRef /\ HandleExternal /\ HasEntry(r)
    /\ ResolveOrderId(orders, r.oid, r.ref) = NoId
    /\ \/ /\ orders.extIdx[r.ref] # NoId
          /\ Present(orders, orders.extIdx[r.ref])
          /\ ReportForOrder(orders, orders.extIdx[r.ref], r)
          /\ UNCHANGED used
       \/ /\ orders.extIdx[r.ref] = NoId
          /\ \E e \in OrderIds \ (ClientIds \cup used) :
                /\ ReportForOrder(CreateExternalOrder(orders, e, r.ref, r.acct), e, r)
                /\ used' = used \cup {e}
    /\ UNCHANGED pending

OrderReport(r) ==
    /\ ReportDropped(r) \/ ReportBuffered(r) \/ ReportKnown(r) \/ ReportExternal(r)
    /\ UNCHANGED <<bal, panic>>

-----------------------------------------------------------------------------
(* process_balance_update(), one entry: a spot entry replaces the balance,  *)
(* any other seeds the managed position once and re-checks it.              *)
BalanceUpdate(u) ==
    LET k     == <<u.acct, u.target>>
        known == u.target # NoTarget
    IN  /\ IF u.acct \notin Routed
           THEN out' = << >> /\ UNCHANGED <<bal, pos>>
           ELSE IF u.spot
           THEN /\ bal' = IF known THEN [bal EXCEPT ![k] = u.avail] ELSE bal
                /\ out' = (IF known THEN <<KeyAct("PersistBalance", k)>> ELSE << >>)
                          \o <<AccountAct("PublishBalanceUpdate", u.acct)>>
                /\ UNCHANGED pos
           ELSE /\ pos' = IF known
                          THEN [pos EXCEPT ![k] =
                                  UpdateReconcileStatus(Seed(@, u.qty, u.avail, u.short), u.qty)]
                          ELSE pos
                /\ out' = (IF known THEN <<KeyAct("PersistPosition", k)>> ELSE << >>)
                          \o <<AccountAct("PublishPositionUpdate", u.acct)>>
                /\ UNCHANGED bal
        /\ UNCHANGED <<orders, resv, pending, panic, used>>

(* Panic and DontPanic                                                      *)
Panic(a) ==
    /\ panic' = panic \cup {a}
    /\ out' = << >>
    /\ UNCHANGED <<orders, resv, pos, bal, pending, used>>

DontPanic(a) ==
    /\ panic' = panic \ {a}
    /\ out' = << >>
    /\ UNCHANGED <<orders, resv, pos, bal, pending, used>>

Next ==
    \/ \E o \in ClientIds, req \in Requests : PlaceOrder(o, req)
    \/ \E o \in OrderIds : CancelOrder(o)
    \/ \E o \in OrderIds : GatewaySendFailed(o)
    \/ \E o \in OrderIds : GatewayCancelSendFailed(o)
    \/ \E r \in Reports : OrderReport(r)
    \/ \E u \in Updates : BalanceUpdate(u)
    \/ \E a \in Accounts : Panic(a)
    \/ \E a \in Accounts : DontPanic(a)

Spec == Init /\ [][Next]_vars

-----------------------------------------------------------------------------
(* The state of every store is well-formed.                                 *)
TypeOK ==
    /\ orders \in Orders
    /\ resv \in Store
    /\ pos \in [Keys -> Position]
    /\ bal \in [Keys -> Int]
    /\ pending \in [Refs -> Nat]
    /\ panic \subseteq Accounts
    /\ used \subseteq OrderIds

(* ReservationStoreV2 keeps its per-key totals equal to the sum of the      *)
(* reservations through every mix of placements, partial fills, rejects,    *)
(* send failures and terminal reports: buying power is never lost or freed  *)
(* twice in the totals that check_available() reads.                        *)
ReservedTotalsExact == TotalsAreSums(resv)

(* A reservation never outlives its order: whoever holds cash or inventory  *)
(* is in open_order_ids, in the live map and not in a terminal state.  A    *)
(* terminal path that forgot to release would leak buying power for ever.   *)
ReservationsBacked ==
    \A o \in OrderIds : resv.res[o] # NoRes => o \in orders.open

(* open_order_ids holds only live, unfinished orders the OMS placed, and    *)
(* no id waiting in the closed LRU: eviction can never drop an open order.  *)
OpenOrdersLive ==
    /\ \A o \in orders.open : /\ Present(orders, o)
                               /\ ~ IsTerminal(orders.live[o])
                               /\ ~ orders.live[o].ext
    /\ \A i \in 1 .. Len(orders.lru) : orders.lru[i] \notin orders.open

(* The closed-order cache respects max_cached_orders.                       *)
CacheBounded == Len(orders.lru) <= MaxCachedOrders

(* No mix of sells, over-reported fills, side flips and releases takes the   *)
(* available or the frozen part of a managed position below zero: a sell    *)
(* freezes only what is available, and unfreeze() gives back only what is   *)
(* frozen.                                                                  *)
PositionNeverNegative ==
    \A k \in Keys : pos[k].total >= 0 /\ pos[k].avail >= 0 /\ pos[k].frozen >= 0

(* A step that ties up more of a fund never ties up more than the venue     *)
(* last reported available: check_available() nets out what is reserved.    *)
CashNeverOvercommitted ==
    [][\A o \in OrderIds :
         (resv.res[o] = NoRes /\ resv'.res[o] # NoRes /\ orders'.live[o].buy)
            => resv'.tot[resv'.res[o].key] <= bal[resv'.res[o].key]]_vars

(* Reports that arrive late, twice or out of order never take a fill back.  *)
FillsNeverRegress ==
    [][\A o \in OrderIds :
         (Present(orders, o) /\ Present(orders, o)' /\ ~ ReuseIds)
            => orders'.live[o].filled >= orders.live[o].filled]_vars
=============================================================================
