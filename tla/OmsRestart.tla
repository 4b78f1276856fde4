----------------------------- MODULE OmsRestart -----------------------------
(***************************************************************************)
(* The OMS service around the core: what the writer task persists, what a   *)
(* crash loses, and what the next process starts from.                      *)
(*                                                                          *)
(*   writer --pq--> persist_worker --> Redis --load--> init_state()         *)
(*                                                                          *)
(* The gateway and the venue of OmsSystem go on while the OMS is down; what *)
(* they publish before the new process subscribes is lost, since the        *)
(* reports travel over plain NATS.  Both start-up and a periodic timer      *)
(* reconcile the open orders with the gateway.                              *)
(***************************************************************************)
EXTENDS OmsSystem

CONSTANTS
    PersistCapacity,    \* queue of one account's persist worker
    MaxCrashes          \* bound on the crashes of a behaviour

ASSUME RestartAssumption == PersistCapacity \in Nat \ {0} /\ MaxCrashes \in Nat

VARIABLES
    redis,      \* what survives the process
    pq,         \* the persist executor's queue
    phase,      \* "down", "loaded", "synced" or "up"
    linked,     \* GwClientPool has a client for the gateway
    crashes,    \* crashes so far
    behind      \* orders whose newest state is neither in Redis nor queued (history)

serviceVars == <<redis, pq, phase, linked, crashes, behind>>
restartVars == <<sysVars, serviceVars>>

(* Everything but out, which only tells what the last step handed over.     *)
restartState == <<orders, resv, pos, bal, pending, panic, used, channels, serviceVars>>

Sides == BOOLEAN    \* TRUE: the SHORT key of a position

RestartInit ==
    /\ SysInit
    /\ redis = [ord |-> [o \in OrderIds |-> AbsentOrder], open |-> {},
                pos |-> [k \in Keys |-> [s \in Sides |-> NoPosition]],
                bal |-> [k \in Keys |-> 0]]
    /\ pq = << >>
    /\ phase = "up" /\ linked = TRUE /\ crashes = 0 /\ behind = {}

-----------------------------------------------------------------------------
(* into_oms_order(): trades and cancel attempts are not persisted.          *)
IntoOmsOrder(l) == [l EXCEPT !.acc = 0, !.cancels = 0]

(* A conversion that brought back the accounting flags.                     *)
ConvertWithFlags(l) == l

(* convert_v1_order(): the accounting flags are the default ones.           *)
ConvertV1Order(l) == [l EXCEPT !.bc = FALSE, !.pos = NoTarget]

Restored(l) == ConvertV1Order(IntoOmsOrder(l))

(* The action loops of process_command(): what a step hands to the persist  *)
(* executor.  The payload is built from the core's state after the step.    *)

PersistedOrder(a) ==
    [kind |-> "order", id |-> a.on, closed |-> a.closed, order |-> orders'.live[a.on]]

PersistedPosition(k) == [kind |-> "pos", key |-> k, position |-> pos'[k]]

PersistedBalance(k) == [kind |-> "bal", key |-> k, balance |-> bal'[k]]

Payload(a) ==
    CASE a.act = "PersistOrder"    -> PersistedOrder(a)
      [] a.act = "PersistPosition" -> PersistedPosition(a.key)
      [] a.act = "PersistBalance"  -> PersistedBalance(a.key)

(* build_persisted_order() finds nothing when the order is gone.            *)
Persists(a) ==
    \/ a.act \in {"PersistPosition", "PersistBalance"}
    \/ a.act = "PersistOrder" /\ Present(orders', a.on)

Payloads(acts) == LET s == SelectSeq(acts, Persists)
                  IN  [i \in DOMAIN s |-> Payload(s[i])]

OrdersIn(items) == {items[i].id : i \in {j \in DOMAIN items : items[j].kind = "order"}}

(* try_dispatch(): what does not fit is dropped.                            *)
Dispatch(acts) ==
    LET items == Payloads(acts)
        fits  == Smaller(PersistCapacity - Len(pq), Len(items))
    IN  /\ pq' = pq \o SubSeq(items, 1, fits)
        /\ behind' = (behind \cup OrdersIn(items)) \ OrdersIn(SubSeq(items, 1, fits))

(* The hot path: placements and cancels are not persisted.                  *)
DispatchHot(o) ==
    /\ UNCHANGED pq
    /\ behind' = IF Restored(orders'.live[o]) # Restored(orders.live[o])
                 THEN behind \cup {o} ELSE behind

Up == phase = "up" /\ UNCHANGED <<redis, phase, linked, crashes>>

(* Only the failure of a full executor queue is persisted at once.          *)
RPlace(o, req) ==
    /\ Up /\ ClientPlaces(o, req)
    /\ IF out' = SendFailureOut(o) THEN Dispatch(out') ELSE DispatchHot(o)

RCancel(o) ==
    /\ Up /\ ClientCancels(o)
    /\ IF Emits("SendCancelToGw", o) /\ sendq' = sendq
       THEN Dispatch(<<PersistOrder(o, FALSE)>>) ELSE DispatchHot(o)

(* Bound: a balance that is pushed again unchanged is left out.             *)
RFunded(u) == Up /\ bal[<<u.acct, u.target>>] # u.avail /\ Funded(u) /\ Dispatch(out')

RFeedback(o, kind) == Up /\ Feedback(o, kind) /\ Dispatch(out')

RDeliver == Up /\ DeliverReport /\ Dispatch(out')

(* A gateway that is not in the pool is never reached.                      *)
RGwWorker(o) ==
    /\ phase = "up" /\ GwWorker(o)
    /\ ~ linked => UNCHANGED <<execq, wire>>
    /\ UNCHANGED serviceVars

-----------------------------------------------------------------------------
(* write_order() that leaves a closed order in the open set.                *)
WriteOrderKeepsOpen(item) ==
    redis' = [redis EXCEPT !.ord[item.id] = item.order, !.open = @ \cup {item.id}]

(* write_order(): the record, and its membership in the open set.           *)
WriteOrder(item) ==
    redis' = [redis EXCEPT !.ord[item.id] = item.order,
                           !.open = IF item.closed THEN @ \ {item.id} ELSE @ \cup {item.id}]

(* write_position(): one key per side; the other side's key stays.          *)
WritePosition(item) == redis' = [redis EXCEPT !.pos[item.key][item.position.short] = item.position]

WriteBalance(item) == redis' = [redis EXCEPT !.bal[item.key] = item.balance]

(* A worker that writes the newest action first.                            *)
PersistWorkerLifo ==
    /\ pq # << >>
    /\ LET item == pq[Len(pq)]
       IN  CASE item.kind = "order" -> WriteOrder(item)
             [] item.kind = "pos"   -> WritePosition(item)
             [] item.kind = "bal"   -> WriteBalance(item)
    /\ pq' = SubSeq(pq, 1, Len(pq) - 1)
    /\ UNCHANGED <<sysVars, phase, linked, crashes, behind>>

(* persist_worker(): in queue order; a failed write is only logged.         *)
PersistWorker ==
    /\ pq # << >>
    /\ LET item == Head(pq)
       IN  \/ /\ CASE item.kind = "order" -> WriteOrder(item)
                   [] item.kind = "pos"   -> WritePosition(item)
                   [] item.kind = "bal"   -> WriteBalance(item)
              /\ UNCHANGED behind
           \/ /\ UNCHANGED redis
              /\ behind' = behind \cup (OrdersIn(<<item>>) \ OrdersIn(Tail(pq)))
    /\ pq' = Tail(pq)
    /\ UNCHANGED <<sysVars, phase, linked, crashes>>

(* The TTL of an order's key runs out.                                      *)
RedisExpires(o) ==
    /\ redis.ord[o] # AbsentOrder
    /\ redis' = [redis EXCEPT !.ord[o] = AbsentOrder]
    /\ behind' = behind \cup {o}
    /\ UNCHANGED <<sysVars, pq, phase, linked, crashes>>

-----------------------------------------------------------------------------
(* The process dies: its memory, its queues and its subscriptions go.       *)
Crash ==
    /\ phase # "down" /\ crashes < MaxCrashes
    /\ orders' = EmptyOrders /\ resv' = EmptyStore
    /\ pos' = [k \in Keys |-> NoPosition] /\ bal' = [k \in Keys |-> 0]
    /\ pending' = [r \in Refs |-> 0] /\ panic' = {} /\ out' = << >>
    /\ sendq' = [o \in OrderIds |-> << >>] /\ fails' = {}
    /\ behind' = behind \cup OrdersIn(pq)
    /\ pq' = << >> /\ linked' = FALSE
    /\ phase' = "down" /\ crashes' = crashes + 1
    /\ UNCHANGED <<used, execq, venue, held, heldMatch, wire, redis>>

(* load_orders() and init_with_orders(): the ids of the open sets whose     *)
(* record is still there.                                                   *)
LoadedOrders ==
    LET ids  == {o \in redis.open : redis.ord[o] # AbsentOrder}
        live == [o \in OrderIds |-> IF o \in ids THEN Restored(redis.ord[o]) ELSE AbsentOrder]
    IN  [live |-> live,
         open |-> {o \in ids : ~ IsTerminal(live[o])},
         lru |-> << >>,
         refIdx |-> [r \in Refs |-> IF \E o \in ids : live[o].ref = r
                                    THEN CHOOSE o \in ids : live[o].ref = r ELSE NoId],
         extIdx |-> [r \in Refs |-> NoId]]

(* load_positions(): when both sides have a key, the one scanned last wins. *)
LoadedPosition(k, last) ==
    LET p == IF redis.pos[k][last].known THEN redis.pos[k][last] ELSE redis.pos[k][~ last]
    IN  [p EXCEPT !.synced = FALSE, !.rec = "Unknown", !.div = 0]

(* load_balances(): an asset without a key has no balance.                  *)
LoadedBalance(k) == redis.bal[k]

(* init_state()                                                             *)
InitState ==
    /\ orders' = LoadedOrders
    /\ \E last \in [Keys -> Sides] : pos' = [k \in Keys |-> LoadedPosition(k, last[k])]
    /\ bal' = [k \in Keys |-> LoadedBalance(k)]

(* The gateways registered in the KV store, by the watch or the direct      *)
(* probe, are connected; the others wait for their registration.            *)
ConnectGateways == linked' \in BOOLEAN

(* Steps 7 to 9 of main()                                                   *)
WarmStart ==
    /\ phase = "down" /\ phase' = "loaded"
    /\ InitState /\ ConnectGateways
    /\ UNCHANGED <<resv, pending, panic, used, out, channels, redis, pq, crashes, behind>>

(* persist_balance_position_actions(): an update of one target causes at    *)
(* most one write.                                                          *)
PersistNow(items) ==
    LET writes == SelectSeq(items, LAMBDA i : i.kind # "order")
    IN  IF writes = << >> THEN UNCHANGED redis
        ELSE IF writes[1].kind = "pos" THEN WritePosition(writes[1]) ELSE WriteBalance(writes[1])

(* resync_gw_balance_position(): the answer goes through the core and is    *)
(* written to Redis directly, past the queue.                               *)
Resync(u) ==
    /\ Funded(u)
    /\ PersistNow(Payloads(out'))

(* Step 10: a gateway without a client, or a failed query, is skipped.      *)
StartupResync ==
    /\ phase = "loaded" /\ phase' = "synced"
    /\ \/ linked /\ \E u \in Updates : Resync(u)
       \/ UNCHANGED <<coreVars, channels, redis>>
    /\ UNCHANGED <<pq, linked, crashes, behind>>

(* Steps 11 to 15: the writer starts, then the report subscriptions: what   *)
(* was published before them is lost.                                       *)
Subscribe ==
    /\ phase = "synced" /\ phase' = "up"
    /\ wire' = << >>
    /\ UNCHANGED <<coreVars, sendq, execq, venue, held, heldMatch, fails,
                   redis, pq, linked, crashes, behind>>

(* run_gateway_resync(): the reports of the order reconcile that ends it    *)
(* are dropped by the core, like all of them (Synthetic below).             *)
GatewayResync ==
    \/ \E u \in Updates : Resync(u)
    \/ UNCHANGED <<coreVars, channels, redis>>

(* run_gateway_discovered() and run_gateway_removed()                       *)
GatewayDiscovered ==
    /\ phase = "up" /\ ~ linked /\ linked' = TRUE
    /\ GatewayResync
    /\ UNCHANGED <<pq, phase, crashes, behind>>

GatewayRemoved ==
    /\ phase = "up" /\ linked /\ linked' = FALSE
    /\ UNCHANGED <<sysVars, redis, pq, phase, crashes, behind>>

-----------------------------------------------------------------------------
(* Order reconciliation, one open order at a time.                          *)

(* make_synthetic_state_report() and make_synthetic_reject_report() leave   *)
(* the report's exchange field, the gateway's name, empty.                  *)
Synthetic(o) == [BlankReport(o, orders.live[o].acct) EXCEPT !.gw = FALSE]

SyntheticState(o, state, filled, unfilled) ==
    [Synthetic(o) EXCEPT !.ref = orders.live[o].ref, !.state = state,
                         !.filled = filled, !.unfilled = unfilled]

SyntheticReject(o) == [Synthetic(o) EXCEPT !.exec = "Rejected"]

(* sim_order_to_venue_fact(): a finished order has nothing left, so even a  *)
(* cancelled one is answered as Filled.                                     *)
FactStatus(v) ==
    IF v.status # "open" THEN "Filled" ELSE IF v.filled > 0 THEN "PartialFilled" ELSE "Booked"

FactLeft(v) == IF v.status = "open" THEN v.qty - v.filled ELSE 0

Diverged(l, v) == l.filled # v.filled \/ l.status # MapOrderStatus(FactStatus(v))

(* resolve_missing_order(): an order the details query knows nothing of, or *)
(* a query that failed, means it was cancelled.                             *)
ResolveMissingOrder(o, answered) ==
    IF answered THEN SyntheticState(o, FactStatus(venue[o]), venue[o].filled, FactLeft(venue[o]))
    ELSE SyntheticState(o, "Cancelled", orders.live[o].filled, 0)

(* reconcile_orders_against_gateway(): the report for one open order.       *)
(* answered: the details query of the second phase got an answer.           *)
ReconcileReport(o, answered) ==
    IF orders.live[o].ref = NoRef THEN SyntheticReject(o)
    ELSE IF venue[o].status = "open"
    THEN SyntheticState(o, FactStatus(venue[o]), venue[o].filled, FactLeft(venue[o]))
    ELSE ResolveMissingOrder(o, answered)

(* extract_open_order_snapshots()                                           *)
ReconcileCandidates == {o \in ClientIds : Present(orders, o) /\ ~ IsTerminal(orders.live[o])}

(* Nothing for an order that the gateway lists as open in the state the OMS *)
(* has.                                                                     *)
NeedsReport(o) ==
    ~ (orders.live[o].ref # NoRef /\ venue[o].status = "open") \/ Diverged(orders.live[o], venue[o])

(* dispatch_reconcile_report()                                              *)
DispatchReconcileReport(r) == OrderReport(r) /\ Dispatch(out')

(* run_order_reconcile()                                                    *)
Reconcile(o) ==
    /\ phase = "up" /\ linked
    /\ o \in ReconcileCandidates /\ NeedsReport(o)
    /\ \E answered \in BOOLEAN : DispatchReconcileReport(ReconcileReport(o, answered))
    /\ UNCHANGED <<channels, redis, phase, linked, crashes>>

(* persist_order_to_redis()                                                 *)
PersistOrderNow(o) ==
    WriteOrder([kind |-> "order", id |-> o, closed |-> IsTerminal(orders'.live[o]),
                order |-> orders'.live[o]])

(* apply_reconcile_report(): the order is written at once.                  *)
ApplyReconcileReport(o, r) ==
    /\ OrderReport(r)
    /\ IF \E i \in DOMAIN out' : out'[i].act = "PersistOrder" /\ Present(orders', o)
       THEN PersistOrderNow(o) /\ behind' = behind \ {o}
       ELSE UNCHANGED <<redis, behind>>

(* Step 10b of main()                                                       *)
StartupReconcile(o) ==
    /\ phase = "synced" /\ linked
    /\ o \in ReconcileCandidates /\ NeedsReport(o)
    /\ \E answered \in BOOLEAN : ApplyReconcileReport(o, ReconcileReport(o, answered))
    /\ UNCHANGED <<channels, pq, phase, linked, crashes>>

(* The gateway's side of OmsSystem does not depend on the OMS being up.     *)
GatewayStep ==
    /\ \/ \E o \in ClientIds : ExecWorker(o)
       \/ \E o \in ClientIds, q \in 1 .. MaxTraded : VenueMatches(o, q)
       \/ \E o \in ClientIds : QueueEvents(o)
    /\ UNCHANGED serviceVars

RestartNext ==
    \/ \E o \in ClientIds, req \in Requests : RPlace(o, req)
    \/ \E o \in ClientIds : RCancel(o)
    \/ \E u \in Updates : RFunded(u)
    \/ \E o \in ClientIds, kind \in {"place", "cancel"} : RFeedback(o, kind)
    \/ RDeliver
    \/ \E o \in ClientIds : RGwWorker(o)
    \/ GatewayStep
    \/ PersistWorker
    \/ \E o \in ClientIds : RedisExpires(o)
    \/ Crash \/ WarmStart \/ StartupResync \/ Subscribe
    \/ GatewayDiscovered \/ GatewayRemoved
    \/ \E o \in ClientIds : Reconcile(o) \/ StartupReconcile(o)

(* Every task keeps running; the periodic reconcile keeps getting answers.  *)
RestartFairness ==
    /\ WF_restartState(WarmStart) /\ WF_restartState(StartupResync) /\ WF_restartState(Subscribe)
    /\ WF_restartState(RDeliver) /\ WF_restartState(PersistWorker)
    /\ WF_restartState(GatewayDiscovered)
    /\ \A o \in ClientIds : WF_restartState(RGwWorker(o)) /\ WF_restartState(ExecWorker(o) /\ UNCHANGED serviceVars)
                            /\ WF_restartState(QueueEvents(o) /\ UNCHANGED serviceVars)
                            /\ SF_restartState(Reconcile(o))

RestartSpec == RestartInit /\ [][RestartNext]_restartVars /\ RestartFairness

-----------------------------------------------------------------------------
(* The open set in Redis names no finished order: whatever the queue lost,  *)
(* a restart never brings a closed order back as open because of its own    *)
(* record.                                                                  *)
RedisOpenSetOpen == \A o \in redis.open : ~ IsTerminal(redis.ord[o])

(* What Redis holds of an order is what the core holds, once nothing about  *)
(* it is queued and no write was skipped, dropped or failed: a queue of     *)
(* pre-built states written in order ends with the newest one.              *)
RedisTracksOrders ==
    \A o \in ClientIds :
        (phase = "up" /\ Present(orders, o) /\ o \notin behind \cup OrdersIn(pq)) =>
            /\ Restored(redis.ord[o]) = Restored(orders.live[o])
            /\ o \in redis.open <=> ~ IsTerminal(orders.live[o])

Filled(buy) == MapThenSumSet(LAMBDA o : venue[o].filled, {o \in ClientIds : venue[o].buy = buy})

(* No lot moves a managed position twice, although the position and the     *)
(* order are two writes and a crash between them lets the new process see   *)
(* the fill of the order as news: the position never exceeds what the venue *)
(* bought, nor falls below what it sold.                                    *)
PositionWithinFills ==
    \A k \in Keys : Signed(pos[k]) <= Filled(TRUE) /\ -Signed(pos[k]) <= Filled(FALSE)

(* "produces synthetic OrderReport messages to drive convergence through    *)
(* OmsCoreV2" (reconcile.rs): an order the venue has finished does not stay *)
(* open in a running OMS whose periodic reconcile keeps getting answers.    *)
FinishedOrdersResolve ==
    \A o \in ClientIds :
        (phase = "up" /\ Present(orders, o) /\ venue[o].status \in {"filled", "cancelled"})
            ~> (phase # "up" \/ ~ Present(orders, o) \/ IsTerminal(orders.live[o]))
=============================================================================
