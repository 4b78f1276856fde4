----------------------------- MODULE OmsCoreV1 -----------------------------
(***************************************************************************)
(* OmsCore, the first OMS core (zk-oms-rs/src/oms_core.rs, order_mgr.rs,    *)
(* position_mgr.rs, reservation_mgr.rs and balance_mgr.rs).  The live OMS   *)
(* runs OmsCoreV2 (OmsCore.tla); the backtester still runs this one.        *)
(*                                                                          *)
(* A core is a record, and every message of process_message() an operator   *)
(* from a core to [core, acts]: the core after the message and the          *)
(* OmsActions it returns.  There is one gateway and one instrument.         *)
(*                                                                          *)
(*   orders   order_dict           open    open_order_ids                   *)
(*   queue    order_id_queue       cached  ids in context_cache             *)
(*   refs     exch_ref_to_order_id extIds  external_order_dict              *)
(*   pend     pending_order_reports                                         *)
(*   res      ReservationManager   pos, bal  the two managers' maps         *)
(*                                                                          *)
(* A context cached by process_order() or process_cancel() has no order in  *)
(* it; one that resolve_context_for_order() builds does.                    *)
(***************************************************************************)
EXTENDS PositionStore, ReservationStore, Sequences, FiniteSets, SequencesExt

CONSTANTS
    V1ClientIds,        \* order ids that requests use; the others are generated
    V1Refs,             \* exchange order references
    V1Routed,           \* accounts with a route to the gateway
    V1Fund, V1Base,     \* targets: the quote asset and the position symbol
    V1Price,            \* price of the instrument
    V1Batching,         \* support_batch_order and support_batch_cancel
    NoAccount,          \* account 0
    V1Configs,          \* trading configs and flags a core may run with
    V1Funded,           \* the starting position of V1Base and balance of V1Fund
    V1Requests, V1Reports, V1Updates,   \* the messages the core may receive
    V1MaxTraded,        \* bound on the trades reported for one order
    V1MaxPending        \* bound on the reports buffered for one reference

ASSUME V1Assumption ==
    /\ V1ClientIds \subseteq OrderIds /\ V1Routed \subseteq Accounts
    /\ V1Fund \in Targets /\ V1Base \in Targets /\ V1Price \in Nat
    /\ NoAccount \notin Accounts

V1NoId == 0
V1NoRef == "-"

V1Absent == [status |-> "Absent"]

V1Has(s, o) == o \in OrderIds /\ s.orders[o] # V1Absent

(* is_in_terminal_state()                                                   *)
V1Terminal(x) == x.status \in {"Filled", "Cancelled", "Rejected"}

(* OmsCore::new() and init_state() with no orders: the trading config of    *)
(* the instrument, the flags, the starting positions and balances.          *)
V1Core(cfg, pos0, bal0) ==
    [orders |-> [o \in OrderIds |-> V1Absent], open |-> {}, queue |-> << >>, cached |-> {},
     refs |-> [x \in V1Refs |-> V1NoId], extIds |-> [x \in V1Refs |-> V1NoId],
     pend |-> [x \in V1Refs |-> << >>], res |-> EmptyStore, pos |-> pos0, bal |-> bal0,
     panic |-> {}, cfg |-> cfg]

V1Result(s, acts) == [core |-> s, acts |-> acts]

V1Act(kind, o) == [act |-> kind, on |-> o]

-----------------------------------------------------------------------------
(* ReservationManager and PositionManager keep the algorithms that the      *)
(* stores of the second core took over.                                     *)

V1Reserve(s, o, k, q) == [s EXCEPT !.res = Reserve(@, o, k, q)]
V1Release(s, o) == [s EXCEPT !.res = Release(@, o)]
V1ReleasePartial(s, o, q) == [s EXCEPT !.res = ReleasePartial(@, o, q)]
V1CheckAvailable(s, k, q) == CheckAvailable(s.res, k, q, s.bal[k])
V1CheckAndFreeze(s, k, q) == [s EXCEPT !.pos[k] = Freeze(@, q)]
V1Unfreeze(s, k, q) == IF s.pos[k].known THEN [s EXCEPT !.pos[k] = Unfreeze(@, q)] ELSE s
V1ApplyDelta(s, k, av, fr, tot) == [s EXCEPT !.pos[k] = ApplyDelta(@, FALSE, av, fr, tot)]

-----------------------------------------------------------------------------
(* OrderManager                                                             *)

(* create_order()                                                           *)
V1CreateOrder(s, o, req) ==
    [s EXCEPT !.orders[o] = [status |-> "Pending", acct |-> req.acct, side |-> req.side,
                             qty |-> req.qty, filled |-> 0, traded |-> 0,
                             ref |-> V1NoRef, config |-> req.known],
              !.open = @ \cup {o}]

(* apply_order_error(): only the placing of an order can be rejected.       *)
V1ApplyOrderError(x, placing) == IF placing THEN [x EXCEPT !.status = "Rejected"] ELSE x

(* update_with_oms_error(): the order leaves the open set, and never enters *)
(* the eviction queue.                                                      *)
V1UpdateWithOmsError(s, o) ==
    [s EXCEPT !.orders[o] = V1ApplyOrderError(@, TRUE), !.open = @ \ {o}]

(* cleanup_order()                                                          *)
V1CleanupOrder(s, o) ==
    IF ~ V1Has(s, o) THEN [s EXCEPT !.cached = @ \ {o}]
    ELSE LET x == s.orders[o].ref
         IN  [s EXCEPT !.orders[o] = V1Absent,
                       !.refs = IF x \in V1Refs THEN [@ EXCEPT ![x] = V1NoId] ELSE @,
                       !.cached = @ \ {o}]

(* remove_open_order(): closed orders are kept up to a limit.               *)
V1RemoveOpenOrder(s, o) ==
    LET t == [s EXCEPT !.open = @ \ {o}, !.queue = Append(@, o)]
    IN  IF Len(t.queue) > s.cfg.max
        THEN V1CleanupOrder([t EXCEPT !.queue = Tail(@)], Head(t.queue))
        ELSE t

(* A can_update_status() without the terminal guard.                        *)
V1CanUpdateStatusAlways(old, new) == new # "Unspecified"

(* can_update_status()                                                      *)
V1CanUpdateStatus(old, new) == old \notin {"Cancelled", "Filled"} /\ new # "Unspecified"

(* infer_state_entry(): a report of trades with no state gets one.          *)
V1InferState(entries, x) ==
    LET trades == SelectSeq(entries, LAMBDA e : e.kind = "trade")
        total  == FoldSeq(LAMBDA e, n : n + e.qty, x.traded, trades)
    IN  IF \/ V1Terminal(x) \/ trades = << >> \/ total > x.qty
           \/ \E i \in DOMAIN entries : entries[i].kind = "state"
        THEN << >>
        ELSE <<[kind |-> "state", filled |-> total, left |-> x.qty - total,
                status |-> IF total = x.qty THEN "Filled" ELSE "PartiallyFilled"]>>

(* A state entry: the cumulative fill never goes back.                      *)
V1StateEntry(a, e) ==
    LET new == IF e.filled # 0 THEN e.filled ELSE IF e.left # 0 THEN a.x.qty - e.left ELSE 0
    IN  [a EXCEPT !.x.filled = Larger(new, @),
                  !.x.status = IF V1CanUpdateStatus(@, e.status) THEN e.status ELSE @,
                  !.updated = TRUE]

(* One entry of a report, on [x: the order, refs: linked references,        *)
(* updated: an event is due].  only: the report has no other entry.         *)
V1Entry(a, e, only) ==
    CASE e.kind = "linkage" ->
           LET promote == only /\ a.x.status \in {"Pending", "Rejected"}
           IN  [x |-> [a.x EXCEPT !.ref = e.ref, !.status = IF promote THEN "Booked" ELSE @],
                refs |-> a.refs \cup {e.ref}, updated |-> a.updated \/ promote]
      [] e.kind = "state" -> V1StateEntry(a, e)
      [] e.kind = "trade" -> [a EXCEPT !.x.traded = @ + e.qty, !.updated = TRUE]
      [] e.kind = "fee" -> [a EXCEPT !.updated = TRUE]
      [] e.kind = "exec" ->
           IF e.error THEN [a EXCEPT !.x = V1ApplyOrderError(@, e.placing), !.updated = TRUE] ELSE a

(* The order update_with_report() finds: an id it does not know is not      *)
(* looked up by reference.                                                  *)
V1Resolve(s, r) ==
    IF r.oid # V1NoId THEN (IF V1Has(s, r.oid) THEN r.oid ELSE V1NoId)
    ELSE IF r.ref \in V1Refs /\ V1Has(s, s.refs[r.ref]) THEN s.refs[r.ref] ELSE V1NoId

(* update_with_report(): [core, on], where on is the order an event is      *)
(* published for, V1NoId when there is none.                                *)
V1Apply(x, entries) ==
    FoldLeft(LAMBDA b, e : V1Entry(b, e, Len(entries) = 1),
             [x |-> x, refs |-> {}, updated |-> FALSE], entries)

V1Updated(s, o, a) ==
    LET t == [s EXCEPT !.orders[o] = a.x,
                       !.refs = [y \in V1Refs |-> IF y \in a.refs THEN o ELSE @[y]]]
    IN  [core |-> IF a.updated /\ V1Terminal(a.x) THEN V1RemoveOpenOrder(t, o) ELSE t,
         on   |-> IF a.updated THEN o ELSE V1NoId]

V1UpdateWithReport(s, r) ==
    LET o == V1Resolve(s, r)
    IN  IF o = V1NoId THEN [core |-> s, on |-> V1NoId]
        ELSE V1Updated(s, o, V1Apply([s.orders[o] EXCEPT !.ref = IF @ = V1NoRef THEN r.ref ELSE @],
                                     r.entries \o V1InferState(r.entries, s.orders[o])))

(* The PersistOrder and PublishOrderUpdate of an event.                     *)
V1Events(u) == IF u.on = V1NoId THEN << >> ELSE <<V1Act("Persist", u.on), V1Act("Order", u.on)>>

(* handle_external_order_report(): an order the OMS did not place gets a    *)
(* generated id at its first report.                                        *)
V1HandleExternal(s, r) ==
    LET new == CHOOSE o \in OrderIds \ V1ClientIds : s.orders[o] = V1Absent
        t   == IF s.extIds[r.ref] # V1NoId THEN s
               ELSE [s EXCEPT !.orders[new] = [status |-> "Pending", acct |-> r.acct,
                                               side |-> "none", qty |-> 0, filled |-> 0,
                                               traded |-> 0, ref |-> r.ref, config |-> FALSE],
                              !.extIds[r.ref] = new, !.refs[r.ref] = new, !.open = @ \cup {new}]
    IN  V1UpdateWithReport(t, [r EXCEPT !.oid = t.extIds[r.ref]])

-----------------------------------------------------------------------------
(* process_order()                                                          *)

V1Value(q) == q * V1Price

(* The errors of resolve_context() and of the risk check.                   *)
V1Refused(s, req) ==
    ~ req.known \/ req.acct \notin V1Routed \/ (s.cfg.risk /\ req.qty > s.cfg.maxSize)

(* The cash or the inventory is missing; only balance_check looks.          *)
V1Uncovered(s, req) ==
    /\ s.cfg.bc
    /\ IF req.side = "buy" THEN ~ V1CheckAvailable(s, <<req.acct, V1Fund>>, V1Value(req.qty))
       ELSE ~ CanFreeze(s.pos[<<req.acct, V1Base>>], req.qty)

(* What an order that passed the checks ties up.                            *)
V1TieUp(s, o, req) ==
    LET k == <<req.acct, V1Base>>
    IN  IF req.side = "buy" THEN V1Reserve(s, o, <<req.acct, V1Fund>>, V1Value(req.qty))
        ELSE V1Reserve(IF s.cfg.bc THEN V1CheckAndFreeze(s, k, req.qty) ELSE s, o, k, req.qty)

V1ProcessOrder(s, o, req) ==
    LET checked == ~ V1Refused(s, req) /\ s.cfg.bk /\ ~ s.cfg.um
        failed  == V1Refused(s, req) \/ (checked /\ V1Uncovered(s, req))
        tied    == IF checked /\ ~ failed THEN V1TieUp(s, o, req) ELSE s
        made    == [V1CreateOrder(tied, o, req) EXCEPT !.cached = @ \cup {o}]
    IN  CASE req.acct \in s.panic -> V1Result(s, << >>)
          [] req.acct \notin s.panic /\ checked /\ req.side = "none" ->
               V1Result(V1UpdateWithOmsError(V1CreateOrder(s, o, req), o), <<V1Act("Order", o)>>)
          [] req.acct \notin s.panic /\ ~ (checked /\ req.side = "none") ->
               IF failed
               THEN V1Result(V1UpdateWithOmsError(V1Release(made, o), o),
                             <<V1Act("Order", o), V1Act("Persist", o)>>)
               ELSE V1Result(made, <<V1Act("Send", o), V1Act("Persist", o)>>)

(* process_cancel(): an order the venue has not named yet cannot be         *)
(* cancelled.                                                               *)
V1ProcessCancel(s, o) ==
    IF ~ V1Has(s, o) THEN V1Result(s, << >>)
    ELSE V1Result([s EXCEPT !.cached = @ \cup {o}],
                  IF V1Terminal(s.orders[o]) \/ s.orders[o].ref = V1NoRef
                  THEN <<V1Act("Order", o)>> ELSE <<V1Act("Cancel", o)>>)

(* batch_process_orders() and batch_process_cancels(): what goes to the     *)
(* gateway comes last, as one batch where the gateway takes batches.        *)
V1Batch(result, kind) ==
    LET sends  == SelectSeq(result.acts, LAMBDA a : a.act = kind)
        others == SelectSeq(result.acts, LAMBDA a : a.act # kind)
    IN  [result EXCEPT !.acts = others \o
            IF V1Batching /\ Len(sends) > 1 THEN <<[act |-> "Batch" , on |-> sends]>> ELSE sends]

V1Then(b, n) == V1Result(n.core, b.acts \o n.acts)

V1BatchOrders(s, os, req) ==
    V1Batch(FoldLeft(LAMBDA b, o : V1Then(b, V1ProcessOrder(b.core, o, req)), V1Result(s, << >>), os),
            "Send")

V1BatchCancels(s, os) ==
    V1Batch(FoldLeft(LAMBDA b, o : V1Then(b, V1ProcessCancel(b.core, o)), V1Result(s, << >>), os),
            "Cancel")

-----------------------------------------------------------------------------
(* process_order_report()                                                   *)

(* process_fill_for_report(): the side and the price come from the          *)
(* context's order; without one the fill is taken for a sell.               *)
V1Fill(s, x, ctxOrder, oid, q) ==
    LET buy    == ctxOrder /\ x.side = "buy"
        frozen == ~ buy /\ s.cfg.bc
        k      == <<x.acct, V1Base>>
        t      == V1ApplyDelta(s, k, IF buy THEN q ELSE 0, IF frozen THEN -q ELSE 0,
                               IF buy THEN q ELSE -q)
    IN  IF oid = V1NoId THEN t ELSE V1ReleasePartial(t, oid, IF buy THEN V1Value(q) ELSE q)

V1ProcessFills(s, x, ctxOrder, r) ==
    LET trades == SelectSeq(r.entries, LAMBDA e : e.kind = "trade")
    IN  V1Result(FoldLeft(LAMBDA b, e : V1Fill(b, x, ctxOrder, r.oid, e.qty), s, trades),
                 IF trades = << >> THEN << >>
                 ELSE <<V1Act("Position", x.acct), V1Act("PersistPosition", x.acct)>>)

(* A cleanup that forgets cancelled orders.                                 *)
V1CleanupUnlessCancelled(s, o, ctx) ==
    IF o = V1NoId \/ ~ V1Has(s, o) \/ s.orders[o].status # "Filled" THEN s ELSE V1Release(s, o)

(* The end of a terminal order: its reservation and what it still froze.    *)
V1Cleanup(s, o, ctx) ==
    IF o = V1NoId \/ ~ V1Has(s, o) \/ ~ V1Terminal(s.orders[o]) THEN s
    ELSE LET x    == s.orders[o]
             left == x.qty - x.filled
             t    == V1Release(s, o)
         IN  IF ctx /\ s.cfg.bk /\ s.cfg.bc /\ x.side = "sell" /\ left > 0
             THEN V1Unfreeze(t, <<x.acct, V1Base>>, left) ELSE t

(* Buffered reports only update the order.                                  *)
V1Heard(u) == V1Result(u.core, V1Events(u))

V1Replay(s, reports, own) ==
    FoldLeft(LAMBDA b, r : V1Then(b, V1Heard(IF own THEN V1UpdateWithReport(b.core, r)
                                             ELSE V1HandleExternal(b.core, r))),
             V1Result(s, << >>), reports)

V1Pop(s, x) == [s EXCEPT !.pend = [@ EXCEPT ![x] = << >>]]

(* A found order's buffered reports, once it has its reference.             *)
V1ReplayOwn(s, x) ==
    IF x \in V1Refs THEN V1Replay(V1Pop(s, x), s.pend[x], TRUE) ELSE V1Result(s, << >>)

(* The rest of a report: cleanup, replay and the event.                     *)
V1Reported(u, acts, x, ctxOrder, ctx) ==
    LET t      == V1Cleanup(u.core, u.on, ctx)
        replay == V1Then(V1Result(t, acts), IF ctxOrder THEN V1ReplayOwn(t, x.ref) ELSE V1Result(t, << >>))
    IN  [replay EXCEPT !.acts = @ \o V1Events(u)]

(* An order of the OMS, found in its context cache, by id or by reference.  *)
V1OwnReport(s, r) ==
    LET o        == V1Resolve(s, r)
        cached   == r.oid # V1NoId /\ r.oid \in s.cached
        ctx      == cached \/ o # V1NoId
        ctxOrder == ctx /\ ~ cached
        x        == s.orders[o]
        books    == o # V1NoId /\ s.cfg.bk /\ x.config
        fills    == IF books THEN V1ProcessFills(s, x, ctxOrder, r) ELSE V1Result(s, << >>)
    IN  V1Reported(V1UpdateWithReport(fills.core, r), fills.acts, x, ctxOrder, ctx /\ books)

(* A report on an external order and those buffered for its reference.      *)
V1ReportedExternal(u, x) ==
    V1Then(V1Heard(u), V1Replay(V1Pop(u.core, x), u.core.pend[x], FALSE))

V1ProcessReport(s, r0) ==
    LET acct == IF r0.acct # NoAccount \/ ~ s.cfg.ext THEN r0.acct
                ELSE IF Cardinality(V1Routed) = 1 THEN CHOOSE a \in V1Routed : TRUE ELSE NoAccount
        r    == [r0 EXCEPT !.acct = acct]
        external == \/ r.src = "nontq"
                    \/ r.src = "unknown" /\ r.ref \in V1Refs /\ s.extIds[r.ref] # V1NoId
    IN  IF s.cfg.ext /\ acct = NoAccount THEN V1Result(s, << >>)
        ELSE IF s.cfg.ext /\ external
        THEN V1ReportedExternal(V1HandleExternal(s, r), r.ref)
        ELSE IF r.oid = V1NoId /\ V1Resolve(s, r) = V1NoId
        THEN V1Result(IF r.ref \in V1Refs THEN [s EXCEPT !.pend[r.ref] = Append(@, r)] ELSE s, << >>)
        ELSE V1OwnReport(s, r)

-----------------------------------------------------------------------------
(* process_balance_update(): spot entries are balances, the others          *)
(* positions, of the account the first entry's account code stands for.     *)
V1MergeBalances(s, a, entries) ==
    [s EXCEPT !.bal = [k \in Keys |-> IF k[1] = a /\ k[2] \in DOMAIN entries
                                      THEN entries[k[2]] ELSE @[k]]]

(* merge_gw_position_entries() and update_reconcile_status()                *)
V1MergePositions(s, a, entries) ==
    [s EXCEPT !.pos = [k \in Keys |->
        IF k[1] = a /\ k[2] \in DOMAIN entries
        THEN LET e == entries[k[2]]
             IN  UpdateReconcileStatus(Seed(@[k], e.qty, e.avail, e.short), e.qty)
        ELSE @[k]]]

V1ProcessBalance(s, u) ==
    IF u.acct \notin V1Routed \/ DOMAIN u.spot \cup DOMAIN u.other = {} THEN V1Result(s, << >>)
    ELSE V1Result(V1MergePositions(V1MergeBalances(s, u.acct, u.spot), u.acct, u.other),
                  (IF DOMAIN u.spot = {} THEN << >> ELSE <<V1Act("Balance", u.acct)>>) \o
                  (IF DOMAIN u.other = {} THEN << >> ELSE <<V1Act("Position", u.acct)>>))

(* process_recheck_order(): an order still pending after the delay is       *)
(* rejected; it stays in the open set and its inventory stays frozen.       *)
V1RecheckOrder(s, o) ==
    IF ~ V1Has(s, o) \/ s.orders[o].status # "Pending" THEN V1Result(s, << >>)
    ELSE V1Result(V1Release([s EXCEPT !.orders[o] = V1ApplyOrderError(@, TRUE)], o),
                  <<V1Act("Order", o), V1Act("Persist", o)>>)

(* process_recheck_cancel(): the client is told, nothing changes.           *)
V1RecheckCancel(s, o) ==
    V1Result(s, IF V1Has(s, o) /\ ~ V1Terminal(s.orders[o]) THEN <<V1Act("Order", o)>> ELSE << >>)

(* process_cleanup(): buffered reports older than ten minutes belong to     *)
(* external orders.  All of them leave the buffer before any is processed.  *)
V1ProcessCleanup(s, stale) ==
    LET reports == FoldLeft(LAMBDA q, x : q \o s.pend[x], << >>, SetToSeq(stale))
        emptied == [s EXCEPT !.pend = [x \in V1Refs |-> IF x \in stale THEN << >> ELSE @[x]]]
    IN  IF ~ s.cfg.ext THEN V1Result(s, << >>)
        ELSE FoldLeft(LAMBDA b, r : V1Then(b, V1ProcessReport(b.core, [r EXCEPT !.src = "nontq"])),
                      V1Result(emptied, << >>), reports)

-----------------------------------------------------------------------------
(* The core as a state machine: any sequence of messages, order ids used    *)
(* once and reports only for orders that went to the gateway.               *)
VARIABLES
    v1,         \* the core
    v1acts,     \* what the last process_message() returned
    v1sent,     \* orders that went to the gateway (history)
    v1late      \* references whose reports had to be buffered (history)

V1Vars == <<v1, v1acts, v1sent, v1late>>

V1Start(cfg) ==
    V1Core(cfg, [k \in Keys |-> IF k[2] = V1Base THEN Seed(NoPosition, V1Funded, V1Funded, FALSE)
                                ELSE NoPosition],
           [k \in Keys |-> IF k[2] = V1Fund THEN V1Funded ELSE 0])

V1Init ==
    /\ v1 \in {V1Start(cfg) : cfg \in V1Configs}
    /\ v1acts = << >>
    /\ v1sent = {}
    /\ v1late = {}

V1SentBy(acts) ==
    {acts[i].on : i \in {j \in DOMAIN acts : acts[j].act = "Send"}} \cup
    UNION {{acts[i].on[j].on : j \in DOMAIN acts[i].on} :
              i \in {j \in DOMAIN acts : acts[j].act = "Batch"}}

V1Does(result) ==
    /\ v1' = result.core
    /\ v1acts' = result.acts
    /\ v1late' = v1late \cup {x \in V1Refs : result.core.pend[x] # << >>}

V1Fresh == V1ClientIds \ {o \in OrderIds : V1Has(v1, o)}

V1Place(o, req) ==
    /\ o \in V1Fresh \ v1sent
    /\ V1Does(V1ProcessOrder(v1, o, req))
    /\ v1sent' = v1sent \cup V1SentBy(v1acts')

V1PlaceBatch(o, p, req) ==
    /\ o # p /\ {o, p} \subseteq V1Fresh \ v1sent
    /\ V1Does(V1BatchOrders(v1, <<o, p>>, req))
    /\ v1sent' = v1sent \cup V1SentBy(v1acts')

V1Other(result) == V1Does(result) /\ UNCHANGED v1sent

V1Report(r) ==
    /\ r.oid # V1NoId => r.oid \in v1sent
    /\ r.ref \in V1Refs => Len(v1.pend[r.ref]) < V1MaxPending
    /\ LET o == V1Resolve(v1, r)
       IN  o # V1NoId => FoldSeq(LAMBDA e, n : n + (IF e.kind = "trade" THEN e.qty ELSE 0),
                                 v1.orders[o].traded, r.entries) <= V1MaxTraded
    /\ V1Other(V1ProcessReport(v1, r))

V1Panic(a) == V1Other(V1Result([v1 EXCEPT !.panic = @ \cup {a}], << >>))
V1DontPanic(a) == V1Other(V1Result([v1 EXCEPT !.panic = @ \ {a}], << >>))

V1Next ==
    \/ \E o \in V1ClientIds, req \in V1Requests : V1Place(o, req)
    \/ \E o, p \in V1ClientIds, req \in V1Requests : V1PlaceBatch(o, p, req)
    \/ \E o \in V1ClientIds : V1Other(V1ProcessCancel(v1, o))
    \/ \E o, p \in V1ClientIds : o # p /\ V1Other(V1BatchCancels(v1, <<o, p>>))
    \/ \E r \in V1Reports : V1Report(r)
    \/ \E u \in V1Updates : V1Other(V1ProcessBalance(v1, u))
    \/ \E o \in V1ClientIds : V1Other(V1RecheckOrder(v1, o)) \/ V1Other(V1RecheckCancel(v1, o))
    \/ \E stale \in SUBSET V1Refs : V1Other(V1ProcessCleanup(v1, stale))
    \/ \E a \in Accounts : V1Panic(a) \/ V1DontPanic(a)

V1Spec == V1Init /\ [][V1Next]_V1Vars

-----------------------------------------------------------------------------
(* An order that still holds cash or inventory is known and unfinished:     *)
(* process_order_report() releases at the terminal state, a rejection       *)
(* releases at once, and an evicted order took its reservation with it.     *)
(* Reports that had to be buffered are replayed past that release and are   *)
(* left out.                                                                *)
V1HeldByUnfinished ==
    \A o \in OrderIds : v1.res.res[o] # NoRes =>
        /\ V1Has(v1, o)
        /\ V1Terminal(v1.orders[o]) => v1.orders[o].ref \in v1late

=============================================================================
