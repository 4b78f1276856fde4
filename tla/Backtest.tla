------------------------------ MODULE Backtest ------------------------------
(***************************************************************************)
(* The backtester (zk-backtest-rs: backtester.rs, event_queue.rs and        *)
(* backtest_oms.rs) with the first OMS core, the exchange simulator         *)
(* (zk-sim-core) and the strategy runner, context and timers                *)
(* (zk-strategy-sdk-rs).  The strategy is any one: every callback, and the  *)
(* timers due together, may answer with one action or none.                 *)
(*                                                                          *)
(* The whole replay is deterministic but for the strategy and for the order *)
(* in which the heap gives up events of one time and priority.  It is the   *)
(* record bt:                                                               *)
(*   oms, sim, book, ledger   BacktestOms: the core, the simulator's orders *)
(*   and policy               and last tick, the simulated balances         *)
(*   heap, at                 EventQueue: dynamic events, stream cursors    *)
(*   ctx, timers              StrategyContext (one account), TimerManager   *)
(*   phase, now, asked        the run, the last event's time, actions taken *)
(***************************************************************************)
EXTENDS OmsCoreV1

CONSTANTS
    BtAccount,      \* the strategy's account
    BtRefs,         \* order id -> the reference the simulator gives it
    BtPolicies,     \* the match policies, of "immediate" and "fcfs"
    BtStreams,      \* sequences of [ts, kind, levels]: the recorded market data
    BtQtys,         \* quantities the strategy orders
    BtDelays,       \* how far ahead the strategy sets its timers
    BtCron,         \* period of the recurring timer
    BtEnd,          \* end_ms of the recurring timer
    BtMaxAsked      \* bound on the strategy's actions

ASSUME BacktestAssumption ==
    /\ BtAccount \in V1Routed
    /\ BtPolicies \subseteq {"immediate", "fcfs"}
    /\ BtCron \in 1 .. BtEnd /\ BtMaxAsked \in Nat

VARIABLE bt

(* trading config of new(): bookkeeping_balance, no balance_check; OmsCore  *)
(* with no risk check and no external orders.                               *)
BtConfig == [bk |-> TRUE, bc |-> FALSE, um |-> FALSE, risk |-> FALSE, maxSize |-> 0,
             max |-> NumOrders, ext |-> FALSE]

BtNoOrder == [left |-> 0, filled |-> 0, upd |-> 0, buy |-> FALSE, ts |-> 0, known |-> FALSE]

BtNoBook == [ts |-> 0, kind |-> "none", levels |-> << >>]

BtPriority(kind) ==
    CASE kind = "tick" -> 10
      [] kind = "signal" -> 9
      [] kind = "bar" -> 8
      [] kind \in {"balance", "position"} -> 7
      [] kind = "order" -> 6
      [] kind = "timer" -> 5

-----------------------------------------------------------------------------
(* EventQueue                                                               *)

(* push(): n tells events of one time and kind apart.                       *)
BtPush(s, ts, kind, body) ==
    LET n == 1 + Cardinality(s.heap)
    IN  [s EXCEPT !.heap = @ \cup {[ts |-> ts, kind |-> kind, body |-> body,
                                    n |-> CHOOSE i \in 1 .. n : \A e \in s.heap : e.n # i]}]

BtBefore(d, e) ==
    d.ts < e.ts \/ (d.ts = e.ts /\ BtPriority(d.kind) > BtPriority(e.kind))

BtHeads(s) == {i \in DOMAIN BtStreams : s.at[i] <= Len(BtStreams[i])}

(* pop(): the k-way merge.  The heap wins a tie with a stream, the first    *)
(* stream a tie with another; heap events of equal rank come in any order.  *)
BtPop(s) ==
    LET head(i) == BtStreams[i][s.at[i]]
        best == {i \in BtHeads(s) : \A j \in BtHeads(s) :
                    ~ BtBefore(head(j), head(i)) /\ (j < i => BtBefore(head(i), head(j)))}
        tops == {d \in s.heap : \A c \in s.heap : ~ BtBefore(c, d)}
        dynamic == \A i \in best, d \in tops : ~ BtBefore(head(i), d)
    IN  IF tops # {} /\ dynamic
        THEN {[event |-> [ts |-> e.ts, kind |-> e.kind, body |-> e.body],
               rest  |-> [s EXCEPT !.heap = @ \ {e}]] : e \in tops}
        ELSE {[event |-> head(i), rest |-> [s EXCEPT !.at[i] = @ + 1]] : i \in best}

-----------------------------------------------------------------------------
(* SimulatorCore and the match policies                                     *)

(* A walk that takes every level whole.                                     *)
BtWalkGreedy(x, tick) ==
    LET hits == SelectSeq(tick.levels, LAMBDA l : l.buy # x.buy /\ l.price = V1Price)
    IN  [i \in DOMAIN hits |-> [ts |-> tick.ts + 10 * i, qty |-> hits[i].qty]]

(* FirstComeFirstServedMatchPolicy: the levels of the other side that the   *)
(* limit price crosses, each 10 ms later than the one before.               *)
BtWalk(x, tick) ==
    LET step(a, l) ==
            IF a.left <= 0 \/ l.buy = x.buy \/ (IF x.buy THEN l.price > V1Price ELSE l.price < V1Price)
            THEN a
            ELSE LET q == Smaller(a.left, l.qty)
                 IN  [left |-> a.left - q, delay |-> a.delay + 10,
                      out |-> Append(a.out, [ts |-> tick.ts + a.delay, qty |-> q])]
    IN  FoldLeft(step, [left |-> x.left, delay |-> 10, out |-> << >>], tick.levels).out

BtMatchOrder(policy, x, tick) ==
    IF policy = "immediate" THEN <<[ts |-> x.ts + 1, qty |-> x.left]>> ELSE BtWalk(x, tick)

BtStateEntry(x, status) == [kind |-> "state", status |-> status, filled |-> x.filled, left |-> x.left]

BtReport(o, entries) ==
    [oid |-> o, ref |-> BtRefs[o], src |-> "tq", acct |-> NoAccount, entries |-> entries]

BtLinkage(o) == [kind |-> "linkage", ref |-> BtRefs[o]]

(* The time of a fill: never before the order's last report.                *)
BtMatchTime(x, m) == Larger(m.ts, x.upd + 1)

(* apply_match(), on [sim order, results]                                   *)
BtApplyMatch(o, a, m, link) ==
    IF a.x.left <= 0 /\ a.out # << >> THEN a
    ELSE LET ts == BtMatchTime(a.x, m)
             x  == [a.x EXCEPT !.filled = @ + m.qty, !.left = @ - m.qty, !.upd = ts]
             entries == (IF link THEN <<BtLinkage(o)>> ELSE << >>) \o
                        <<[kind |-> "trade", qty |-> m.qty],
                          BtStateEntry(x, IF x.left <= 0 THEN "Filled" ELSE "Booked")>>
         IN  [x |-> x, out |-> Append(a.out, [ts |-> ts, report |-> BtReport(o, entries)])]

BtApplyMatches(o, x, matches, link) ==
    FoldLeft(LAMBDA a, m : BtApplyMatch(o, a, m, link), [x |-> x, out |-> << >>], matches)

(* validate(), and the report of a request it refuses, without error_info.  *)
BtRefused(y) == y.qty <= 0

BtRejected(o) == BtReport(o, <<[kind |-> "exec", placing |-> TRUE, error |-> FALSE]>>)

(* on_new_order(): [sim, results]; a refused request is not kept.           *)
BtSimNew(s, o, ts) ==
    LET y == s.oms.orders[o]
        x == [left |-> y.qty, filled |-> 0, upd |-> ts, buy |-> y.side = "buy", ts |-> ts,
              known |-> TRUE]
        a == BtApplyMatches(o, x, BtMatchOrder(s.policy, x, s.book), TRUE)
    IN  IF BtRefused(y)
        THEN [sim |-> s.sim, out |-> <<[ts |-> ts, report |-> BtRejected(o)]>>]
        ELSE [sim |-> [s.sim EXCEPT ![o] = a.x],
              out |-> <<[ts |-> ts, report |-> BtReport(o, <<BtLinkage(o), BtStateEntry(x, "Booked")>>)]>>
                      \o a.out]

(* on_cancel()                                                              *)
BtSimCancel(s, o, ts) ==
    LET x == [s.sim[o] EXCEPT !.left = 0, !.upd = ts + 1]
    IN  IF ~ s.sim[o].known \/ s.sim[o].left <= 0 THEN [sim |-> s.sim, out |-> << >>]
        ELSE [sim |-> [s.sim EXCEPT ![o] = x],
              out |-> <<[ts |-> ts + 1, report |-> BtReport(o, <<BtStateEntry(x, "Cancelled")>>)]>>]

(* on_tick(): every active order, in the hash map's order.                  *)
BtSimTick(s, tick) ==
    LET active == SetToSeq({o \in OrderIds : s.sim[o].known /\ s.sim[o].left > 0})
    IN  FoldLeft(LAMBDA a, o : LET ms == BtMatchOrder(s.policy, a.sim[o], tick)
                                   m  == BtApplyMatches(o, a.sim[o], ms, FALSE)
                               IN  [sim |-> [a.sim EXCEPT ![o] = m.x], out |-> a.out \o m.out],
                 [sim |-> s.sim, out |-> << >>], active)

-----------------------------------------------------------------------------
(* BacktestOms                                                              *)

(* The published actions of the core become events; persists do not.        *)
BtPublish(s, acts, ts) ==
    LET push(t, a) ==
            CASE a.act = "Order" ->
                   BtPush(t, ts, "order", [id |-> a.on, status |-> t.oms.orders[a.on].status])
              [] a.act = "Position" ->
                   BtPush(t, ts, "position", [total |-> t.oms.pos[<<a.on, V1Base>>].total])
              [] a.act = "Balance" -> BtPush(t, ts, "balance", t.oms.bal)
              [] OTHER -> t
    IN  FoldLeft(push, s, acts)

(* apply_sim_fill(): base and quote of the ledger of the report's account.  *)
BtApplySimFill(ledger, r, buy, q) ==
    [ledger EXCEPT ![r.acct] = [@ EXCEPT ![V1Base] = @ + (IF buy THEN q ELSE -q),
                                         ![V1Fund] = @ + (IF buy THEN -V1Value(q) ELSE V1Value(q))]]

(* extract_fills()                                                          *)
BtFills(r) == SelectSeq(r.entries, LAMBDA e : e.kind = "trade" /\ e.qty > 0)

(* build_sim_balance_update()                                               *)
BtLedgerUpdate(ledger, a) == [acct |-> a, spot |-> ledger[a], other |-> [t \in {} |-> 0]]

(* What the core returned for a report or an update, at the event's time.   *)
BtTell(s, done, ts) == BtPublish([s EXCEPT !.oms = done.core], done.acts, ts)

(* After fills, the core gets a balance update made of the ledger.          *)
BtRefresh(s, a, ts) == BtTell(s, V1ProcessBalance(s.oms, BtLedgerUpdate(s.ledger, a)), ts)

BtSettle(s, r, ts) ==
    LET fill(l, e) == BtApplySimFill(l, r, s.sim[r.oid].buy, e.qty)
    IN  IF BtFills(r) = << >> THEN s
        ELSE BtRefresh([s EXCEPT !.ledger = FoldLeft(fill, @, BtFills(r))], r.acct, ts)

(* process_sim_results()                                                    *)
BtSimResult(s, sr) ==
    BtSettle(BtTell(s, V1ProcessReport(s.oms, sr.report), sr.ts + 2), sr.report, sr.ts + 2)

BtSimResults(s, result) == FoldLeft(BtSimResult, [s EXCEPT !.sim = result.sim], result.out)

(* handle_oms_actions(): requests go to the simulator, updates to the queue.*)
BtHandle(s, acts, ts) ==
    LET handle(t, a) ==
            IF a.act \in {"Send", "Cancel"}
            THEN BtSimResults(t, IF a.act = "Send" THEN BtSimNew(t, a.on, ts) ELSE BtSimCancel(t, a.on, ts))
            ELSE BtPublish(t, <<a>>, ts + 1)
    IN  FoldLeft(handle, s, acts)

BtCarryOut(s, done, ts) == BtHandle([s EXCEPT !.oms = done.core], done.acts, ts)

BtOnNewOrder(s, o, req, ts) == BtCarryOut(s, V1ProcessOrder(s.oms, o, req), ts)

BtOnCancel(s, o, ts) == BtCarryOut(s, V1ProcessCancel(s.oms, o), ts)

BtOnTick(s, tick) == BtSimResults([s EXCEPT !.book = tick], BtSimTick(s, tick))

-----------------------------------------------------------------------------
(* StrategyContext                                                          *)

BtContext == [pending |-> {}, open |-> {}, terminal |-> {}, cancels |-> {}, mine |-> {},
              now |-> 0, total |-> 0, balances |-> [k \in Keys |-> 0]]

BtTerminal(status) == status \in {"Filled", "Cancelled", "Rejected"}

BtBookOrder(c, o) == [c EXCEPT !.pending = @ \cup {o}, !.mine = @ \cup {o}]

BtBookCancel(c, o) == IF o \in c.mine THEN [c EXCEPT !.cancels = @ \cup {o}] ELSE c

(* on_order_update(): the snapshot decides, however old it is.              *)
BtOnOrderUpdate(c, e) ==
    IF BtTerminal(e.status)
    THEN [c EXCEPT !.terminal = @ \cup {e.id}, !.open = @ \ {e.id}, !.pending = @ \ {e.id},
                   !.cancels = @ \ {e.id}]
    ELSE [c EXCEPT !.open = @ \cup {e.id}, !.pending = @ \ {e.id}]

(* on_balance_update() and on_position_update()                             *)
BtOnBalanceUpdate(c, balances) == [c EXCEPT !.balances = balances]
BtOnPositionUpdate(c, e) == [c EXCEPT !.total = e.total]

(* StrategyRunner: the context takes the event before the callback sees it. *)
BtSeen(c, e) ==
    CASE e.kind = "order" -> BtOnOrderUpdate(c, e.body)
      [] e.kind = "position" -> BtOnPositionUpdate(c, e.body)
      [] e.kind = "balance" -> BtOnBalanceUpdate(c, e.body)
      [] OTHER -> c

-----------------------------------------------------------------------------
(* TimerManager                                                             *)

(* subscribe_once_at() and subscribe_cron()                                 *)
BtSubscribeOnce(timers, at) == timers \cup {[fire |-> at, cron |-> FALSE]}
BtSubscribeCron(timers) == timers \cup {[fire |-> BtCron, cron |-> TRUE]}

BtDue(s, ts) == {t \in s.timers : t.fire <= ts}

(* drain_due(): due one-shot timers go; a recurring one moves past ts, or   *)
(* goes once its next time is after its end.                                *)
BtDrain(s, ts) ==
    LET next(t) == [t EXCEPT !.fire = @ + BtCron * (1 + (ts - @) \div BtCron)]
    IN  [s EXCEPT !.timers = (@ \ BtDue(s, ts)) \cup
                             {u \in {next(t) : t \in {d \in BtDue(s, ts) : d.cron}} : u.fire <= BtEnd}]

-----------------------------------------------------------------------------
(* Backtester                                                               *)

(* SequentialIdAllocator                                                    *)
BtNextId(s) == 1 + Cardinality(s.ctx.mine)

(* What a callback may return: nothing, an order under the allocator's next *)
(* id, a cancel of an order of its own, a one-shot or a recurring timer.    *)
BtAnswers(s) ==
    {<< >>} \cup
    (IF s.asked >= BtMaxAsked THEN {} ELSE
        {<<[do |-> "place", buy |-> b, qty |-> q]>> :
            b \in BOOLEAN, q \in IF BtNextId(s) \in V1ClientIds THEN BtQtys ELSE {}} \cup
        {<<[do |-> "cancel", id |-> o]>> : o \in s.ctx.mine} \cup
        {<<[do |-> "once", after |-> d]>> : d \in BtDelays} \cup
        (IF \E t \in s.timers : t.cron THEN {} ELSE {<<[do |-> "cron"]>>}))

(* to_order_request()                                                       *)
BtRequest(a) == [acct |-> BtAccount, known |-> TRUE, qty |-> a.qty,
                 side |-> IF a.buy THEN "buy" ELSE "sell"]

(* dispatch_actions()                                                       *)
BtDispatch(s, acts, ts) ==
    LET do(t, a) ==
            CASE a.do = "place" ->
                   LET o == BtNextId(t)
                   IN  BtOnNewOrder([t EXCEPT !.ctx = BtBookOrder(@, o)], o, BtRequest(a), ts)
              [] a.do = "cancel" -> BtOnCancel([t EXCEPT !.ctx = BtBookCancel(@, a.id)], a.id, ts)
              [] a.do = "once" ->
                   [t EXCEPT !.timers = BtSubscribeOnce(@, t.ctx.now + a.after)]
              [] a.do = "cron" -> [t EXCEPT !.timers = BtSubscribeCron(@)]
    IN  [FoldLeft(do, s, acts) EXCEPT !.asked = @ + Len(acts)]

(* The simulated exchange starts with the balances the core starts with.    *)
BtLedger == [a \in Accounts \cup {NoAccount} |->
                [t \in Targets |-> IF a = BtAccount THEN V1Funded ELSE 0]]

BtInit ==
    \E policy \in BtPolicies :
        bt = [policy |-> policy, oms |-> V1Start(BtConfig), ledger |-> BtLedger, ctx |-> BtContext,
              sim |-> [o \in OrderIds |-> BtNoOrder], book |-> BtNoBook, timers |-> {},
              heap |-> {}, at |-> [i \in DOMAIN BtStreams |-> 1],
              phase |-> "create", now |-> 0, asked |-> 0]

(* on_create, on_init and on_reinit, before the loop.                       *)
BtLifecycle ==
    /\ bt.phase \in {"create", "init", "reinit"}
    /\ \E acts \in BtAnswers(bt) :
          bt' = [BtDispatch(bt, acts, 0) EXCEPT
                    !.phase = CASE @ = "create" -> "init" [] @ = "init" -> "reinit"
                                [] @ = "reinit" -> "loop"]

(* advance_time(), and drain_timers_at() for the events the replay makes,   *)
(* which leave the context's time alone: what may be run before the event.  *)
BtTimed(s, e) ==
    LET synth == e.kind \in {"order", "balance", "position"}
        start == [s EXCEPT !.now = e.ts, !.ctx.now = IF synth THEN @ ELSE e.ts]
        drained == BtDrain(start, e.ts)
    IN  {BtDispatch(drained, acts, e.ts) :
            acts \in IF BtDue(start, e.ts) = {} THEN {<< >>} ELSE BtAnswers(drained)}

(* One turn of the loop: the timers due, then the event; a tick fills       *)
(* orders before the strategy sees it.                                      *)
BtEvent ==
    /\ bt.phase = "loop"
    /\ \E p \in BtPop(bt) : \E fired \in BtTimed(p.rest, p.event) :
          LET e    == p.event
              seen == [(IF e.kind = "tick" THEN BtOnTick(fired, e) ELSE fired)
                          EXCEPT !.ctx = BtSeen(@, e)]
          IN  \E acts \in BtAnswers(seen) : bt' = BtDispatch(seen, acts, e.ts)

BtFinish == bt.phase = "loop" /\ BtPop(bt) = {} /\ bt' = [bt EXCEPT !.phase = "done"]

BtNext == BtLifecycle \/ BtEvent \/ BtFinish

BtVars == <<bt>>

BtSpec == BtInit /\ [][BtNext]_BtVars

-----------------------------------------------------------------------------
(* The core and the simulator agree on every order at every turn of the     *)
(* loop: the same cumulative fill, never more than the quantity, and        *)
(* finished in the one exactly when nothing remains in the other.           *)
OmsTracksSimulator ==
    \A o \in OrderIds : bt.sim[o].known =>
        LET x == bt.sim[o]
            y == bt.oms.orders[o]
        IN  /\ y.filled = x.filled /\ y.filled <= y.qty
            /\ V1Terminal(y) <=> x.left = 0

=============================================================================
