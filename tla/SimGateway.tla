---------------------------- MODULE SimGateway ----------------------------
(***************************************************************************)
(* The gateway service on the simulator venue (zk-gw-svc, zk-sim-core).    *)
(* gRPC handlers hand commands to sharded workers; a worker calls the      *)
(* simulator adapter under one mutex, but queues the resulting events      *)
(* after releasing it; the admin service works on the same simulator from  *)
(* its own RPCs; one event loop takes the queued events through the        *)
(* semantic pipeline to NATS.                                               *)
(*                                                                         *)
(* What an actor (a worker or an admin RPC) still has to do once it has    *)
(* released the mutex is its list todo[actor]; one entry is one step.      *)
(* Every order buys OrderQty of one instrument at one limit price, and a   *)
(* tick is the sequence of the quantities it offers within that limit.     *)
(***************************************************************************)
EXTENDS SemanticPipeline, Integers, Sequences, FiniteSets, SequencesExt, FiniteSetsExt, Functions, Bags, BagsExt, TLC

CONSTANTS
    GwOrders,      \* order ids
    OrderQty,      \* quantity of an order
    Shards,        \* shard_count
    ShardCap,      \* queue_capacity of a shard
    Admins,        \* admin clients, each with at most one RPC in progress
    GwInstruments, \* instruments of the simulator's position table
    Ticks,         \* ticks an admin may submit
    RuleSet,       \* error rules an admin may inject
    Scripts        \* what the environment does: see SgInit

VARIABLES
    gw,     \* the service's phase, and the environment's remaining script
    shard,  \* the queue of each shard
    sim,    \* SimulatorState: book, account and control state, behind the mutex
    todo,   \* what each actor still has to do
    wire,   \* the adapter's event channel
    pipe,   \* the semantic pipeline's memory
    out     \* history: what was accepted and what was published

SgVars == <<gw, shard, sim, todo, wire, pipe, out>>

Workers == 0..(Shards - 1)
ShardOf(o) == o % Shards

SgPlace(o) == [do |-> "place", id |-> o]
SgCancel(o) == [do |-> "cancel", id |-> o]
Send(ev) == [do |-> "send", ev |-> ev]
Settle(qty) == [do |-> "settle", qty |-> qty]
ReadBalances == [do |-> "read"]

Report(o, kind, trade) == [ev |-> "report", id |-> o, kind |-> kind, trade |-> trade]
BalanceFacts(b) == [ev |-> "balance", qty |-> b]
PositionFacts(held) == [ev |-> "position", held |-> held]

(***************************************************************************)
(* Publication (NatsPublisher).  out keeps, per order, how many reports of *)
(* each kind went out, and the positions a subscriber has seen.            *)
(***************************************************************************)
Publish(u, r) == [u EXCEPT !.kinds[r.id] = [@ EXCEPT ![r.kind] = @ + 1]]

RejectionReport(o) == Report(o, "rejected", NoTrade)
CancelRejectionReport(o) == Report(o, "cancel_rejected", NoTrade)

(***************************************************************************)
(* Injected errors: of the rules of a scope that still have triggers the   *)
(* one with the lowest priority number fires, the earliest among equals.   *)
(***************************************************************************)
CanFire(rule) == rule.enabled /\ rule.left # 0

Firing(rules, scope) ==
    LET fit == {i \in DOMAIN rules : rules[i].scope = scope /\ CanFire(rules[i])}
    IN  {i \in fit : \A j \in fit : rules[i].prio < rules[j].prio
                                     \/ (rules[i].prio = rules[j].prio /\ i <= j)}

Fire(rule) == IF rule.left > 0 THEN [rule EXCEPT !.left = @ - 1] ELSE rule

EvaluateRules(s, scope) ==
    LET hit == Firing(s.rules, scope)
    IN  IF hit = {} THEN [effect |-> "none", sim |-> s]
        ELSE LET i == CHOOSE x \in hit : TRUE
             IN  [effect |-> s.rules[i].effect, sim |-> [s EXCEPT !.rules[i] = Fire(@)]]

(***************************************************************************)
(* SimulatorCore and the account state.  A function on sim takes the       *)
(* simulator and returns [sim, evs]: its next state and its results.       *)
(***************************************************************************)
InitialSim(policy) ==
    [rem |-> << >>, book |-> << >>, policy |-> policy, paused |-> FALSE, rules |-> << >>,
     bal |-> 0, positions |-> << >>, trades |-> 0]

\* FirstComeFirstServedMatchPolicy: a buy walks the levels until it is filled.
WalkLevels(levels, qty) ==
    FoldLeft(LAMBDA acc, offered :
                 LET take == Min({acc.left, offered})
                 IN  IF acc.left = 0 THEN acc
                     ELSE [left |-> acc.left - take, fills |-> Append(acc.fills, take)],
             [left |-> qty, fills |-> << >>], levels).fills

MatchOrder(s, o) ==
    IF s.policy = "immediate" THEN <<s.rem[o]>> ELSE WalkLevels(s.book, s.rem[o])

ApplyMatch(r, o, qty) ==
    LET s == [r.sim EXCEPT !.rem[o] = @ - qty, !.trades = @ + 1]
    IN  [sim |-> s, evs |-> Append(r.evs, Report(o, "fill", s.trades))]

ApplyMatches(r, o, fills) == FoldLeft(LAMBDA acc, q : ApplyMatch(acc, o, q), r, fills)

Filled(fills) == FoldLeft(+, 0, fills)

OnNewOrder(s, o, negative) ==
    IF negative THEN [sim |-> s, evs |-> <<Report(o, "rejected", NoTrade)>>, qty |-> 0]
    ELSE LET booked == [s EXCEPT !.rem = (o :> OrderQty) @@ @]
             fills  == IF s.paused THEN << >> ELSE MatchOrder(booked, o)
             r      == ApplyMatches([sim |-> booked,
                                     evs |-> <<Report(o, "booked", NoTrade)>>], o, fills)
         IN  [sim |-> r.sim, evs |-> r.evs, qty |-> Filled(fills)]

OnCancel(s, o) ==
    IF o \in DOMAIN s.rem /\ s.rem[o] > 0
    THEN [sim |-> [s EXCEPT !.rem[o] = 0], evs |-> <<Report(o, "cancelled", NoTrade)>>]
    ELSE [sim |-> s, evs |-> << >>]

OpenOrders(s) == {o \in DOMAIN s.rem : s.rem[o] > 0}

\* ids: the orders with something left, in the hash map's order.
OnTick(s, levels, ids) ==
    FoldLeft(LAMBDA r, o : ApplyMatches(r, o, MatchOrder(r.sim, o)),
             [sim |-> [s EXCEPT !.book = levels], evs |-> << >>], ids)

ApplyFillToBalances(s, qty) == [s EXCEPT !.bal = @ + qty]

Sends(evs) == [i \in DOMAIN evs |-> Send(evs[i])]

(***************************************************************************)
(* The adapter's place_order and cancel_order after the error check: one   *)
(* critical section, then the events still to be queued.  The balance      *)
(* snapshot is taken inside and queued first.                              *)
(***************************************************************************)
AdapterPlace(s, o) ==
    LET r  == OnNewOrder(s, o, o \in gw.script.negative)
        s2 == ApplyFillToBalances(r.sim, r.qty)
    IN  [sim |-> s2,
         todo |-> Sends((IF r.qty > 0 THEN <<BalanceFacts(s2.bal)>> ELSE << >>) \o r.evs)]

AdapterCancel(s, o) ==
    LET r == OnCancel(s, o)
    IN  [sim |-> r.sim,
         todo |-> IF r.evs = << >>
                  THEN <<[do |-> "publish", ev |-> CancelRejectionReport(o)]>>
                  ELSE Sends(r.evs)]

AdapterExecute(s, cmd) == IF cmd.do = "place" THEN AdapterPlace(s, cmd.id) ELSE AdapterCancel(s, cmd.id)

Refusal(cmd) ==
    [do |-> "publish",
     ev |-> IF cmd.do = "place" THEN RejectionReport(cmd.id) ELSE CancelRejectionReport(cmd.id)]

(***************************************************************************)
(* The execution pool.  A full shard queue is answered by a synthetic      *)
(* rejection that a task of its own publishes.                              *)
(***************************************************************************)
\* Mutant: a command that finds its queue full is dropped without a report.
DispatchOrDrop(q, cmd) ==
    LET w == ShardOf(cmd.id)
    IN  IF Len(q.shard[w]) < ShardCap THEN [q EXCEPT !.shard[w] = Append(@, cmd)] ELSE q

DispatchOrReject(q, cmd) ==
    LET w == ShardOf(cmd.id)
    IN  IF Len(q.shard[w]) < ShardCap THEN [q EXCEPT !.shard[w] = Append(@, cmd)]
        ELSE [q EXCEPT !.spawned = Append(@, Refusal(cmd).ev)]

Dispatch(cmds) ==
    LET q == FoldLeft(DispatchOrReject, [shard |-> shard, spawned |-> gw.spawned], cmds)
    IN  /\ shard' = q.shard
        /\ gw' = [gw EXCEPT !.spawned = q.spawned]
        /\ out' = [out EXCEPT !.accepted = FoldLeft(BagAdd, @, cmds)]

Serving == gw.phase = "serving"

Accepted(cmd) == CopiesIn(cmd, out.accepted)

\* place_order: ids are the OMS's, so each is placed once.
PlaceOrderRpc(o) ==
    /\ Serving /\ o \in gw.script.place /\ Accepted(SgPlace(o)) = 0
    /\ Dispatch(<<SgPlace(o)>>)
    /\ UNCHANGED <<sim, todo, wire, pipe>>

CancelOrderRpc(o) ==
    /\ Serving /\ Accepted(SgCancel(o)) < gw.script.cancels
    /\ Accepted(SgPlace(o)) > 0
    /\ Dispatch(<<SgCancel(o)>>)
    /\ UNCHANGED <<sim, todo, wire, pipe>>

(***************************************************************************)
(* The batch RPCs validate item by item: the items before the first        *)
(* invalid one (id 0) are dispatched, then the call fails.                 *)
(***************************************************************************)
BeforeInvalid(ids) ==
    SubSeq(ids, 1, Min({i - 1 : i \in {j \in DOMAIN ids : ids[j] = 0}} \cup {Len(ids)}))

BatchPlaceRpc ==
    LET ids == BeforeInvalid(gw.script.batch)
        cmds == [i \in DOMAIN ids |-> SgPlace(ids[i])]
    IN  /\ Serving /\ gw.script.batch # << >>
        /\ \A i \in DOMAIN cmds : Accepted(cmds[i]) = 0
        /\ Dispatch(cmds)
        /\ UNCHANGED <<sim, todo, wire, pipe>>

BatchCancelRpc ==
    LET ids == BeforeInvalid(gw.script.batch)
        cmds == [i \in DOMAIN ids |-> SgCancel(ids[i])]
    IN  /\ Serving /\ gw.script.batch # << >>
        /\ \A i \in DOMAIN cmds : Accepted(cmds[i]) < gw.script.cancels /\ Accepted(SgPlace(ids[i])) > 0
        /\ Dispatch(cmds)
        /\ UNCHANGED <<sim, todo, wire, pipe>>

\* The task spawned by dispatch_or_reject; such tasks run in any order.
SpawnedRejection ==
    /\ gw.phase # "stopped"
    /\ \E i \in DOMAIN gw.spawned :
          /\ out' = Publish(out, gw.spawned[i])
          /\ gw' = [gw EXCEPT !.spawned = RemoveAt(@, i)]
    /\ UNCHANGED <<shard, sim, todo, wire, pipe>>

(***************************************************************************)
(* A shard's worker: one command at a time, the error rules first.  A      *)
(* delay releases the mutex and places the order when the sleep is over,   *)
(* without looking at the rules again.                                      *)
(***************************************************************************)
Scope(cmd) == cmd.do

WorkerTakes(w) ==
    LET cmd == Head(shard[w])
        e   == EvaluateRules(sim, Scope(cmd))
        r   == AdapterExecute(e.sim, cmd)
    IN  /\ gw.phase # "stopped" /\ todo[w] = << >> /\ shard[w] # << >>
        /\ shard' = [shard EXCEPT ![w] = Tail(@)]
        /\ IF e.effect = "none"
           THEN sim' = r.sim /\ todo' = [todo EXCEPT ![w] = r.todo]
           ELSE /\ sim' = e.sim
                /\ todo' = [todo EXCEPT ![w] = IF e.effect = "delay" THEN <<cmd>> ELSE <<Refusal(cmd)>>]
        /\ UNCHANGED <<gw, wire, pipe, out>>

WorkerWakes(w) ==
    LET cmd == Head(todo[w])
        r   == AdapterExecute(sim, cmd)
    IN  /\ gw.phase # "stopped" /\ todo[w] # << >> /\ cmd.do \in {"place", "cancel"}
        /\ sim' = r.sim /\ todo' = [todo EXCEPT ![w] = r.todo]
        /\ UNCHANGED <<gw, shard, wire, pipe, out>>

(***************************************************************************)
(* One more entry of an actor's list.                                      *)
(***************************************************************************)
Next1(a) == Head(todo[a])
Doing(a, what) == gw.phase # "stopped" /\ todo[a] # << >> /\ Next1(a).do = what
Done1(a) == todo' = [todo EXCEPT ![a] = Tail(@)]

\* queue_event, and event_tx.send in the adapter.
QueueEvent(a) ==
    /\ Doing(a, "send") /\ Done1(a)
    /\ wire' = Append(wire, Next1(a).ev)
    /\ UNCHANGED <<gw, shard, sim, pipe, out>>

\* The worker publishes a failed command's rejection itself.
PublishRefusal(a) ==
    /\ Doing(a, "publish") /\ Done1(a)
    /\ out' = Publish(out, Next1(a).ev)
    /\ UNCHANGED <<gw, shard, sim, wire, pipe>>

\* submit_synthetic_tick takes the mutex a second time for the balances.
SettleTick(a) ==
    /\ Doing(a, "settle") /\ Done1(a)
    /\ sim' = ApplyFillToBalances(sim, Next1(a).qty)
    /\ UNCHANGED <<gw, shard, wire, pipe, out>>

\* ... and a third time for the balances it publishes.
ReadForPublication(a) ==
    /\ Doing(a, "read")
    /\ todo' = [todo EXCEPT ![a] = <<Send(BalanceFacts(sim.bal))>> \o Tail(@)]
    /\ UNCHANGED <<gw, shard, sim, wire, pipe, out>>

\* reset_simulator's second critical section.
ResetPipeline(a) ==
    /\ Doing(a, "reset_pipeline") /\ Done1(a)
    /\ pipe' = EmptyPipe
    /\ UNCHANGED <<gw, shard, sim, wire, out>>

(***************************************************************************)
(* The admin service.                                                      *)
(***************************************************************************)
Admin(a, op) ==
    /\ Serving /\ todo[a] = << >> /\ op \in gw.script.menu /\ gw.budget > 0
    /\ gw' = [gw EXCEPT !.budget = @ - 1]
    /\ UNCHANGED <<shard, wire, pipe>>

\* force_match refuses an unknown or finished order and a quantity it has not left.
ForceMatch(a, o, qty, publish) ==
    LET r == ApplyMatch([sim |-> sim, evs |-> << >>], o, qty)
    IN  /\ Admin(a, "force")
        /\ o \in OpenOrders(sim) /\ qty \in 1..sim.rem[o]
        /\ sim' = ApplyFillToBalances(r.sim, qty)
        /\ todo' = [todo EXCEPT ![a] = Sends(r.evs) \o (IF publish THEN <<ReadBalances>> ELSE << >>)]
        /\ UNCHANGED out

SubmitSyntheticTick(a, levels) ==
    /\ Admin(a, "tick")
    /\ \/ /\ sim.paused
          /\ sim' = [sim EXCEPT !.book = levels]
          /\ UNCHANGED todo
       \/ /\ ~sim.paused
          /\ \E ids \in SetToSeqs(OpenOrders(sim)) :
                LET r   == OnTick(sim, levels, ids)
                    qty == FoldFunction(+, 0, sim.rem) - FoldFunction(+, 0, r.sim.rem)
                IN  /\ sim' = r.sim
                    /\ todo' = [todo EXCEPT ![a] =
                                   IF r.evs = << >> THEN << >>
                                   ELSE <<Settle(qty)>> \o Sends(r.evs) \o <<ReadBalances>>]
    /\ UNCHANGED out

InjectError(a, rule) ==
    /\ Admin(a, "inject")
    /\ sim' = [sim EXCEPT !.rules = Append(@, rule)]
    /\ UNCHANGED <<todo, out>>

\* clear_injected_error: all the rules, or the one whose id is given.
ClearInjectedError(a) ==
    /\ Admin(a, "clear") /\ sim.rules # << >>
    /\ \E rules \in {<< >>} \cup {RemoveAt(sim.rules, i) : i \in DOMAIN sim.rules} :
          sim' = [sim EXCEPT !.rules = rules]
    /\ UNCHANGED <<todo, out>>

\* Trade ids come from a counter of the process, which a reset leaves alone.
ResetSimulator(a) ==
    /\ Admin(a, "reset")
    /\ sim' = [InitialSim(gw.script.policy) EXCEPT !.trades = sim.trades]
    /\ todo' = [todo EXCEPT ![a] = <<[do |-> "reset_pipeline"]>>]
    /\ out' = [out EXCEPT !.reset = TRUE]

\* positions: what the clear flag and the mutations leave in the table.
SetAccountState(a, bal, positions, publish) ==
    /\ Admin(a, "account")
    /\ sim' = [sim EXCEPT !.bal = bal, !.positions = positions]
    /\ todo' = [todo EXCEPT ![a] =
                   IF ~publish THEN << >>
                   ELSE <<Send(BalanceFacts(bal))>>
                        \o (IF positions = << >> THEN << >> ELSE <<Send(PositionFacts(positions))>>)]
    /\ UNCHANGED out

SetMatching(a, paused) ==
    /\ Admin(a, "pause") /\ sim.paused # paused
    /\ sim' = [sim EXCEPT !.paused = paused]
    /\ UNCHANGED <<todo, out>>

SetMatchPolicy(a, policy) ==
    /\ Admin(a, "policy") /\ sim.policy # policy
    /\ sim' = [sim EXCEPT !.policy = policy]
    /\ UNCHANGED <<todo, out>>

\* query_account_balance evaluates, and so uses up, the rules of its scope.
QueryBalance ==
    /\ Serving /\ Firing(sim.rules, "balance") # {}
    /\ sim' = EvaluateRules(sim, "balance").sim
    /\ UNCHANGED <<gw, shard, todo, wire, pipe, out>>

(***************************************************************************)
(* The event loop: next_event, then the semantic pipeline.                  *)
(***************************************************************************)
EventLoop ==
    /\ gw.phase \notin {"stopping", "stopped"} /\ wire # << >>
    /\ wire' = Tail(wire)
    /\ LET e == Head(wire)
       IN  \/ /\ e.ev = "report"
              /\ LET d == Deduped(pipe, e) IN pipe' = d.pipe /\ out' = Publish(out, d.report)
           \/ e.ev = "balance" /\ UNCHANGED <<pipe, out>>
           \/ /\ e.ev = "position"
              /\ pipe' = TrackPositions(pipe, e.held)
              /\ out' = PublishPositions(out, pipe, e.held)
    /\ UNCHANGED <<gw, shard, sim, todo>>

(***************************************************************************)
(* The service: connect, go live, bind the listeners, register; at a       *)
(* shutdown the servers and the event loop stop before it deregisters.     *)
(***************************************************************************)
Startup1 == <<"starting", "connecting", "live", "bound", "serving">>

GwStarts ==
    /\ \E i \in 1..(Len(Startup1) - 1) :
          gw.phase = Startup1[i] /\ gw' = [gw EXCEPT !.phase = Startup1[i + 1]]
    /\ UNCHANGED <<shard, sim, todo, wire, pipe, out>>

GwStops ==
    /\ gw.phase \in {"serving", "stopping"}
    /\ gw.script.stops
    /\ gw' = [gw EXCEPT !.phase = IF @ = "serving" THEN "stopping" ELSE "stopped"]
    /\ UNCHANGED <<shard, sim, todo, wire, pipe, out>>

ReportKinds == {"booked", "fill", "cancelled", "rejected", "cancel_rejected"}

SgInit ==
    /\ \E script \in Scripts :
          /\ gw = [phase |-> "starting", script |-> script, budget |-> script.budget, spawned |-> << >>]
          /\ sim = InitialSim(script.policy)
    /\ shard = [w \in Workers |-> << >>]
    /\ todo = [a \in Workers \cup Admins |-> << >>]
    /\ wire = << >>
    /\ pipe = EmptyPipe
    /\ out = [accepted |-> EmptyBag, kinds |-> [o \in GwOrders |-> [k \in ReportKinds |-> 0]],
              held |-> {}, lastFacts |-> {}, reset |-> FALSE]

PositionTables == UNION {[S -> {0, 1}] : S \in SUBSET GwInstruments}

SgNext ==
    \/ GwStarts \/ GwStops
    \/ \E o \in GwOrders : PlaceOrderRpc(o) \/ CancelOrderRpc(o)
    \/ BatchPlaceRpc \/ BatchCancelRpc \/ SpawnedRejection
    \/ \E w \in Workers : WorkerTakes(w) \/ WorkerWakes(w)
    \/ \E a \in Workers \cup Admins :
          QueueEvent(a) \/ PublishRefusal(a) \/ SettleTick(a) \/ ReadForPublication(a) \/ ResetPipeline(a)
    \/ \E a \in Admins :
          \/ \E o \in GwOrders, q \in 1..OrderQty, p \in BOOLEAN : ForceMatch(a, o, q, p)
          \/ \E t \in Ticks : SubmitSyntheticTick(a, t)
          \/ \E r \in RuleSet : InjectError(a, r)
          \/ ClearInjectedError(a) \/ ResetSimulator(a)
          \/ \E b \in {5}, ps \in PositionTables, p \in BOOLEAN : SetAccountState(a, b, ps, p)
          \/ \E b \in BOOLEAN : SetMatching(a, b)
          \/ \E p \in {"immediate", "fcfs"} : SetMatchPolicy(a, p)
    \/ QueryBalance
    \/ EventLoop

---------------------------------------------------------------------------
(***************************************************************************)
(* Properties                                                              *)
(***************************************************************************)
SgQuiet ==
    /\ Serving /\ gw.spawned = << >> /\ wire = << >>
    /\ \A w \in Workers : shard[w] = << >>
    /\ \A a \in DOMAIN todo : todo[a] = << >>

(***************************************************************************)
(* The gRPC answer only says a command was taken: the reports decide.      *)
(* Once the gateway is quiet every accepted order has either been reported *)
(* booked or rejected, exactly once, and every accepted cancel has either  *)
(* been reported cancelled or refused, exactly once - whether the shard    *)
(* queue was full, an injected error answered, the order was slept on, or  *)
(* the simulator was reset under it (dispatch_or_reject, gw_exec_worker).  *)
(***************************************************************************)
EveryCommandReported ==
    SgQuiet => \A o \in GwOrders :
        /\ out.kinds[o]["booked"] + out.kinds[o]["rejected"] = Accepted(SgPlace(o))
        /\ out.kinds[o]["cancelled"] + out.kinds[o]["cancel_rejected"] = Accepted(SgCancel(o))

(***************************************************************************)
(* Explicit zero positions: after a position update the subscriber holds   *)
(* exactly the positions the venue reported, the ones that disappeared     *)
(* having been published as zero (process_position); a reset, which        *)
(* forgets the published keys without publishing, is exempt.               *)
(***************************************************************************)
PositionsExplicit == ~out.reset => out.held = out.lastFacts

=============================================================================
