------------------------------ MODULE Engine ------------------------------
(***************************************************************************)
(* The live strategy engine (zk-engine-rs) and the service around it       *)
(* (zk-engine-svc).  Four kinds of task meet here:                          *)
(*   - NATS callbacks: ticks go straight into the engine channel and are    *)
(*     dropped when it is full; order updates and bars go to the grace      *)
(*     queue; the gRPC control commands go to the control queue;            *)
(*   - the priority forwarder, which moves control commands and grace       *)
(*     events, one at a time, into the engine channel;                      *)
(*   - the engine loop, which drains the channel in batches, coalesces the  *)
(*     ticks, runs the strategy, books what it asks for and publishes one   *)
(*     snapshot per batch;                                                  *)
(*   - one spawned task per order or cancel, which calls the OMS.           *)
(* The OMS behind the calls is external: it opens, fills, cancels or        *)
(* refuses an order and publishes each change.                              *)
(***************************************************************************)
EXTENDS Integers, Sequences, FiniteSets, SequencesExt

CONSTANTS
    ChanCap,      \* EVENT_CHANNEL_CAPACITY
    CtlCap,       \* CONTROL_QUEUE_CAPACITY
    GraceCap,     \* GRACE_QUEUE_CAPACITY
    EngSymbols,   \* the instruments whose ticks the engine subscribes to
    MaxTicks,     \* bound: ticks the market sends per instrument
    EngOrders,    \* the order ids the strategy may allocate
    EngConfigs    \* runtime configurations: instruments, kline subscription, the strategy's
                  \* orders, and a bound on the commands the operator sends

VARIABLES
    line,   \* the queues: control, grace, the forwarder's envelope, the engine channel
    eng,    \* the engine loop: its batch, lifecycle, pause flag and published snapshot
    desk,   \* the strategy's context, the calls in flight and the OMS's orders
    svc,    \* the service's supervision
    told    \* history: what the producers were promised

EngVars == <<line, eng, desk, svc, told>>

Commands == {"Pause", "Resume", "Stop"}
Tick(s, n) == [kind |-> "tick", sym |-> s, n |-> n]
Bar == [kind |-> "bar"]
Timer == [kind |-> "timer"]
Control(c) == [kind |-> "control", cmd |-> c]
OrderUpdate(o, st) == [kind |-> "order", id |-> o, status |-> st]

Reliable(e) == e.kind \in {"order", "bar"}
EngTerminal(st) == st \in {"filled", "cancelled", "rejected"}

(***************************************************************************)
(* Strategy context: what the engine books and what order updates move.    *)
(***************************************************************************)
BookOrder(d, o) == [d EXCEPT !.pending = @ \cup {o}, !.mine = @ \cup {o}]

BookCancel(d, o) == IF o \in d.mine THEN [d EXCEPT !.cancels = @ \cup {o}] ELSE d

\* Mutant: a terminal update leaves the order among the open ones.
OnOrderUpdateKeepsOpen(d, e) ==
    IF EngTerminal(e.status)
    THEN [d EXCEPT !.terminal = @ \cup {e.id}, !.pending = @ \ {e.id}, !.cancels = @ \ {e.id}]
    ELSE [d EXCEPT !.open = @ \cup {e.id}, !.pending = @ \ {e.id}]

OnOrderUpdate(d, e) ==
    IF EngTerminal(e.status)
    THEN [d EXCEPT !.terminal = @ \cup {e.id}, !.open = @ \ {e.id}, !.pending = @ \ {e.id},
                   !.cancels = @ \ {e.id}]
    ELSE [d EXCEPT !.open = @ \cup {e.id}, !.pending = @ \ {e.id}]

(***************************************************************************)
(* Dispatch.  A callback returns no action, one order or one cancel; the   *)
(* context books it, then a task of its own makes the call, so that two    *)
(* calls reach the OMS in either order.                                     *)
(***************************************************************************)
Nothing == [do |-> "nothing"]
Place(o) == [do |-> "place", id |-> o]
Cancel(o) == [do |-> "cancel", id |-> o]

Answers(d) ==
    {Nothing}
    \cup {Place(o) : o \in {x \in svc.cfg.orders : x \notin d.mine /\ \A y \in svc.cfg.orders : y < x => y \in d.mine}}
    \cup {Cancel(o) : o \in {x \in d.mine : x \notin d.cancels /\ x \notin d.asked /\ x \notin d.terminal}}

DispatchActions(d, a) ==
    CASE a.do = "place" -> [BookOrder(d, a.id) EXCEPT !.calls = @ \cup {a}]
      [] a.do = "cancel" -> [BookCancel(d, a.id) EXCEPT !.calls = @ \cup {a}, !.asked = @ \cup {a.id}]
      [] OTHER -> d

\* decision_seq counts the events whose callback returned actions; lifecycle
\* callbacks are dispatched under sequence number zero and not counted.
Decided(a) == IF a.do = "nothing" THEN 0 ELSE 1

(***************************************************************************)
(* coalesce_ticks: of each instrument's ticks in a batch keep the last,    *)
(* where it stands; everything else passes in order.                        *)
(***************************************************************************)
SameTick(e, f) == e.kind = "tick" /\ f.kind = "tick" /\ e.sym = f.sym

\* Mutant: the first tick of the batch is kept.
CoalesceTicksFirst(events) ==
    LET keep == {i \in DOMAIN events :
                    ~ \E j \in DOMAIN events : j < i /\ SameTick(events[i], events[j])}
        order == SetToSortSeq(keep, <)
    IN  [k \in DOMAIN order |-> events[order[k]]]

CoalesceTicks(events) ==
    LET keep == {i \in DOMAIN events :
                    ~ \E j \in DOMAIN events : j > i /\ SameTick(events[i], events[j])}
        order == SetToSortSeq(keep, <)
    IN  [k \in DOMAIN order |-> events[order[k]]]

(***************************************************************************)
(* Producers.                                                               *)
(***************************************************************************)
SvcUp == svc.phase \in {"up", "stopping"}
ChanOpen == eng.life # "stopped"
FwdAlive == svc.fwd = "alive"

\* subscribe_ticks: try_send into the engine channel; a full or closed channel
\* drops the tick and counts it.
TickArrives(s) ==
    /\ SvcUp
    /\ s \in svc.cfg.instruments
    /\ told.ticks[s] < MaxTicks
    /\ told' = [told EXCEPT !.ticks[s] = @ + 1,
                            !.latest[s] = IF ChanOpen /\ Len(line.chan) < ChanCap THEN told.ticks[s] + 1 ELSE @]
    /\ line' = IF ChanOpen /\ Len(line.chan) < ChanCap
               THEN [line EXCEPT !.chan = Append(@, Tick(s, told.ticks[s] + 1))] ELSE line
    /\ UNCHANGED <<eng, desk, svc>>

\* enqueue_reliable: try_send into the grace queue; a full or closed queue
\* loses the event and counts it; once the subscriptions are aborted nobody
\* receives it.
EnqueueReliable(e) ==
    IF SvcUp /\ FwdAlive /\ Len(line.grace) < GraceCap
    THEN line' = [line EXCEPT !.grace = Append(@, e)] /\ told' = told
    ELSE /\ line' = line
         /\ told' = [told EXCEPT !.lost = IF e.kind = "order" THEN @ \cup {e.id} ELSE @]

BarArrives ==
    /\ SvcUp
    /\ svc.cfg.klines
    /\ EnqueueReliable(Bar)
    /\ UNCHANGED <<eng, desk, svc>>

\* run_timer_clock: a pulse waits for room in the engine channel.
TimerPulse ==
    /\ SvcUp
    /\ ChanOpen
    /\ Len(line.chan) < ChanCap
    /\ line' = [line EXCEPT !.chan = Append(@, Timer)]
    /\ UNCHANGED <<eng, desk, svc, told>>

\* send_control: try_send, else wait for room.  The command is acknowledged
\* once it is in the control queue; a full queue that does not drain within
\* the timeout, and a closed one, refuse it and change nothing.
SendControl(c) ==
    /\ SvcUp
    /\ FwdAlive
    /\ told.acked < svc.cfg.commands
    /\ Len(line.ctl) < CtlCap
    /\ line' = [line EXCEPT !.ctl = Append(@, Control(c))]
    /\ told' = [told EXCEPT !.acked = @ + 1]
    /\ UNCHANGED <<eng, desk, svc>>

(***************************************************************************)
(* The priority forwarder: `select! biased` over the control and the grace *)
(* queue, then a send that waits for room in the engine channel.  It ends  *)
(* when the engine has closed the channel, or when every sender of both    *)
(* queues is gone and they are drained.                                     *)
(***************************************************************************)
\* Mutant: the two queues are listed the other way round.
FwdTakeGraceFirst ==
    /\ FwdAlive
    /\ line.hand = <<>>
    /\ IF line.grace # <<>>
       THEN line' = [line EXCEPT !.hand = <<Head(line.grace)>>, !.grace = Tail(@)]
       ELSE /\ line.ctl # <<>>
            /\ line' = [line EXCEPT !.hand = <<Head(line.ctl)>>, !.ctl = Tail(@)]
    /\ UNCHANGED <<eng, desk, svc, told>>

FwdTake ==
    /\ FwdAlive
    /\ line.hand = <<>>
    /\ IF line.ctl # <<>>
       THEN line' = [line EXCEPT !.hand = <<Head(line.ctl)>>, !.ctl = Tail(@)]
       ELSE /\ line.grace # <<>>
            /\ line' = [line EXCEPT !.hand = <<Head(line.grace)>>, !.grace = Tail(@)]
    /\ UNCHANGED <<eng, desk, svc, told>>

FwdSend ==
    /\ FwdAlive
    /\ line.hand # <<>>
    /\ IF ChanOpen
       THEN /\ Len(line.chan) < ChanCap
            /\ line' = [line EXCEPT !.chan = @ \o line.hand, !.hand = <<>>]
            /\ svc' = svc
       ELSE /\ line' = [line EXCEPT !.hand = <<>>, !.ctl = <<>>, !.grace = <<>>]
            /\ svc' = [svc EXCEPT !.fwd = "gone"]
    /\ UNCHANGED <<eng, desk, told>>

(***************************************************************************)
(* The engine loop.                                                         *)
(***************************************************************************)
Snapshot(e) == [life |-> e.life, paused |-> e.paused, seq |-> e.seq]

\* startup: on_create, on_init and on_reinit run, and their actions are
\* dispatched, after the subscriptions have started; then run() begins.
Startup ==
    /\ eng.life = "starting"
    /\ \E a \in Answers(desk) : desk' = DispatchActions(desk, a)
    /\ eng' = [eng EXCEPT !.life = "running"]
    /\ UNCHANGED <<line, svc, told>>

\* run: the first event is awaited, the rest of the buffer drained.
DrainBatch ==
    /\ eng.life \in {"running", "paused"}
    /\ ~ eng.busy
    /\ line.chan # <<>>
    /\ eng' = [eng EXCEPT !.batch = CoalesceTicks(line.chan), !.busy = TRUE]
    /\ line' = [line EXCEPT !.chan = <<>>]
    /\ UNCHANGED <<desk, svc, told>>

HandlePause(a) ==
    IF eng.paused THEN eng' = [eng EXCEPT !.batch = Tail(@)] /\ desk' = desk
    ELSE /\ desk' = DispatchActions(desk, a)
         /\ eng' = [eng EXCEPT !.batch = Tail(@), !.paused = TRUE, !.life = "paused"]

HandleResume(a) ==
    IF ~ eng.paused THEN eng' = [eng EXCEPT !.batch = Tail(@)] /\ desk' = desk
    ELSE /\ desk' = DispatchActions(desk, a)
         /\ eng' = [eng EXCEPT !.batch = Tail(@), !.paused = FALSE, !.life = "running"]

\* A stop abandons the rest of the batch and the channel; Stopping and
\* Stopped are published one after the other.
HandleStop ==
    /\ eng' = [eng EXCEPT !.batch = <<>>, !.busy = FALSE, !.life = "stopped",
                          !.shown = Snapshot([eng EXCEPT !.life = "stopped"])]
    /\ line' = [line EXCEPT !.chan = <<>>]
    /\ desk' = desk

ControlStep ==
    /\ eng.batch # <<>>
    /\ Head(eng.batch).kind = "control"
    /\ \E a \in Answers(desk) :
         \/ Head(eng.batch).cmd = "Pause" /\ HandlePause(a) /\ line' = line
         \/ Head(eng.batch).cmd = "Resume" /\ HandleResume(a) /\ line' = line
         \/ Head(eng.batch).cmd = "Stop" /\ HandleStop
    /\ told' = [told EXCEPT !.handled = @ + 1]
    /\ svc' = svc

\* While paused only OMS events reach the strategy.
Passes(e) == ~ eng.paused \/ e.kind = "order"

DropPaused ==
    /\ eng.batch # <<>>
    /\ Head(eng.batch).kind # "control"
    /\ ~ Passes(Head(eng.batch))
    /\ eng' = [eng EXCEPT !.batch = Tail(@)]
    /\ LET e == Head(eng.batch) IN
         told' = [told EXCEPT !.seen = IF e.kind = "tick" THEN [@ EXCEPT ![e.sym] = e.n] ELSE @]
    /\ UNCHANGED <<line, desk, svc>>

\* process_event, then dispatch_actions; the decision is numbered when there
\* is something to dispatch.
ProcessEvent ==
    /\ eng.batch # <<>>
    /\ Head(eng.batch).kind # "control"
    /\ Passes(Head(eng.batch))
    /\ LET e == Head(eng.batch)
           d == IF e.kind = "order" THEN OnOrderUpdate(desk, e) ELSE desk
       IN /\ \E a \in Answers(d) :
               /\ desk' = DispatchActions(d, a)
               /\ eng' = [eng EXCEPT !.batch = Tail(@), !.seq = @ + Decided(a)]
          /\ told' = [told EXCEPT !.seen = IF e.kind = "tick" THEN [@ EXCEPT ![e.sym] = e.n] ELSE @]
    /\ UNCHANGED <<line, svc>>

\* One snapshot per batch, once its last event is done.
PublishSnapshot ==
    /\ eng.busy
    /\ eng.batch = <<>>
    /\ eng' = [eng EXCEPT !.busy = FALSE, !.shown = Snapshot(eng)]
    /\ UNCHANGED <<line, desk, svc, told>>

EngineStep == Startup \/ DrainBatch \/ ControlStep \/ DropPaused \/ ProcessEvent \/ PublishSnapshot

(***************************************************************************)
(* The calls and the OMS behind them.  The task of a call only logs its    *)
(* answer, so a lost answer and a lost request differ only in the OMS.     *)
(***************************************************************************)
EnginePlaceOrder(o) ==
    /\ Place(o) \in desk.calls
    /\ \/ /\ desk' = [desk EXCEPT !.calls = @ \ {Place(o)}, !.oms[o] = "open"]
          /\ EnqueueReliable(OrderUpdate(o, "open"))
       \/ /\ desk' = [desk EXCEPT !.calls = @ \ {Place(o)}, !.oms[o] = "rejected"]
          /\ EnqueueReliable(OrderUpdate(o, "rejected"))
       \/ /\ desk' = [desk EXCEPT !.calls = @ \ {Place(o)}]
          /\ told' = [told EXCEPT !.failed = @ \cup {o}]
          /\ line' = line
    /\ UNCHANGED <<eng, svc>>

\* A cancel that overtakes its order, or comes after its end, is refused.
EngineCancelOrder(o) ==
    /\ Cancel(o) \in desk.calls
    /\ IF desk.oms[o] = "open"
       THEN /\ desk' = [desk EXCEPT !.calls = @ \ {Cancel(o)}, !.oms[o] = "cancelled"]
            /\ EnqueueReliable(OrderUpdate(o, "cancelled"))
       ELSE /\ desk' = [desk EXCEPT !.calls = @ \ {Cancel(o)}]
            /\ UNCHANGED <<line, told>>
    /\ UNCHANGED <<eng, svc>>

OmsFills(o) ==
    /\ desk.oms[o] = "open"
    /\ desk' = [desk EXCEPT !.oms[o] = "filled"]
    /\ EnqueueReliable(OrderUpdate(o, "filled"))
    /\ UNCHANGED <<eng, svc>>

(***************************************************************************)
(* Shutdown: on a signal or a fenced registration Stop is sent on the      *)
(* engine channel; then the tasks are aborted, every local sender is       *)
(* dropped, and the forwarder and the engine are awaited.  The registry    *)
(* entry, removed at the end unless it was fenced, is in ServiceRegistry.   *)
(***************************************************************************)
ShutdownRequested ==
    /\ svc.phase = "up"
    /\ eng.life # "starting"
    /\ svc' = [svc EXCEPT !.phase = "stopping"]
    /\ UNCHANGED <<line, eng, desk, told>>

StopEngine ==
    /\ svc.phase = "stopping"
    /\ IF ChanOpen
       THEN /\ Len(line.chan) < ChanCap
            /\ line' = [line EXCEPT !.chan = Append(@, Control("Stop"))]
       ELSE line' = line
    /\ svc' = [svc EXCEPT !.phase = "draining"]
    /\ UNCHANGED <<eng, desk, told>>

ForwarderDrained ==
    /\ svc.phase = "draining"
    /\ FwdAlive
    /\ line.hand = <<>> /\ line.ctl = <<>> /\ line.grace = <<>>
    /\ svc' = [svc EXCEPT !.fwd = "gone"]
    /\ UNCHANGED <<line, eng, desk, told>>

ServiceStopped ==
    /\ svc.phase = "draining"
    /\ ~ FwdAlive
    /\ eng.life = "stopped"
    /\ svc' = [svc EXCEPT !.phase = "down"]
    /\ UNCHANGED <<line, eng, desk, told>>

EngInit ==
    /\ line = [ctl |-> <<>>, grace |-> <<>>, hand |-> <<>>, chan |-> <<>>]
    /\ eng = [batch |-> <<>>, busy |-> FALSE, life |-> "starting", paused |-> FALSE, seq |-> 0,
              shown |-> [life |-> "starting", paused |-> FALSE, seq |-> 0]]
    /\ desk = [pending |-> {}, open |-> {}, terminal |-> {}, cancels |-> {}, mine |-> {}, asked |-> {},
               calls |-> {}, oms |-> [o \in EngOrders |-> "none"]]
    /\ \E cfg \in EngConfigs :
         svc = [cfg |-> cfg, phase |-> "up", fwd |-> "alive"]
    /\ told = [lost |-> {}, failed |-> {}, acked |-> 0, handled |-> 0,
               ticks |-> [s \in EngSymbols |-> 0], latest |-> [s \in EngSymbols |-> 0],
               seen |-> [s \in EngSymbols |-> 0]]

EngNext ==
    \/ \E s \in EngSymbols : TickArrives(s)
    \/ BarArrives
    \/ TimerPulse
    \/ \E c \in Commands : SendControl(c)
    \/ FwdTake \/ FwdSend \/ ForwarderDrained
    \/ EngineStep
    \/ \E o \in EngOrders : EnginePlaceOrder(o) \/ EngineCancelOrder(o) \/ OmsFills(o)
    \/ ShutdownRequested \/ StopEngine \/ ServiceStopped

-----------------------------------------------------------------------------
Queued == eng.batch \o line.chan \o line.hand \o line.grace
EngRunning == eng.life \in {"running", "paused"}
Idle == EngRunning /\ ~ eng.busy

\* When no tick of an instrument is left in the engine, the last one the
\* channel accepted is the last one the strategy was given, or that was
\* withheld from it because of a pause (coalesce_ticks).
LatestTickSettled ==
    \A s \in EngSymbols :
        (EngRunning /\ ~ \E i \in DOMAIN Queued : Queued[i].kind = "tick" /\ Queued[i].sym = s)
            => told.seen[s] = told.latest[s]

\* When nothing is on its way, an order whose call reached the OMS and whose
\* updates were all accepted stands in the strategy's context exactly where
\* it stands in the OMS, whatever order the spawned calls ran in.
ContextConverges ==
    (Idle /\ desk.calls = {} /\ SelectSeq(Queued, Reliable) = <<>>)
        => \A o \in desk.mine \ (told.lost \cup told.failed) :
              /\ o \notin desk.pending
              /\ (o \in desk.open) = (desk.oms[o] = "open")
              /\ (o \in desk.terminal) = EngTerminal(desk.oms[o])

\* A command acknowledged to the operator is handled, unless the engine has
\* been stopped before it, however busy the clock and the bars keep the
\* engine channel (control_api.rs, runtime.rs priority forwarder).
CommandsHandled ==
    \A n \in UNION {1..c.commands : c \in EngConfigs} : told.acked >= n ~> (told.handled >= n \/ eng.life = "stopped")

=============================================================================
