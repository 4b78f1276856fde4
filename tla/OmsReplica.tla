----------------------------- MODULE OmsReplica -----------------------------
(***************************************************************************)
(* The front of the OMS service: the gRPC handlers (grpc_handler.rs), the   *)
(* command queue, the writer task's process_command() (oms_actor.rs) and    *)
(* the read replica it publishes (snapshot_v2.rs).                          *)
(*                                                                          *)
(*   handler --cmds--> writer (OmsCoreV2) --publish--> replica --> queries  *)
(*                                                                          *)
(* Mutations go through the queue and are answered by the writer; queries   *)
(* and the duplicate check of place_order() only read the replica.  The     *)
(* gateway's reports and failures on the orders it was sent are arbitrary,  *)
(* so the writer takes them directly: one that waited in the queue is one   *)
(* that arrives later.                                                      *)
(***************************************************************************)
EXTENDS OmsCore

CONSTANTS
    Calls,          \* clients of the gRPC service, each with one call at a time
    IdsOf,          \* client -> the order ids it uses
    MaxCalls        \* bound on the mutations all clients send

ASSUME ReplicaAssumption ==
    IdsOf \in [Calls -> SUBSET ClientIds] /\ MaxCalls \in Nat

VARIABLES
    wr,         \* OmsSnapshotWriterV2
    replica,    \* the OmsSnapshotV2 behind the ArcSwap
    cmds,       \* the writer's mpsc channel, the waiting senders included
    job,        \* what the writer is working on
    call,       \* what every client waits for
    calls,      \* mutations sent so far
    raced,      \* orders placed again before their first command was done (history)
    sent        \* orders the gateway may report on: those dispatched to it

frontVars == <<cmds, call, calls, raced>>
ReplicaVars == <<vars, wr, replica, job, sent, frontVars>>

(* SnapshotOrder: what the replica keeps of a live order.                   *)
SnapshotOrder(l) == [acct |-> l.acct, status |-> l.status, filled |-> l.filled, ref |-> l.ref]

(* A job: its ids, those left to run the core on, the actions left, those   *)
(* of the failures met on the way, and what the step has published.         *)
Job(c, kind, ids, req, acct) ==
    [by |-> c, kind |-> kind, on |-> {ids[i] : i \in DOMAIN ids}, ids |-> ids, req |-> req,
     acct |-> acct, acts |-> << >>, failures |-> << >>, dirty |-> {}]

AnyRequest == CHOOSE req \in Requests : TRUE

NoJob == Job("none", "none", << >>, AnyRequest, "none")

ReplicaInit ==
    /\ Init
    /\ wr = [orders |-> [o \in OrderIds |-> SnapshotOrder(AbsentOrder)], open |-> {}, panic |-> {}]
    /\ replica = [orders |-> wr.orders, open |-> {}, panic |-> {}, pos |-> pos, bal |-> bal]
    /\ cmds = << >>
    /\ job = NoJob
    /\ call = [c \in Calls |-> "idle"]
    /\ calls = 0
    /\ sent = {}
    /\ raced = {}

-----------------------------------------------------------------------------
(* OmsSnapshotV2 as the queries read it.                                    *)

InSnapshot(o) == replica.orders[o].status # "Absent"

(* query_open_orders(), query_order_details(), query_position() and         *)
(* query_balances()                                                         *)
QueryOpenOrders(a) == {o \in replica.open : InSnapshot(o) /\ replica.orders[o].acct = a}
QueryOrderDetails(refs) == {o \in OrderIds : InSnapshot(o) /\ replica.orders[o].ref \in refs \ {NoRef}}
QueryPosition(a) == [t \in Targets |-> replica.pos[<<a, t>>]]
QueryBalances(a) == [t \in Targets |-> replica.bal[<<a, t>>]]

-----------------------------------------------------------------------------
(* The handlers.  A call is sent by pushing its command and awaiting the    *)
(* reply (send_cmd_await).                                                  *)

Outstanding == job.on \cup UNION {cmds[j].on : j \in DOMAIN cmds}

Send(c, cmd) ==
    /\ cmds' = Append(cmds, cmd)
    /\ raced' = IF cmd.kind = "place" THEN raced \cup (Outstanding \cap cmd.on) ELSE raced
    /\ call' = [call EXCEPT ![c] = "sent"]
    /\ UNCHANGED <<vars, wr, replica, job, sent>>

Calling(c) == call[c] = "idle" /\ calls < MaxCalls /\ calls' = calls + 1

Refused == UNCHANGED <<vars, wr, replica, job, sent, cmds, call, raced>>

(* place_order() without the look at the replica.                           *)
HandlePlaceUnchecked(c, o, req) ==
    Calling(c) /\ Send(c, Job(c, "place", <<o>>, req, req.acct))

(* place_order(): an id in the replica is a duplicate, and is answered      *)
(* without the writer.                                                      *)
HandlePlace(c, o, req) ==
    /\ Calling(c)
    /\ IF InSnapshot(o) THEN Refused
       ELSE Send(c, Job(c, "place", <<o>>, req, req.acct))

(* batch_place_orders(): all or none; a batch that names an id twice is     *)
(* invalid as well.                                                         *)
HandleBatchPlace(c, ids, req) ==
    /\ Calling(c)
    /\ IF ids[1] = ids[2] \/ \E i \in DOMAIN ids : InSnapshot(ids[i]) THEN Refused
       ELSE Send(c, Job(c, "place", ids, req, req.acct))

(* cancel_order() and batch_cancel_orders() look at nothing but the request *)
HandleCancel(c, o) == Calling(c) /\ Send(c, Job(c, "cancel", <<o>>, AnyRequest, "none"))
HandleBatchCancel(c, ids) == Calling(c) /\ Send(c, Job(c, "cancel", ids, AnyRequest, "none"))

(* panic() and dont_panic()                                                 *)
HandlePanic(c, a) == Calling(c) /\ Send(c, Job(c, "panic", <<NoId>>, AnyRequest, a))
HandleDontPanic(c, a) == Calling(c) /\ Send(c, Job(c, "dontpanic", <<NoId>>, AnyRequest, a))

(* The client's deadline passes and it may call again; its command stays in *)
(* the channel.                                                             *)
HandlerDropped(c) ==
    /\ call[c] = "sent"
    /\ call' = [call EXCEPT ![c] = "idle"]
    /\ UNCHANGED <<vars, wr, replica, job, sent, cmds, calls, raced>>

-----------------------------------------------------------------------------
(* process_command(), step by step: the core first, then its actions in     *)
(* order, then the actions of failed dispatches, then publish and reply.    *)
(* Only handlers run in between.                                            *)

(* process_order() for an id that may be known already.                     *)
RunPlace(o, req) ==
    /\ \/ PlaceBlocked(o, req) \/ PlaceRefused(o, req) \/ PlaceUncovered(o, req)
       \/ PlaceAccepted(o, req)
    /\ UNCHANGED <<bal, pending, panic>>

WriterTakesCommand ==
    /\ job = NoJob /\ cmds # << >>
    /\ job' = Head(cmds) /\ cmds' = Tail(cmds)
    /\ UNCHANGED <<vars, wr, replica, sent, call, calls, raced>>

(* process_message(); panic also goes to the snapshot writer, directly.     *)
WriterRunsCore ==
    /\ job.ids # << >>
    /\ CASE job.kind = "place"     -> RunPlace(Head(job.ids), job.req)
         [] job.kind = "cancel"    -> CancelOrder(Head(job.ids))
         [] job.kind = "panic"     -> Panic(job.acct)
         [] job.kind = "dontpanic" -> DontPanic(job.acct)
    /\ job' = [job EXCEPT !.ids = Tail(@), !.acts = @ \o out']
    /\ wr' = [wr EXCEPT !.panic = panic']
    /\ UNCHANGED <<replica, sent, frontVars>>

(* A command of the gateway side: reports, balances, failed sends.          *)
WriterTakesEvent(Step) ==
    /\ job = NoJob /\ Step
    /\ job' = [NoJob EXCEPT !.kind = "event", !.acts = out']
    /\ UNCHANGED <<wr, replica, sent, frontVars>>

WriterTakesReport == \E r \in {r \in Reports : r.oid \in sent} : WriterTakesEvent(OrderReport(r))
WriterTakesBalance == \E u \in Updates : WriterTakesEvent(BalanceUpdate(u))
WriterTakesSendFailure == \E o \in sent : WriterTakesEvent(GatewaySendFailed(o))
WriterTakesCancelFailure == \E o \in sent : WriterTakesEvent(GatewayCancelSendFailed(o))

(* apply_order_update() that never takes an order out of the open set.      *)
ApplyOrderUpdateKeepsOpen(w, o, shown, closed) ==
    [w EXCEPT !.orders[o] = shown, !.open = @ \cup {o}]

(* apply_order_update() of OmsSnapshotWriterV2                              *)
ApplyOrderUpdate(w, o, shown, closed) ==
    [w EXCEPT !.orders[o] = shown, !.open = IF closed THEN @ \ {o} ELSE @ \cup {o}]

(* The PersistOrder arm; an order that is gone from the store is not shown. *)
ShowOrder(a) ==
    IF Present(orders, a.on)
    THEN ApplyOrderUpdate(wr, a.on, SnapshotOrder(orders.live[a.on]), a.closed)
    ELSE wr

(* The gateway executor takes the request, or its queue is full and the     *)
(* core is told at once.                                                    *)
Dispatched(a) == out' = out /\ sent' = sent \cup {a.on} /\ UNCHANGED <<orders, resv, pos>>

DispatchFailed(a) ==
    /\ IF a.act = "SendOrderToGw" THEN GatewaySendFailed(a.on) ELSE GatewayCancelSendFailed(a.on)
    /\ UNCHANGED sent

WriterDispatches ==
    /\ job.ids = << >> /\ job.acts # << >>
    /\ LET a == Head(job.acts)
       IN  /\ a.act \in {"SendOrderToGw", "SendCancelToGw"}
           /\ \/ /\ Dispatched(a)
                 /\ job' = [job EXCEPT !.acts = Tail(@)]
              \/ /\ DispatchFailed(a)
                 /\ job' = [job EXCEPT !.acts = Tail(@), !.failures = @ \o out']
    /\ UNCHANGED <<bal, pending, panic, used, wr, replica, frontVars>>

(* Every other action; the failures follow when the actions are done.       *)
WriterActs ==
    /\ job.ids = << >> /\ job.acts \o job.failures # << >>
    /\ LET a == Head(job.acts \o job.failures)
       IN  /\ a.act \notin {"SendOrderToGw", "SendCancelToGw"}
           /\ wr' = IF a.act = "PersistOrder" THEN ShowOrder(a) ELSE wr
           /\ job' = [job EXCEPT !.acts = IF @ # << >> THEN Tail(@) ELSE @,
                                 !.failures = IF job.acts = << >> THEN Tail(@) ELSE @,
                                 !.dirty = @ \cup ({a.act} \cap {"PublishPositionUpdate",
                                                                "PublishBalanceUpdate"})]
    /\ UNCHANGED <<vars, replica, sent, frontVars>>

(* publish_snapshot(): positions and balances are rebuilt from the core     *)
(* only when the command published them, else the previous ones are kept.   *)
Snapshot ==
    [orders |-> wr.orders, open |-> wr.open, panic |-> wr.panic,
     pos |-> IF "PublishPositionUpdate" \in job.dirty THEN pos ELSE replica.pos,
     bal |-> IF "PublishBalanceUpdate" \in job.dirty THEN bal ELSE replica.bal]

(* send_reply() comes after the snapshot is stored.                         *)
WriterPublishes ==
    /\ job # NoJob
    /\ job.ids = << >> /\ job.acts = << >> /\ job.failures = << >>
    /\ replica' = Snapshot
    /\ call' = [c \in Calls |-> IF c = job.by THEN "idle" ELSE call[c]]
    /\ job' = NoJob
    /\ UNCHANGED <<vars, wr, sent, cmds, calls, raced>>

ReplicaNext ==
    \/ \E c \in Calls : \E o \in IdsOf[c], req \in Requests : HandlePlace(c, o, req)
    \/ \E c \in Calls : \E ids \in IdsOf[c] \X IdsOf[c], req \in Requests : HandleBatchPlace(c, ids, req)
    \/ \E c \in Calls : \E o \in IdsOf[c] : HandleCancel(c, o)
    \/ \E c \in Calls : \E ids \in IdsOf[c] \X IdsOf[c] : HandleBatchCancel(c, ids)
    \/ \E c \in Calls, a \in Accounts : HandlePanic(c, a) \/ HandleDontPanic(c, a)
    \/ \E c \in Calls : HandlerDropped(c)
    \/ WriterTakesCommand \/ WriterRunsCore
    \/ WriterDispatches \/ WriterActs \/ WriterPublishes
    \/ WriterTakesReport \/ WriterTakesBalance
    \/ WriterTakesSendFailure \/ WriterTakesCancelFailure

ReplicaSpec == ReplicaInit /\ [][ReplicaNext]_ReplicaVars

-----------------------------------------------------------------------------
(* The replica shows the core.  Whatever the mix of placements, full        *)
(* queues, send failures and reports, query_open_orders() lists exactly the *)
(* unfinished orders the core holds, an order it shows is shown as it is,   *)
(* one it lacks was rejected by the OMS itself, and an order the core finds *)
(* by its exchange reference is found by query_order_details().  Balances   *)
(* and position totals are never behind, though the replica copies the      *)
(* previous ones unless the step published them; frozen and available       *)
(* quantities may be behind.  A retry that raced its own order is left out: *)
(* the core replaces the order before it refuses the retry, and a refusal   *)
(* is not shown.                                                            *)
ReplicaShowsCore ==
    job = NoJob =>
        /\ \A o \in OrderIds \ raced : Present(orders, o) =>
              /\ InSnapshot(o) => replica.orders[o] = SnapshotOrder(orders.live[o])
              /\ InSnapshot(o) \/ orders.live[o].status = "Rejected"
              /\ o \in QueryOpenOrders(orders.live[o].acct) <=> ~ IsTerminal(orders.live[o])
        /\ \A r \in Refs : orders.refIdx[r] \notin raced \cup {NoId} =>
              orders.refIdx[r] \in QueryOrderDetails({r})
        /\ \A a \in Accounts, t \in Targets :
              /\ QueryPosition(a)[t].total = pos[<<a, t>>].total
              /\ QueryBalances(a)[t] = bal[<<a, t>>]
              /\ a \in replica.panic <=> a \in panic

(* A client that waits until its order's first command is done before it    *)
(* retries never replaces an open order: the replica is stored before the   *)
(* answer, so the retry is seen as a duplicate and the fills of the order   *)
(* are kept.  One that gives up and retries at once may replace its order.  *)
RetryKeepsOpenOrder ==
    [][\A o \in OrderIds \ raced :
         (o \in orders.open /\ Present(orders, o) /\ o \in orders'.open /\ Present(orders', o))
            => /\ orders'.live[o].qty = orders.live[o].qty
               /\ orders'.live[o].buy = orders.live[o].buy
               /\ orders'.live[o].filled >= orders.live[o].filled]_ReplicaVars
=============================================================================
