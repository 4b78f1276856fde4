----------------------------- MODULE Recorder -----------------------------
(***************************************************************************)
(* The path of a finished order and of a trade from the OMS writer into    *)
(* PostgreSQL: the OMS's recorder executor, the JetStream stream           *)
(* zk-recorder-oms, and the recorder service's two consumers and its       *)
(* partition maintenance (zk-recorder-svc).                                *)
(*                                                                         *)
(* JetStream and PostgreSQL are external.  A durable consumer is handed    *)
(* every message of its kind in order, and once more whenever ack_wait     *)
(* passes without an acknowledgement.  trd.order_oms is partitioned by the *)
(* month of terminal_at: an insert needs its month's partition.  Fills are *)
(* recorded only with the venue's trade id, so a trade is its id.          *)
(***************************************************************************)
EXTENDS Integers, Sequences, FiniteSets

CONSTANTS
    RecOrders, RecTrades,
    MaxVersions,      \* bound: terminal snapshots of one order
    RecQueueCap,      \* capacity of the recorder executor's queue
    InboxCap,         \* messages a consumer fetches ahead
    RecFaults,        \* bound: failed statements, lost messages, restarts
    LastMonth,        \* bound: months that pass
    RetentionMonths,  \* partition_retention_months
    RecCases          \* the orders and trades of a run: see RecInit

ASSUME RecAssumption ==
    /\ LastMonth \in Nat /\ RetentionMonths \in Nat /\ MaxVersions \in Nat
    /\ \A case \in RecCases : case.trades \subseteq RecTrades

VARIABLES
    finished,  \* the OMS: snapshots per order, terminal_at, trades made
    recQ,      \* RecorderExecutorPool, one account's shard
    js,        \* external: the stream and its two durable consumers
    rec,       \* the recorder process
    pg,        \* external: trd.order_oms, trd.trade_oms and the partitions
    month, faults

RecVars == <<finished, recQ, js, rec, pg, month, faults>>

Kinds == {"order", "trade"}
Months == 1..(LastMonth + 1)
NoRow == [ver |-> 0, enriched |-> FALSE]

\* Something external fails, at most RecFaults times.
Fault == faults < RecFaults /\ faults' = faults + 1

(***************************************************************************)
(* The OMS writer.  A report on a finished order (a late fee, a late       *)
(* trade) makes another snapshot of it, under the terminal_at of the       *)
(* first.  A full queue drops the event.                                   *)
(***************************************************************************)
DispatchRecord(e) == recQ' = IF Len(recQ) < RecQueueCap THEN Append(recQ, e) ELSE recQ

OrderCloses(o) ==
    LET at == IF finished.ver[o] = 0 THEN month ELSE finished.at[o]
    IN  /\ finished.ver[o] < finished.max[o]
        /\ finished' = [finished EXCEPT !.ver[o] = @ + 1, !.at[o] = at]
        /\ DispatchRecord([kind |-> "order", id |-> o, ver |-> finished.ver[o] + 1, at |-> at])
        /\ UNCHANGED <<js, rec, pg, month, faults>>

TradeFills(t) ==
    /\ t \in finished.todo
    /\ finished' = [finished EXCEPT !.todo = @ \ {t}]
    /\ DispatchRecord([kind |-> "trade", id |-> t, ver |-> 1, at |-> month])
    /\ UNCHANGED <<js, rec, pg, month, faults>>

\* recorder_worker: a publication that fails is logged and gone.
RecorderWorker ==
    /\ recQ # << >>
    /\ recQ' = Tail(recQ)
    /\ \/ js' = [js EXCEPT !.log = Append(@, Head(recQ))] /\ UNCHANGED faults
       \/ Fault /\ UNCHANGED js
    /\ UNCHANGED <<finished, rec, pg, month>>

(***************************************************************************)
(* JetStream (external).                                                   *)
(***************************************************************************)
Undelivered(k) == {i \in DOMAIN js.log : js.log[i].kind = k /\ i \notin js.acked \cup js.waiting}

Deliver(k, i) ==
    /\ rec.up /\ k \in rec.running /\ Len(rec.inbox[k]) < InboxCap
    /\ rec' = [rec EXCEPT !.inbox[k] = Append(@, i)]
    /\ js' = [js EXCEPT !.waiting = @ \cup {i}]
    /\ UNCHANGED <<finished, recQ, pg, month, faults>>

DeliverNext(k) ==
    \E i \in Undelivered(k) : (\A j \in Undelivered(k) : i <= j) /\ Deliver(k, i)

\* ack_wait passed; the message may still be in the client's buffer.
Redeliver(k) ==
    \E i \in js.waiting : js.log[i].kind = k /\ Deliver(k, i)

\* ON CONFLICT (terminal_at, order_id) DO UPDATE, COALESCE for the binding.
UpsertOrderOms(p, e, enriched) ==
    [p EXCEPT !.orders[e.id][e.at] = [ver |-> e.ver, enriched |-> enriched \/ @.enriched]]

\* ON CONFLICT (account_id, ext_trade_id) DO NOTHING.
InsertTradeOms(p, e) == [p EXCEPT !.trades[e.id] = IF @ = 0 THEN 1 ELSE @]

HasPartition(e) == e.at \in pg.parts

\* try_enrich_from_source_binding answers with nothing on any error.
HandleMessage(e) ==
    IF e.kind = "trade"
    THEN pg' = InsertTradeOms(pg, e)
    ELSE /\ HasPartition(e)
         /\ \E enriched \in BOOLEAN : pg' = UpsertOrderOms(pg, e, enriched)

EnsurePartitions(p) == [p EXCEPT !.parts = @ \cup {month, month + 1}]

DropExpiredPartitions(p) ==
    LET expired == {q \in p.parts : q + RetentionMonths < month}
    IN  [p EXCEPT !.parts = @ \ expired,
                  !.orders = [o \in RecOrders |-> [q \in Months |-> IF q \in expired THEN NoRow ELSE @[o][q]]]]

(***************************************************************************)
(* The recorder.  consumer_loop handles one message at a time and          *)
(* acknowledges it once it is stored; a failed handler leaves it to be     *)
(* redelivered.                                                            *)
(***************************************************************************)
Taken(k) == rec' = [rec EXCEPT !.inbox[k] = Tail(@)]
Acknowledged(i) == js' = [js EXCEPT !.acked = @ \cup {i}, !.waiting = @ \ {i}]

\* Mutant: acknowledged whatever the handler says.
ConsumerLoopAcksAlways(k) ==
    LET i == Head(rec.inbox[k])
    IN  /\ rec.up /\ k \in rec.running /\ rec.inbox[k] # << >>
        /\ Taken(k)
        /\ Acknowledged(i)
        /\ \/ HandleMessage(js.log[i]) /\ UNCHANGED faults
           \/ Fault /\ UNCHANGED pg
           \/ (js.log[i].kind = "order" /\ ~HasPartition(js.log[i])) /\ UNCHANGED <<pg, faults>>
        /\ UNCHANGED <<finished, recQ, month>>

\* Mutant: a failed handler ends the consumer's task.
ConsumerLoopBreaks(k) ==
    LET i == Head(rec.inbox[k])
    IN  /\ rec.up /\ k \in rec.running /\ rec.inbox[k] # << >>
        /\ \/ Taken(k) /\ HandleMessage(js.log[i]) /\ Acknowledged(i) /\ UNCHANGED faults
           \/ rec' = [rec EXCEPT !.running = @ \ {k}, !.inbox[k] = << >>] /\ Fault /\ UNCHANGED <<js, pg>>
        /\ UNCHANGED <<finished, recQ, month>>

ConsumerLoop(k) ==
    LET i == Head(rec.inbox[k])
    IN  /\ rec.up /\ k \in rec.running /\ rec.inbox[k] # << >>
        /\ Taken(k)
        /\ \/ HandleMessage(js.log[i]) /\ Acknowledged(i) /\ UNCHANGED faults
           \/ HandleMessage(js.log[i]) /\ Fault /\ UNCHANGED js          \* the ack is lost
           \/ Fault /\ UNCHANGED <<js, pg>>                              \* the statement fails
           \/ (js.log[i].kind = "order" /\ ~HasPartition(js.log[i])) /\ UNCHANGED <<js, pg, faults>>
        /\ UNCHANGED <<finished, recQ, month>>

\* "message stream ended unexpectedly": the task returns, the process stays.
StreamEnds(k) ==
    /\ rec.up /\ k \in rec.running /\ Fault
    /\ rec' = [rec EXCEPT !.running = @ \ {k}, !.ended = TRUE, !.inbox[k] = << >>]
    /\ UNCHANGED <<finished, recQ, js, pg, month>>

\* main: maintenance first (a failure ends the process), then the consumers.
RecorderStarts ==
    /\ ~rec.up
    /\ rec' = [up |-> TRUE, running |-> Kinds, ended |-> FALSE, inbox |-> [k \in Kinds |-> << >>],
               maintained |-> FALSE]
    /\ pg' = DropExpiredPartitions(EnsurePartitions(pg))
    /\ UNCHANGED <<finished, recQ, js, month, faults>>

\* A crash, or a shutdown: a message in hand is stored but not acknowledged, or neither.
RecorderStops ==
    /\ rec.up /\ Fault
    /\ rec' = [rec EXCEPT !.up = FALSE, !.inbox = [k \in Kinds |-> << >>]]
    /\ UNCHANGED <<finished, recQ, js, pg, month>>

\* spawn_periodic: each statement may fail by itself.
PartitionMaintenance ==
    /\ rec.up
    /\ rec' = [rec EXCEPT !.maintained = TRUE]
    /\ \/ pg' = DropExpiredPartitions(EnsurePartitions(pg)) /\ UNCHANGED faults
       \/ pg' = DropExpiredPartitions(pg) /\ Fault
       \/ pg' = EnsurePartitions(pg) /\ Fault
    /\ UNCHANGED <<finished, recQ, js, month>>

\* The task's interval is an hour: it runs in every month the process sees out.
MonthPasses ==
    /\ month < LastMonth
    /\ rec.up => rec.maintained
    /\ month' = month + 1
    /\ rec' = [rec EXCEPT !.maintained = FALSE]
    /\ UNCHANGED <<finished, recQ, js, pg, faults>>

RecInit ==
    /\ \E case \in RecCases :
         finished = [ver |-> [o \in RecOrders |-> 0], at |-> [o \in RecOrders |-> 1],
                     max |-> [o \in RecOrders |-> IF o \in case.orders THEN MaxVersions ELSE 0],
                     todo |-> case.trades]
    /\ recQ = << >>
    /\ js = [log |-> << >>, acked |-> {}, waiting |-> {}]
    /\ rec = [up |-> FALSE, running |-> {}, ended |-> FALSE, inbox |-> [k \in Kinds |-> << >>],
              maintained |-> FALSE]
    /\ pg = [orders |-> [o \in RecOrders |-> [q \in Months |-> NoRow]],
             trades |-> [t \in RecTrades |-> 0], parts |-> {}]
    /\ month = 1 /\ faults = 0

RecNext ==
    \/ \E o \in RecOrders : OrderCloses(o)
    \/ \E t \in RecTrades : TradeFills(t)
    \/ \E k \in Kinds : DeliverNext(k) \/ Redeliver(k) \/ ConsumerLoop(k) \/ StreamEnds(k)
    \/ RecorderWorker \/ RecorderStarts \/ RecorderStops \/ PartitionMaintenance \/ MonthPasses

RecSpec == RecInit /\ [][RecNext]_RecVars

---------------------------------------------------------------------------
(***************************************************************************)
(* Properties                                                              *)
(***************************************************************************)
PastRetention(e) == e.at + RetentionMonths < month
Expired(e) == PastRetention(e) \/ e.at \notin pg.parts

(***************************************************************************)
(* An acknowledged message is in the database, until its month is past     *)
(* the retention: a statement that fails, a lost acknowledgement or a      *)
(* restart between the two leaves the message with JetStream.              *)
(***************************************************************************)
AckedIsStored ==
    \A i \in js.acked :
        LET e == js.log[i]
        IN  IF e.kind = "trade" THEN pg.trades[e.id] = 1
            ELSE PastRetention(e) \/ pg.orders[e.id][e.at] # NoRow

(***************************************************************************)
(* Every published message is recorded in the end, through failed          *)
(* statements, lost acknowledgements and restarts - unless a consumer's    *)
(* message stream ended (nothing restarts it) or the order's partition     *)
(* expired first.                                                          *)
(***************************************************************************)
PublishedIsRecorded ==
    \A i \in 1..(Cardinality(RecTrades) + MaxVersions * Cardinality(RecOrders)) :
        (i \in DOMAIN js.log) ~> (i \in js.acked \/ rec.ended \/ (i \in DOMAIN js.log /\ Expired(js.log[i])))

=============================================================================
