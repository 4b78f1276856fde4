---------------------------- MODULE OkxGateway ----------------------------
(***************************************************************************)
(* The gateway's OKX adapter: orders go out over REST, the venue's news    *)
(* comes in over a supervised WebSocket session (zk-gw-svc venue/okx,      *)
(* venue-integrations/okx).  The adapter's REST calls run in the gateway's *)
(* workers; the supervisor is one task that runs a session until it fails, *)
(* then asks the venue over REST what it missed, backs off and reconnects. *)
(*                                                                         *)
(* The venue is external: it fills and cancels orders when it likes and    *)
(* pushes what happens to a subscribed session only.  An order is for      *)
(* OkxQty, filled one unit at a time; trade t belongs to order             *)
(* okx.trades[t].                                                          *)
(***************************************************************************)
EXTENDS SemanticPipeline, Integers, Sequences, FiniteSets

CONSTANTS
    OkxOrders,       \* client order ids
    OkxDerivatives,  \* those among them whose posSide okx_pos_side can derive
    OkxQty,          \* quantity of an order
    OkxInstruments,  \* instruments the account may hold positions in
    MaxOutages,      \* bound: failed sessions and failed connection attempts
    OkxCases,        \* the orders placed and the number of position changes: see OkInit
    QueryFails       \* may a compensating query fail?

ASSUME OkAssumption == IsFiniteSet(OkxOrders)

VARIABLES
    okx,     \* external: the exchange
    link,    \* the WebSocket supervisor and its connection
    rest,    \* each order's REST call
    ids,     \* OkxIdMap.ord_to_inst: orders whose instrument the adapter knows
    okWire,  \* supervisor -> bridge -> event channel
    okPipe,  \* the semantic pipeline's memory
    okPub    \* history: what was published, the trades published again, and those nobody asked for

OkVars == <<okx, link, rest, ids, okWire, okPipe, okPub>>

OkReport(o, status, trade) == [ev |-> "report", id |-> o, status |-> status, trade |-> trade]
OkPositions(facts) == [ev |-> "position", held |-> facts]
OkSystem(what) == [ev |-> "system", what |-> what]

\* map_order_status; a report built from a trade alone carries no state.
OkStatus(v, o) ==
    CASE v.st[o] = "live" /\ v.filled[o] = 0 -> "booked"
      [] v.st[o] = "live" /\ v.filled[o] > 0 -> "partial"
      [] OTHER -> v.st[o]
NoStatus == "none"

Subscribed == link.phase = "up"

\* The venue pushes to a subscribed session; without one the news is gone.
Push(msg) == link' = IF Subscribed THEN [link EXCEPT !.push = Append(@, msg)] ELSE link

Emit(evs) == okWire' = okWire \o evs

\* OkxIdMap::record: whoever learns of an order records its ids.
OkRecord(os) == ids' = ids \cup os

(***************************************************************************)
(* The venue (external).                                                   *)
(***************************************************************************)
VenueFills(o) ==
    LET v == [okx EXCEPT !.filled[o] = @ + 1, !.trades = Append(@, o),
                           !.st[o] = IF okx.filled[o] + 1 = OkxQty THEN "filled" ELSE @]
    IN  /\ okx.st[o] = "live"
        /\ okx' = v
        /\ Push(OkReport(o, OkStatus(v, o), Len(v.trades)))
        /\ okPub' = IF link.phase \in {"account", "backoff", "connecting"} /\ link.ready = "ok"
                    THEN [okPub EXCEPT !.unasked = @ \cup {Len(v.trades)}] ELSE okPub
        /\ UNCHANGED <<rest, ids, okWire, okPipe>>

VenueMoves(i) ==
    /\ okx.moves > 0 /\ Subscribed
    /\ okx' = [okx EXCEPT !.moves = @ - 1,
                              !.pos = IF i \in @ THEN @ \ {i} ELSE @ \cup {i}]
    /\ Push(OkPositions([k \in {i} |-> IF i \in okx.pos THEN 0 ELSE 1]))
    /\ UNCHANGED <<rest, ids, okWire, okPipe, okPub>>

(***************************************************************************)
(* place_order: one REST call, and one more when OKX asks for a posSide    *)
(* the adapter can derive.  Every error, a timeout of the HTTP client      *)
(* included, is answered with a rejection; the order may be live all the   *)
(* same.                                                                   *)
(***************************************************************************)
OkPlace(o) ==
    /\ rest[o] = "idle" /\ link.ready = "ok"
    /\ rest' = [rest EXCEPT ![o] = "sent"]
    /\ UNCHANGED <<okx, link, ids, okWire, okPipe, okPub>>

\* The venue handles the request (external): it takes the order, refuses it,
\* or asks for a posSide, which only the first request leaves out.
VenueTakes(o) ==
    /\ rest[o] \in {"sent", "resent"}
    /\ okx' = [okx EXCEPT !.st[o] = "live"]
    /\ rest' = [rest EXCEPT ![o] = "taken"]
    /\ Push(OkReport(o, "booked", NoTrade))
    /\ UNCHANGED <<ids, okWire, okPipe, okPub>>

VenueRefuses(o) ==
    /\ \/ rest[o] \in {"sent", "resent"} /\ rest' = [rest EXCEPT ![o] = "refused"]
       \/ rest[o] = "sent" /\ rest' = [rest EXCEPT ![o] = "pos_side"]
    /\ UNCHANGED <<okx, link, ids, okWire, okPipe, okPub>>

OkReject(u, o) == [u EXCEPT !.rejected = @ \cup {o}]

\* An answer whose sCode is not "0" is an error, as is any other failed call.
Refused(o) == rest[o] = "refused" \/ (rest[o] = "pos_side" /\ o \notin OkxDerivatives)

RestAnswers(o) ==
    \/ /\ rest[o] = "taken"
       /\ rest' = [rest EXCEPT ![o] = "acked"]
       /\ OkRecord({o})
       /\ UNCHANGED <<okx, link, okWire, okPipe, okPub>>
    \/ /\ rest[o] = "pos_side" /\ o \in OkxDerivatives
       /\ rest' = [rest EXCEPT ![o] = "resent"]
       /\ UNCHANGED <<okx, link, ids, okWire, okPipe, okPub>>
    \/ /\ Refused(o)
       /\ rest' = [rest EXCEPT ![o] = "failed"]
       /\ okPub' = OkReject(okPub, o)
       /\ UNCHANGED <<okx, link, ids, okWire, okPipe>>

\* The answer is lost or late: reqwest's 10 s timeout.
RestTimesOut(o) ==
    /\ rest[o] \in {"sent", "resent", "taken"}
    /\ rest' = [rest EXCEPT ![o] = "failed"]
    /\ okPub' = OkReject(okPub, o)
    /\ UNCHANGED <<okx, link, ids, okWire, okPipe>>

(***************************************************************************)
(* cancel_order needs the instrument of the venue's order id, which the    *)
(* OMS has from a published report.  Without it the call fails before it   *)
(* reaches the venue, and so may a request on its way.  A refusal or a     *)
(* lost answer is a cancel rejection.                                      *)
(***************************************************************************)
OkCancel(o) ==
    /\ o \in okPub.linked /\ o \notin okPub.cancelled
    /\ okPub' = [okPub EXCEPT !.cancelled = @ \cup {o}]
    /\ \/ /\ o \in ids /\ okx.st[o] = "live"
          /\ okx' = [okx EXCEPT !.st[o] = "canceled"]
          /\ Push(OkReport(o, "canceled", NoTrade))
       \/ UNCHANGED <<okx, link>>
    /\ UNCHANGED <<rest, ids, okWire, okPipe>>

(***************************************************************************)
(* The supervisor.  run(): a session, and after a failed one the           *)
(* Disconnected event, four queries, the backoff.  A first attempt that    *)
(* fails is reported to connect() and ends the supervisor.                 *)
(***************************************************************************)
\* Mutant: any session that fails before its login ends the supervisor.
SessionFailedEnds(established) ==
    /\ link.outages < MaxOutages
    /\ IF ~established
       THEN /\ link' = [link EXCEPT !.phase = "exited", !.outages = @ + 1,
                                    !.ready = IF @ = "waiting" THEN "failed" ELSE @]
            /\ UNCHANGED okWire
       ELSE /\ link' = [link EXCEPT !.phase = "orders", !.push = << >>, !.backoff = 1, !.outages = @ + 1]
            /\ Emit(<<OkSystem("disconnected")>>)
    /\ UNCHANGED <<okx, rest, ids, okPipe, okPub>>

SessionFailed(established) ==
    /\ link.outages < MaxOutages
    /\ IF ~established /\ link.ready = "waiting"
       THEN /\ link' = [link EXCEPT !.phase = "exited", !.ready = "failed", !.outages = @ + 1]
            /\ UNCHANGED okWire
       ELSE /\ link' = [link EXCEPT !.phase = "orders", !.push = << >>, !.outages = @ + 1,
                                    !.backoff = IF established THEN 1 ELSE @]
            /\ Emit(<<OkSystem("disconnected")>>)
    /\ UNCHANGED <<okx, rest, ids, okPipe, okPub>>

ConnectFails == link.phase = "connecting" /\ SessionFailed(FALSE)
SessionDrops == link.phase = "up" /\ SessionFailed(TRUE)

\* connect, login, subscribe; then Connected and the readiness signal.
SessionUp ==
    /\ link.phase = "connecting"
    /\ link' = [link EXCEPT !.phase = "up", !.ready = "ok"]
    /\ Emit(<<OkSystem("connected")>>)
    /\ UNCHANGED <<okx, rest, ids, okPipe, okPub>>

\* handle_text_message: a push becomes an event; an order push records its ids.
ReadPush ==
    LET msg == Head(link.push)
    IN  /\ Subscribed /\ link.push # << >>
        /\ link' = [link EXCEPT !.push = Tail(@)]
        /\ Emit(<<msg>>)
        /\ OkRecord(IF msg.ev = "report" THEN {msg.id} ELSE {})
        /\ UNCHANGED <<okx, rest, okPipe, okPub>>

(***************************************************************************)
(* run_compensating_queries: four REST queries in a row.  A query that     *)
(* fails is logged and skipped.  An empty list of positions makes no event.*)
(***************************************************************************)
Compensate(from, to) == link.phase = from /\ link' = [link EXCEPT !.phase = to]

OpenAtVenue == {o \in OkxOrders : okx.st[o] = "live"}

\* The venue lists the open orders in whatever order it likes.
OpenOrderReports ==
    LET lists == {f \in [1..Cardinality(OpenAtVenue) -> OpenAtVenue] :
                     \A i, j \in DOMAIN f : f[i] = f[j] => i = j}
    IN  {[i \in DOMAIN open |-> OkReport(open[i], OkStatus(okx, open[i]), NoTrade)] : open \in lists}

QueryOpenOrders ==
    /\ Compensate("orders", "trades")
    /\ \E reports \in OpenOrderReports : Emit(reports)
    /\ OkRecord(OpenAtVenue)
    /\ UNCHANGED <<okx, rest, okPipe, okPub>>

TradeReports ==
    [t \in 1..Len(okx.trades) |-> OkReport(okx.trades[t], NoStatus, t)]

\* Mutant: the trades are only asked for when the session never came up.
QueryTradesSkipped ==
    /\ Compensate("trades", "account")
    /\ UNCHANGED <<okx, rest, ids, okWire, okPipe, okPub>>

QueryTrades ==
    /\ Compensate("trades", "account")
    /\ Emit(TradeReports)
    /\ OkRecord({okx.trades[t] : t \in DOMAIN okx.trades})
    /\ UNCHANGED <<okx, rest, okPipe, okPub>>

HeldPositions == IF okx.pos = {} THEN << >> ELSE <<OkPositions([i \in okx.pos |-> 1])>>

\* Balances, which the model leaves out, and positions.
QueryAccount ==
    /\ Compensate("account", "backoff")
    /\ Emit(HeldPositions)
    /\ UNCHANGED <<okx, rest, ids, okPipe, okPub>>

KnownTrades ==
    {t \in DOMAIN okx.trades : \/ t \in okPub.trades
                                 \/ \E i \in DOMAIN okWire : okWire[i].ev = "report" /\ okWire[i].trade = t}

CompensatingQueryFails ==
    /\ QueryFails
    /\ \/ Compensate("orders", "trades") /\ UNCHANGED okPub
       \/ /\ Compensate("trades", "account")
          /\ okPub' = [okPub EXCEPT !.unasked = @ \cup (DOMAIN okx.trades \ KnownTrades)]
       \/ Compensate("account", "backoff") /\ UNCHANGED okPub
    /\ UNCHANGED <<okx, rest, ids, okWire, okPipe>>

\* The wait doubles up to 30 s, and starts over after a session that was up.
Reconnect ==
    /\ link.phase = "backoff"
    /\ link' = [link EXCEPT !.phase = "connecting",
                            !.backoff = IF 2 * @ > 30 THEN 30 ELSE 2 * @]
    /\ UNCHANGED <<okx, rest, ids, okWire, okPipe, okPub>>

\* The shutdown flag is looked at before a session and in its read loop.
OkShutdown ==
    /\ link.phase \in {"connecting", "up"}
    /\ link' = [link EXCEPT !.phase = "exited", !.shut = TRUE,
                            !.ready = IF @ = "waiting" THEN "failed" ELSE @]
    /\ UNCHANGED <<okx, rest, ids, okWire, okPipe, okPub>>

(***************************************************************************)
(* The bridge and the event loop, one event after the other.               *)
(***************************************************************************)
OkPublish(u, r) ==
    [u EXCEPT !.linked = @ \cup {r.id},
              !.again = IF r.trade \in u.trades THEN @ \cup {r.trade} ELSE @,
              !.trades = IF r.trade = NoTrade THEN @ ELSE @ \cup {r.trade}]

OkEventLoop ==
    /\ okWire # << >>
    /\ okWire' = Tail(okWire)
    /\ LET e == Head(okWire)
       IN  \/ /\ e.ev = "report"
              /\ LET d == Deduped(okPipe, e) IN okPipe' = d.pipe /\ okPub' = OkPublish(okPub, d.report)
           \/ /\ e.ev = "position"
              /\ okPipe' = TrackPositions(okPipe, e.held)
              /\ okPub' = PublishPositions(okPub, okPipe, e.held)
           \/ /\ e.ev = "system"
              /\ UNCHANGED <<okPipe, okPub>>
    /\ UNCHANGED <<okx, link, rest, ids>>

OkInit ==
    /\ \E case \in OkxCases :
          /\ okx = [st |-> [o \in OkxOrders |-> "none"], filled |-> [o \in OkxOrders |-> 0],
                      trades |-> << >>, pos |-> {}, moves |-> case.moves]
          /\ rest = [o \in OkxOrders |-> IF o \in case.place THEN "idle" ELSE "unused"]
    /\ link = [phase |-> "connecting", push |-> << >>, ready |-> "waiting", backoff |-> 1, outages |-> 0,
               shut |-> FALSE]
    /\ ids = {}
    /\ okWire = << >>
    /\ okPipe = EmptyPipe
    /\ okPub = [trades |-> {}, again |-> {}, linked |-> {}, rejected |-> {}, cancelled |-> {},
                held |-> {}, lastFacts |-> {}, unasked |-> {}]

OkSupervisor ==
    \/ ConnectFails \/ SessionDrops \/ SessionUp \/ ReadPush
    \/ QueryOpenOrders \/ QueryTrades \/ QueryAccount \/ CompensatingQueryFails \/ Reconnect

OkNext ==
    \/ \E o \in OkxOrders :
          \/ OkPlace(o) \/ VenueTakes(o) \/ VenueRefuses(o) \/ RestAnswers(o) \/ RestTimesOut(o)
          \/ OkCancel(o) \/ VenueFills(o)
    \/ \E i \in OkxInstruments : VenueMoves(i)
    \/ OkSupervisor \/ OkShutdown \/ OkEventLoop

OkSpec == OkInit /\ [][OkNext]_OkVars

---------------------------------------------------------------------------
(***************************************************************************)
(* Properties                                                              *)
(***************************************************************************)
OkQuiet == Subscribed /\ link.push = << >> /\ okWire = << >>

(***************************************************************************)
(* A trade the venue reports twice, over the session and through the       *)
(* compensating query, is published once; and when a session is up and     *)
(* quiet every trade has been published, except those made after the       *)
(* outage's trade query and before the new session (or while the query     *)
(* failed): those nobody asked for.                                        *)
(***************************************************************************)
OkTradesRecovered ==
    /\ okPub.again = {}
    /\ OkQuiet => DOMAIN okx.trades \subseteq okPub.trades \cup okPub.unasked

(***************************************************************************)
(* An outage ends: once connect() has succeeded, a supervisor that is not  *)
(* shut down comes back to a session, however often reconnecting fails     *)
(* first.                                                                  *)
(***************************************************************************)
OkReconnects == (link.ready = "ok" /\ link.phase # "up") ~> (link.phase = "up" \/ link.shut)

=============================================================================
