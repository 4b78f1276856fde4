----------------------------- MODULE OmsParity -----------------------------
(***************************************************************************)
(* The two OMS cores side by side.  A strategy is tuned against OmsCore     *)
(* (OmsCoreV1.tla), which the backtester runs, and then trades through      *)
(* OmsCoreV2 (OmsCore.tla).  Every message here goes to both cores.  They   *)
(* need not accept the same orders (the second core freezes inventory for   *)
(* every sell, the first one only under balance_check); what is asked is    *)
(* that an order both of them sent goes through the same states.            *)
(***************************************************************************)
EXTENDS OmsCore, OmsCoreV1

CONSTANTS
    MaxClosings,        \* bound on the reports that find or leave an order terminal
    ParityRequests,     \* the requests and reports both cores receive
    ParityReports,
    ParityConfig        \* the first core's trading config and flags

VARIABLE both           \* orders that both cores sent to the gateway

(* The second core, with room for every closed order of the instance.       *)
Live == INSTANCE OmsCore WITH MaxCachedOrders <- MaxClosings + NumOrders,
                              Requests <- ParityRequests, Reports <- ParityReports

ParityVars == <<vars, V1Vars, both>>

(* The entries of a report of OmsCore.tla, in the order senders build them. *)
EntriesOf(r) ==
    (IF r.link THEN <<[kind |-> "linkage", ref |-> r.ref]>> ELSE << >>) \o
    (IF r.trade > 0 THEN <<[kind |-> "trade", qty |-> r.trade]>> ELSE << >>) \o
    (IF r.state # NoState
     THEN <<[kind |-> "state", status |-> MapOrderStatus(r.state), filled |-> r.filled,
             left |-> r.unfilled]>> ELSE << >>) \o
    (IF r.exec # "none"
     THEN <<[kind |-> "exec", placing |-> r.exec = "Rejected", error |-> TRUE]>> ELSE << >>) \o
    (IF r.fee THEN <<[kind |-> "fee"]>> ELSE << >>)

V1Of(r) == [oid |-> r.oid, ref |-> IF r.ref = NoRef THEN V1NoRef ELSE r.ref, src |-> "tq",
            acct |-> NoAccount, entries |-> EntriesOf(r)]

V1RequestOf(req) == [acct |-> req.acct, known |-> req.inst \in DOMAIN Meta,
                     side |-> IF req.buy THEN "buy" ELSE "sell", qty |-> req.qty]

ParityInit ==
    /\ Live!Init
    /\ v1 = V1Start(ParityConfig) /\ v1acts = << >> /\ v1sent = {} /\ v1late = {}
    /\ both = {}

ParityPlace(o, req) ==
    /\ Live!PlaceOrder(o, req)
    /\ V1Does(V1ProcessOrder(v1, o, V1RequestOf(req)))
    /\ v1sent' = v1sent \cup V1SentBy(v1acts')
    /\ both' = both \cup {i \in V1SentBy(v1acts') :
                             \E j \in DOMAIN out' : out'[j] = Act("SendOrderToGw", i, FALSE)}

ParityCancel(o) ==
    /\ Live!CancelOrder(o)
    /\ V1Other(V1ProcessCancel(v1, o))
    /\ UNCHANGED both

(* A report of an order that only one core sent would be news to the other. *)
ParityReport(r) ==
    /\ r.oid # NoId => r.oid \in both
    /\ Len(orders.lru) < MaxClosings /\ Len(v1.queue) < MaxClosings
    /\ Live!OrderReport(r)
    /\ V1Other(V1ProcessReport(v1, V1Of(r)))
    /\ UNCHANGED both

ParityPanic(a) == Live!Panic(a) /\ V1Panic(a) /\ UNCHANGED both
ParityDontPanic(a) == Live!DontPanic(a) /\ V1DontPanic(a) /\ UNCHANGED both

ParityNext ==
    \/ \E o \in ClientIds, req \in ParityRequests : ParityPlace(o, req)
    \/ \E o \in ClientIds : ParityCancel(o)
    \/ \E r \in ParityReports : ParityReport(r)
    \/ \E a \in Accounts : ParityPanic(a) \/ ParityDontPanic(a)

ParitySpec == ParityInit /\ [][ParityNext]_ParityVars

-----------------------------------------------------------------------------
(* An order that both cores sent has the same status, cumulative fill and   *)
(* openness in both, whatever reports arrive and in whatever order: what a  *)
(* strategy sees of its order in a backtest is what it will see live.  A    *)
(* reference with buffered reports is left out: only the first core replays *)
(* them.                                                                    *)
OrdersAgree ==
    \A o \in both :
        LET l == orders.live[o]
            x == v1.orders[o]
        IN  \/ l.ref # NoRef /\ pending[l.ref] > 0
            \/ /\ Present(orders, o) /\ V1Has(v1, o)
               /\ l.status = x.status /\ l.filled = x.filled /\ l.acc = x.traded
               /\ o \in orders.open <=> o \in v1.open
=============================================================================
