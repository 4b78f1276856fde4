----------------------------- MODULE MCOmsViews -----------------------------
(***************************************************************************)
(* What others see of an OMS, on small instances: gRPC callers through the *)
(* read replica (OmsReplica), strategies in a backtest (Backtest) through  *)
(* the first core (OmsCoreV1), and a strategy that moves from one core to  *)
(* the other (OmsParity).  Init picks the part that runs.                  *)
(***************************************************************************)
EXTENDS OmsReplica, Backtest, TLC

CONSTANTS MaxClosings, ParityRequests, ParityReports, ParityConfig

VARIABLES
    part,
    porders, presv, ppos, pbal, ppending, ppanic, pused, pout,   \* the second core beside v1
    both

Parity == INSTANCE OmsParity WITH
    orders <- porders, resv <- presv, pos <- ppos, bal <- pbal, pending <- ppending,
    panic <- ppanic, used <- pused, out <- pout, MaxCancels <- 1, MaxTraded <- 2

PairVars == <<porders, presv, ppos, pbal, ppending, ppanic, pused, pout, both>>

-----------------------------------------------------------------------------
SpotMeta == [bk |-> TRUE, bc |-> TRUE, um |-> FALSE, max |-> 2, lot |-> 1, fund |-> 1, pos |-> 2]
McMeta == "spot" :> SpotMeta @@ "loose" :> [SpotMeta EXCEPT !.bc = FALSE]

Req(inst, buy, qty) == [acct |-> "a", inst |-> inst, buy |-> buy, qty |-> qty, price |-> 1]
McRequests == {Req("spot", TRUE, 2), Req("spot", TRUE, 1)}
McParityRequests == {Req("loose", TRUE, 2), Req("loose", TRUE, 3)}

Rep(o, ref, trade, state, filled, exec) ==
    [oid |-> o, ref |-> ref, gw |-> TRUE, acct |-> "a", link |-> o # NoId /\ ref # NoRef, trade |-> trade,
     state |-> state, filled |-> filled, unfilled |-> 0, exec |-> exec, fee |-> FALSE]

McReports ==
    {Rep(1, "r", 0, NoState, 0, "none"), Rep(1, NoRef, 0, "Booked", 1, "none"),
     Rep(1, NoRef, 0, "Cancelled", 1, "none"), Rep(2, NoRef, 0, "Filled", 2, "none")}

(* Every shape of a report for the first order, and reports that arrive     *)
(* before the reference is linked.                                          *)
McParityReports ==
    {Rep(1, NoRef, e[1], e[2], e[3], e[4]) :
        e \in {<<0, NoState, 0, "Rejected">>, <<1, NoState, 0, "none">>, <<0, "Booked", 0, "none">>,
               <<1, "Booked", 1, "none">>, <<0, "Filled", 2, "none">>, <<0, "Cancelled", 0, "none">>,
               <<0, "Cancelled", 1, "none">>}}
    \cup {Rep(1, "r", 0, NoState, 0, "none"), Rep(2, NoRef, 0, "Cancelled", 1, "none"),
          Rep(NoId, "r", 1, NoState, 0, "none"), Rep(NoId, "r", 0, "Filled", 1, "none")}

McUpdates == {[acct |-> "a", spot |-> TRUE, target |-> 1, qty |-> 3, avail |-> 3, short |-> FALSE]}
McIdsOf == "c1" :> {1, 2}

McV1Req(side, q) == [acct |-> "a", known |-> TRUE, side |-> side, qty |-> q]
McV1Requests == {McV1Req("buy", 2), McV1Req("sell", 1), McV1Req("none", 1),
                 [McV1Req("sell", 1) EXCEPT !.known = FALSE]}

McV1Config == [bk |-> TRUE, bc |-> TRUE, um |-> FALSE, risk |-> FALSE, maxSize |-> 2, max |-> 1, ext |-> TRUE]
McV1Configs == {McV1Config}
McParityConfig == [McV1Config EXCEPT !.bc = FALSE, !.risk = TRUE, !.max = 9, !.ext = FALSE]

State(status, f) == [kind |-> "state", status |-> status, filled |-> f, left |-> 0]
Linkage(x) == [kind |-> "linkage", ref |-> x]
Trade(q) == [kind |-> "trade", qty |-> q]
V1Rep(o, x, src, es) == [oid |-> o, ref |-> x, src |-> src, acct |-> NoAccount, entries |-> es]

McV1Reports ==
    {V1Rep(1, "r", "tq", es) :
        es \in {<<Linkage("r"), State("Booked", 0)>>, <<Trade(1)>>,
                <<State("PartiallyFilled", 1)>>, <<State("Cancelled", 0)>>, <<State("Filled", 2)>>}}
    \cup {V1Rep(2, V1NoRef, "tq", es) :
             es \in {<<[kind |-> "exec", placing |-> TRUE, error |-> TRUE]>>, <<Trade(1), State("Filled", 1)>>}}
    \cup {V1Rep(V1NoId, "r", "unknown", <<State("Filled", 1)>>), V1Rep(V1NoId, "r", "nontq", <<State("Booked", 0)>>)}

McV1Updates ==
    {[acct |-> "a", spot |-> (1 :> 3), other |-> (2 :> [qty |-> 1, avail |-> 1, short |-> FALSE])]}

(* Two sources that a backtest merges by time.                              *)
Level(b, p, q) == [buy |-> b, price |-> p, qty |-> q]
Event(ts, k, ls) == [ts |-> ts, kind |-> k, levels |-> ls]
McStreams ==
    << <<Event(1, "tick", <<Level(FALSE, 1, 1), Level(FALSE, 2, 1), Level(TRUE, 1, 1), Level(TRUE, 1, 2)>>),
         Event(16, "tick", <<Level(FALSE, 1, 1), Level(TRUE, 1, 1)>>)>>,
       <<Event(2, "bar", << >>), Event(20, "signal", << >>)>> >>
McBtRefs == <<"r", "x2", "x3">>

-----------------------------------------------------------------------------
ViewsInit ==
    /\ part \in {"replica", "parity", "v1", "backtest"}
    /\ ReplicaInit /\ BtInit
    /\ part # "backtest" => bt.policy = "fcfs"
    /\ IF part = "v1"
       THEN V1Init
       ELSE v1 = V1Start(ParityConfig) /\ v1acts = << >> /\ v1sent = {} /\ v1late = {}
    /\ Parity!Live!Init /\ both = {}

ViewsNext ==
    /\ \/ part = "replica" /\ ReplicaNext /\ UNCHANGED <<V1Vars, PairVars, BtVars>>
       \/ part = "parity" /\ Parity!ParityNext /\ UNCHANGED <<ReplicaVars, BtVars>>
       \/ part = "v1" /\ V1Next /\ UNCHANGED <<ReplicaVars, PairVars, BtVars>>
       \/ part = "backtest" /\ BtNext /\ UNCHANGED <<ReplicaVars, V1Vars, PairVars>>
    /\ UNCHANGED part

ViewsSpec == ViewsInit /\ [][ViewsNext]_<<part, ReplicaVars, V1Vars, PairVars, BtVars>>

OrdersAgree == Parity!OrdersAgree

(* Nothing reads the actions a step returned: states that differ only in    *)
(* them have the same future.                                               *)
ViewsView == <<part, bt, v1, v1sent, v1late, orders, resv, pos, bal, pending, panic, used, wr, replica,
               cmds, call, calls, sent, raced, job,
               porders, presv, ppos, pbal, ppending, ppanic, pused, both>>
=============================================================================
