----------------------------- MODULE MCServices -----------------------------
(***************************************************************************)
(* The services around the OMS on small instances: the strategy engine     *)
(* (Engine), the simulator's gateway (SimGateway), the OKX gateway         *)
(* (OkxGateway), the recorder (Recorder), the timers (TimerClock) and the  *)
(* OMS's metadata tables (MetadataTables).  They share no state, so they   *)
(* are checked side by side: Init picks the one that runs.                 *)
(***************************************************************************)
EXTENDS Engine, SimGateway, OkxGateway, Recorder, TimerClock, MetadataTables

VARIABLE part

-----------------------------------------------------------------------------
(* Market data, klines with control commands, and an order: one at a time.  *)
McEngConfigs ==
    {[instruments |-> {"a"}, klines |-> FALSE, orders |-> {}, commands |-> 1],
     [instruments |-> {}, klines |-> TRUE, orders |-> {}, commands |-> 2],
     [instruments |-> {}, klines |-> FALSE, orders |-> {1}, commands |-> 1]}

Rule(s, e, l, p) == [scope |-> s, effect |-> e, left |-> l, prio |-> p, enabled |-> TRUE]
McRules == {Rule("place", "delay", 1, 1), Rule("place", "reject", 1, 0),
            Rule("cancel", "reject", -1, 0), Rule("balance", "reject", 2, 0)}

Script(place, batch, cancels, menu, budget, policy, negative, stops) ==
    [place |-> place, batch |-> batch, cancels |-> cancels, menu |-> menu, budget |-> budget,
     policy |-> policy, negative |-> negative, stops |-> stops]

(* Two orders and a tick, or a reset between them; a cancel against a tick  *)
(* and a reset; injected errors; a forced match in a paused venue; a reset  *)
(* of the account; a batch with an order of no account and one of a bad     *)
(* quantity, and a stop.                                                    *)
McScripts ==
    {Script({1, 2}, << >>, 0, {"tick"}, 1, "fcfs", {}, FALSE),
     Script({1, 2}, << >>, 0, {"reset"}, 1, "immediate", {}, FALSE),
     Script({1}, << >>, 1, {"tick", "reset"}, 2, "fcfs", {}, FALSE),
     Script({1}, << >>, 2, {"inject", "clear", "force"}, 2, "immediate", {}, FALSE),
     Script({1}, << >>, 1, {"force", "pause", "policy"}, 2, "fcfs", {}, FALSE),
     Script({}, << >>, 0, {"account", "reset"}, 2, "fcfs", {}, FALSE),
     Script({}, <<1, 3, 0, 2>>, 1, {}, 0, "immediate", {3}, TRUE)}
McTicks == {<<1>>, <<1, 1>>}

(* A spot order, a derivative order, or position changes.                   *)
McOkxCases == {[place |-> {1}, moves |-> 0], [place |-> {2}, moves |-> 0], [place |-> {}, moves |-> 2]}

McRecCases == {[orders |-> {1}, trades |-> {}], [orders |-> {}, trades |-> {1, 2}]}

Interval(every, start, end) == [kind |-> "interval", every |-> every, start |-> start, end |-> end, times |-> {}]
Cron(times, start, end) == [kind |-> "cron", every |-> 0, start |-> start, end |-> end, times |-> times]
Once(t) == [kind |-> "once", every |-> 0, start |-> t, end |-> Never, times |-> {}]
Timer1(s, p) == [sched |-> s, policy |-> p]
McMenus ==
    {{Timer1(Once(3), "all"), Timer1(Interval(2, Never, Never), "all")},
     {Timer1(Interval(2, 1, 5), "once"), Timer1(Interval(2, 0, 3), "all")},
     {Timer1(Interval(3, Never, 5), "skip"), Timer1(Interval(0, Never, Never), "all")},
     {Timer1(Cron({1, 2, 4, 5}, Never, Never), "all"), Timer1(Cron({}, 0, Never), "all")},
     {Timer1(Cron({1, 3, 4}, 0, Never), "once"), Timer1(Cron({2, 4, 6}, Never, 4), "skip")}}

Instr(exch, v, base) ==
    [exch |-> exch, venue |-> v, base |-> base, quote |-> "usd", disabled |-> FALSE]
(* Everything; an instrument and an account taken out; a gateway not        *)
(* configured; a reroute; an exchange symbol that changes hands.            *)
McMtConfigs ==
    LET full == [managed |-> {1, 2}, routes |-> (1 :> "g1" @@ 2 :> "g2"),
                 gws |-> ("g1" :> "v" @@ "g2" :> "w"),
                 refdata |-> ("i" :> Instr("x", "v", "btc") @@ "j" :> Instr("y", "w", "eth")),
                 trading |-> ("i" :> "checked" @@ "k" :> "checked")]
    IN  {full,
         [full EXCEPT !.managed = {1}, !.refdata["j"].disabled = TRUE],
         [full EXCEPT !.gws = "g1" :> "v", !.refdata["i"].disabled = TRUE, !.routes[1] = "g2"],
         [full EXCEPT !.refdata["i"].exch = "z", !.refdata["j"].venue = "v", !.refdata["j"].exch = "x"]}

-----------------------------------------------------------------------------
EngIdle == svc.cfg = CHOOSE c \in EngConfigs : TRUE
SgIdle == gw.script = CHOOSE s \in Scripts : TRUE
OkIdle == okx.moves = 2
RecIdle == finished.todo = {}
TcIdle == rang.menu = CHOOSE m \in Menus : TRUE
MtIdle == LET c == ConfdataManager(CHOOSE raw \in MtConfigs : TRUE)
          IN  conf = c /\ tab = CHOOSE t \in FromConfdata(c) : TRUE

SvcInit ==
    /\ part \in {"engine", "simulator", "okx", "recorder", "timers", "metadata"}
    /\ EngInit /\ (part # "engine" => EngIdle)
    /\ SgInit /\ (part # "simulator" => SgIdle)
    /\ OkInit /\ (part # "okx" => OkIdle)
    /\ RecInit /\ (part # "recorder" => RecIdle)
    /\ TcInit /\ (part # "timers" => TcIdle)
    /\ MtInit /\ (part # "metadata" => MtIdle)

SvcNext ==
    /\ \/ part = "engine" /\ EngNext /\ UNCHANGED <<SgVars, OkVars, RecVars, TcVars, MtVars>>
       \/ part = "simulator" /\ SgNext /\ UNCHANGED <<EngVars, OkVars, RecVars, TcVars, MtVars>>
       \/ part = "okx" /\ OkNext /\ UNCHANGED <<EngVars, SgVars, RecVars, TcVars, MtVars>>
       \/ part = "recorder" /\ RecNext /\ UNCHANGED <<EngVars, SgVars, OkVars, TcVars, MtVars>>
       \/ part = "timers" /\ TcNext /\ UNCHANGED <<EngVars, SgVars, OkVars, RecVars, MtVars>>
       \/ part = "metadata" /\ MtNext /\ UNCHANGED <<EngVars, SgVars, OkVars, RecVars, TcVars>>
    /\ UNCHANGED part

SvcSpec == SvcInit /\ [][SvcNext]_<<part, EngVars, SgVars, OkVars, RecVars, TcVars, MtVars>>
=============================================================================
