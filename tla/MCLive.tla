------------------------------- MODULE MCLive -------------------------------
(***************************************************************************)
(* What must eventually happen, on small instances: an order sent is       *)
(* answered (OmsSystem), a command to the strategy engine is handled and a *)
(* shutdown ends (Engine), the OKX session comes back (OkxGateway), what   *)
(* the OMS published is recorded (Recorder).  The parts share no state:    *)
(* Init picks the one that runs, and the fairness is that part's.          *)
(***************************************************************************)
EXTENDS OmsSystem, Engine, OkxGateway, Recorder

VARIABLE part

-----------------------------------------------------------------------------
McMeta == "spot" :> [bk |-> TRUE, bc |-> TRUE, um |-> FALSE, max |-> NoMax, lot |-> 1, fund |-> 1, pos |-> 2]
McRequests == {[acct |-> "a", inst |-> "spot", buy |-> side, qty |-> IF side THEN 2 ELSE 1, price |-> 1] : side \in BOOLEAN}
McRefOf == 1 :> "r1" @@ 2 :> "r2"
McUpdates == {[acct |-> "a", spot |-> TRUE, target |-> 1, qty |-> 4, avail |-> 4, short |-> FALSE]}

McEngConfigs == {[instruments |-> {}, klines |-> TRUE, orders |-> {}, commands |-> 2]}
McOkxCases == {[place |-> {1}, moves |-> 0]}
McRecCases == {[orders |-> {1}, trades |-> {}], [orders |-> {}, trades |-> {1}]}

-----------------------------------------------------------------------------
LiveVars == <<part, sysVars, EngVars, OkVars, RecVars>>

LiveInit ==
    /\ part \in {"oms", "engine", "okx", "recorder"}
    /\ SysInit /\ EngInit /\ OkInit /\ RecInit
    /\ part # "recorder" => finished.todo = {}

LiveNext ==
    /\ \/ part = "oms" /\ SysNext /\ UNCHANGED <<EngVars, OkVars, RecVars>>
       \/ part = "engine" /\ EngNext /\ UNCHANGED <<sysVars, OkVars, RecVars>>
       \/ part = "okx" /\ OkNext /\ UNCHANGED <<sysVars, EngVars, RecVars>>
       \/ part = "recorder" /\ RecNext /\ UNCHANGED <<sysVars, EngVars, OkVars>>
    /\ UNCHANGED part

(* OmsSystem's Fairness: the worker loops, the event pump and the writer.   *)
OmsFairness ==
    /\ \A o \in ClientIds : WF_sysVars(part = "oms" /\ GwWorker(o))
    /\ \A o \in ClientIds, kind \in {"place", "cancel"} : WF_sysVars(part = "oms" /\ Feedback(o, kind))
    /\ \A o \in ClientIds : WF_sysVars(part = "oms" /\ ExecWorker(o))
    /\ \A o \in ClientIds : WF_sysVars(part = "oms" /\ QueueEvents(o))
    /\ WF_sysVars(part = "oms" /\ DeliverReport)

(* The engine thread and the forwarder task keep running.  Senders wait in  *)
(* the channel's queue for room, first come first served, so one that is    *)
(* let in again and again gets in.                                          *)
EngFairness ==
    /\ WF_EngVars(part = "engine" /\ EngineStep)
    /\ WF_EngVars(part = "engine" /\ FwdTake)
    /\ SF_EngVars(part = "engine" /\ FwdSend)
    /\ SF_EngVars(part = "engine" /\ StopEngine)
    /\ WF_EngVars(part = "engine" /\ ForwarderDrained)
    /\ WF_EngVars(part = "engine" /\ ServiceStopped)

(* The supervisor is a task; the venue owes nothing.                        *)
OkFairness == WF_OkVars(part = "okx" /\ OkSupervisor)

(* The OMS's publisher, a supervised recorder process, JetStream's          *)
(* deliveries and the consumers' loops run.                                 *)
RecFairness ==
    /\ WF_RecVars(part = "recorder" /\ RecorderWorker)
    /\ WF_RecVars(part = "recorder" /\ RecorderStarts)
    /\ \A k \in Kinds : /\ WF_RecVars(part = "recorder" /\ DeliverNext(k))
                        /\ WF_RecVars(part = "recorder" /\ Redeliver(k))
                        /\ WF_RecVars(part = "recorder" /\ ConsumerLoop(k))

LiveSpec ==
    LiveInit /\ [][LiveNext]_LiveVars
    /\ OmsFairness /\ EngFairness /\ OkFairness /\ RecFairness
=============================================================================
