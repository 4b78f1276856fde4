-------------------------- MODULE ServiceRegistry --------------------------
(***************************************************************************)
(* One identity in the service registry: the processes that register under *)
(* its KV key (zk-infra-rs/src/service_registry.rs), their CAS heartbeats  *)
(* (nats_kv.rs), and the Pilot that grants sessions and follows the key    *)
(* (BootstrapService.java, KvReconciler.java).  Services register directly *)
(* or through the Pilot; a run uses one mode.  The value a process writes  *)
(* names the process, so the entry is its owner and its revision.          *)
(***************************************************************************)
EXTENDS Integers, Sequences

CONSTANTS Proc,          \* processes started under the identity
          NoProc,
          MaxRetries,    \* MAX_HEARTBEAT_RETRIES (5)
          MaxRevision,   \* bound on the writes to the key
          MaxOutages,    \* bound on heartbeats without an answer
          MaxEvents      \* bound on the events the Pilot's watcher lags behind

ASSUME RegistryAssumption == NoProc \notin Proc /\ MaxRetries \in Nat \ {0}

VARIABLES mode,       \* "direct" or "pilot"
          owner,      \* who wrote the entry; NoProc when deleted or expired
          revision,   \* revision of the key's last message; 0 when it expired
          lastRev,    \* last revision the bucket has handed out
          state,      \* each process
          myRev,      \* its heartbeat's revision
          failures,   \* its consecutive_failures
          outages,
          session,    \* Pilot: the active session's process in the database
          live,       \* Pilot: KvReconciler's live set contains the key
          events      \* Pilot: watch events not yet handled

RegVars == <<mode, owner, revision, lastRev, state, myRev, failures, outages,
             session, live, events>>
entryVars == <<owner, revision, lastRev, events>>
procVars == <<state, myRev, failures>>
pilotVars == <<session, live>>

RegInit ==
  /\ mode \in {"direct", "pilot"}
  /\ owner = NoProc /\ revision = 0 /\ lastRev = 0
  /\ state = [p \in Proc |-> "down"]
  /\ myRev = [p \in Proc |-> 0] /\ failures = [p \in Proc |-> 0] /\ outages = 0
  /\ session = NoProc /\ live = FALSE /\ events = << >>

-----------------------------------------------------------------------------
(* The bucket                                                              *)

(* A write or a delete: the key gets the next revision, watchers an event. *)
Write(who) ==
  /\ lastRev < MaxRevision /\ Len(events) < MaxEvents
  /\ lastRev' = lastRev + 1 /\ revision' = lastRev + 1
  /\ owner' = who
  /\ events' = IF mode = "pilot" THEN Append(events, who # NoProc) ELSE events

(* A running process writes every third of the TTL, so max_age removes an  *)
(* entry only when its writer has stopped or its heartbeats fail.  Nobody  *)
(* is told.                                                                *)
Renewed == \E p \in Proc : /\ state[p] \in {"running", "leaving"}
                           /\ myRev[p] = revision /\ failures[p] < MaxRetries - 1

Expire ==
  /\ revision # 0 /\ ~Renewed
  /\ revision' = 0 /\ owner' = NoProc
  /\ UNCHANGED <<mode, lastRev, events, procVars, outages, pilotVars>>

-----------------------------------------------------------------------------
(* Registration                                                            *)

(* put(): overwrites whatever is there; its revision seeds the heartbeat.  *)
Put(p) ==
  /\ Write(p)
  /\ state' = [state EXCEPT ![p] = "running"]
  /\ myRev' = [myRev EXCEPT ![p] = lastRev + 1]
  /\ failures' = [failures EXCEPT ![p] = 0]
  /\ UNCHANGED <<mode, outages, pilotVars>>

register_direct(p) == mode = "direct" /\ state[p] = "down" /\ Put(p)

pilot_request(p) ==
  /\ mode = "pilot" /\ state[p] = "down"
  /\ state' = [state EXCEPT ![p] = "asking"]
  /\ UNCHANGED <<mode, entryVars, myRev, failures, outages, pilotVars>>

(* BootstrapService.handleRegister.  A live session is a DUPLICATE, which  *)
(* pilot_request retries until its window is over; a session whose key is  *)
(* gone is fenced; otherwise the process gets a new session.  The reply    *)
(* can be an error or get lost after the session is recorded.              *)
handleRegister(p) ==
  /\ state[p] = "asking"
  /\ \/ /\ session # NoProc /\ live
        /\ state' = [state EXCEPT ![p] = "down"]
        /\ UNCHANGED session
     \/ /\ session = NoProc \/ ~live
        /\ session' = p
        /\ \E answer \in {"granted", "down"} : state' = [state EXCEPT ![p] = answer]
  /\ UNCHANGED <<mode, entryVars, myRev, failures, outages, live>>

register_kv_with_grant(p) == state[p] = "granted" /\ Put(p)

-----------------------------------------------------------------------------
(* heartbeat_loop_inner: one tick of a process's loop.  Once the process   *)
(* is leaving, nobody reads the loop's verdict any more.                   *)

HeartbeatOk(p) ==
  /\ state[p] \in {"running", "leaving"} /\ myRev[p] = revision
  /\ Write(p)
  /\ myRev' = [myRev EXCEPT ![p] = lastRev + 1]
  /\ failures' = [failures EXCEPT ![p] = 0]
  /\ UNCHANGED <<mode, state, outages, pilotVars>>

(* Mutant: a conflict is retried on the next tick.                         *)
FencedRetries(p) == state[p] = "running" /\ myRev[p] # revision /\ UNCHANGED RegVars

(* WrongLastRevision stops the loop at once.                               *)
HeartbeatFenced(p) ==
  /\ state[p] = "running" /\ myRev[p] # revision
  /\ state' = [state EXCEPT ![p] = "fenced"]
  /\ UNCHANGED <<mode, entryVars, myRev, failures, outages, pilotVars>>

(* No answer in time: the update is lost, or its answer is.                *)
HeartbeatTimeout(p) ==
  /\ state[p] = "running" /\ outages < MaxOutages
  /\ outages' = outages + 1
  /\ failures' = [failures EXCEPT ![p] = @ + 1]
  /\ state' = [state EXCEPT ![p] =
                 IF failures[p] + 1 >= MaxRetries THEN "lost" ELSE @]
  /\ \/ UNCHANGED entryVars
     \/ myRev[p] = revision /\ Write(p)
  /\ UNCHANGED <<mode, myRev, pilotVars>>

-----------------------------------------------------------------------------
(* Shutdown                                                                *)

(* wait_shutdown returns on a signal; the service then drains its tasks    *)
(* while the heartbeat still runs.                                         *)
Signal(p) ==
  /\ state[p] = "running"
  /\ state' = [state EXCEPT ![p] = "leaving"]
  /\ UNCHANGED <<mode, entryVars, myRev, failures, outages, pilotVars>>

Ends(p) == /\ state' = [state EXCEPT ![p] = "down"]
           /\ myRev' = [myRev EXCEPT ![p] = 0] /\ failures' = [failures EXCEPT ![p] = 0]

(* deregister(): the key is deleted whoever wrote it, then the Pilot ends  *)
(* the session of this process.                                            *)
deregister(p) ==
  /\ state[p] \in {"leaving", "lost"}
  /\ Write(NoProc)
  /\ session' = IF session = p THEN NoProc ELSE session
  /\ Ends(p)
  /\ UNCHANGED <<mode, outages, live>>

(* A fenced process exits without deregistering; a crash, or a delete that *)
(* fails, leaves everything as it is.                                      *)
Exit(p) ==
  /\ state[p] # "down"
  /\ Ends(p)
  /\ UNCHANGED <<mode, entryVars, outages, pilotVars>>

-----------------------------------------------------------------------------
(* KvReconciler                                                            *)

(* The active session with this key is fenced, whoever owns it.            *)
onKvLost == session' = NoProc

watch ==
  /\ events # << >>
  /\ events' = Tail(events)
  /\ live' = Head(events)
  /\ IF Head(events) THEN UNCHANGED session ELSE onKvLost
  /\ UNCHANGED <<mode, owner, revision, lastRev, procVars, outages>>

(* The periodic get() of every live key finds the expired ones.            *)
sweepExpiredKeys ==
  /\ mode = "pilot" /\ live /\ owner = NoProc
  /\ live' = FALSE /\ onKvLost
  /\ UNCHANGED <<mode, entryVars, procVars, outages>>

PilotStep == watch \/ sweepExpiredKeys

Heartbeat(p) == HeartbeatOk(p) \/ HeartbeatFenced(p)

RegNext ==
  \/ \E p \in Proc :
       \/ register_direct(p) \/ pilot_request(p) \/ handleRegister(p)
       \/ register_kv_with_grant(p)
       \/ Heartbeat(p) \/ HeartbeatTimeout(p)
       \/ Signal(p) \/ deregister(p) \/ Exit(p)
  \/ Expire \/ PilotStep

-----------------------------------------------------------------------------
(* Of two processes running under one identity, all but one stop: the CAS  *)
(* heartbeat fences whichever did not write last.                          *)
TakeoverSettles ==
  \A p, q \in Proc : p # q =>
    ((state[p] = "running" /\ state[q] = "running") ~> (state[p] # "running" \/ state[q] # "running"))

=============================================================================
