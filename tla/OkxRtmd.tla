------------------------------- MODULE OkxRtmd -------------------------------
(***************************************************************************)
(* The OKX market data adapter (zk-rtmd-rs/src/venue/okx/adapter.rs): the  *)
(* subscribe and unsubscribe calls of the SubscriptionManager update the   *)
(* adapter's tables and queue a command for the WebSocket supervisor,      *)
(* which reconnects by itself and re-subscribes what the tables say.       *)
(* Events flow through a bounded channel to RtmdNatsPublisher.             *)
(***************************************************************************)
EXTENDS Integers, Sequences, FiniteSets

CONSTANTS SubSpec,     \* [stream, code, chan, inst, supported] the manager may use
          None,
          MaxCmds,     \* capacity of the command channel (256)
          MaxEvents    \* capacity of the event channel (4096)

Streams == {p.stream : p \in SubSpec}
Codes == {p.code : p \in SubSpec}
Topics == {<<p.chan, p.inst>> : p \in SubSpec}
Topic(p) == <<p.chan, p.inst>>

Command == [op : {"subscribe", "unsubscribe"}, topic : Topics]

ASSUME OkxAssumption == /\ None \notin SubSpec /\ None \notin Command
                        /\ \A p \in SubSpec : None \notin {p.code, p.inst}

VARIABLES active,    \* active_subs: the spec of each active stream
          reverse,   \* reverse_map: topic -> instrument_code
          exch,      \* exch_map: instrument_code -> instrument_exch
          call,      \* the adapter call that still has to queue its command
          cmds,      \* cmd_tx / cmd_rx
          session,   \* "start", "down", "open" (connected), "up", "broken"
          ready,     \* outcome of connect(): "waiting", "ok", "failed"
          subbed,    \* topics OKX has subscribed on the current connection
          events,    \* event channel: label and true instrument
          published  \* the last event published: its subject and its instrument

tables == <<active, reverse, exch, call>>
OkxVars == <<active, reverse, exch, call, cmds, session, ready, subbed, events, published>>

OkxInit ==
  /\ active = [s \in Streams |-> None]
  /\ reverse = [t \in Topics |-> None] /\ exch = [c \in Codes |-> None]
  /\ call = None /\ cmds = <<>>
  /\ session = "start" /\ ready = "waiting" /\ subbed = {}
  /\ events = <<>> /\ published = None

-----------------------------------------------------------------------------
(* Calls of the SubscriptionManager, one at a time.                        *)

(* resolve_okx_sub fails for a book deeper than books5: nothing changes.   *)
Subscribe(p) ==
  /\ ready = "ok" /\ call = None
  /\ p.supported /\ active[p.stream] = None
  /\ exch' = [exch EXCEPT ![p.code] = p.inst]
  /\ reverse' = [reverse EXCEPT ![Topic(p)] = p.code]
  /\ active' = [active EXCEPT ![p.stream] = p]
  /\ call' = [op |-> "subscribe", topic |-> Topic(p)]
  /\ UNCHANGED <<cmds, session, ready, subbed, events, published>>

(* Mutant: the stream stays in active_subs.                                *)
UnsubscribeKeepsActive(p) ==
  /\ ready = "ok" /\ call = None /\ active[p.stream] = p
  /\ reverse' = [reverse EXCEPT ![Topic(p)] = None]
  /\ call' = [op |-> "unsubscribe", topic |-> Topic(p)]
  /\ UNCHANGED <<active, exch, cmds, session, ready, subbed, events, published>>

(* Mutant: the instrument's subject mapping is dropped with the stream.    *)
UnsubscribeDropsExch(p) ==
  /\ ready = "ok" /\ call = None /\ active[p.stream] = p
  /\ active' = [active EXCEPT ![p.stream] = None]
  /\ reverse' = [reverse EXCEPT ![Topic(p)] = None]
  /\ exch' = [exch EXCEPT ![p.code] = None]
  /\ call' = [op |-> "unsubscribe", topic |-> Topic(p)]
  /\ UNCHANGED <<cmds, session, ready, subbed, events, published>>

Unsubscribe(p) ==
  /\ ready = "ok" /\ call = None
  /\ active[p.stream] = p
  /\ active' = [active EXCEPT ![p.stream] = None]
  /\ reverse' = [reverse EXCEPT ![Topic(p)] = None]
  /\ call' = [op |-> "unsubscribe", topic |-> Topic(p)]
  /\ UNCHANGED <<exch, cmds, session, ready, subbed, events, published>>

(* The send waits while the command channel is full.                       *)
SendCommand ==
  /\ call # None /\ Len(cmds) < MaxCmds
  /\ cmds' = Append(cmds, call)
  /\ call' = None
  /\ UNCHANGED <<active, reverse, exch, session, ready, subbed, events, published>>

-----------------------------------------------------------------------------
(* ws_supervisor_loop and run_ws_session.                                  *)

SessionConnected ==
  /\ session \in {"start", "down"} /\ ready # "failed"
  /\ session' = "open"
  /\ UNCHANGED <<tables, cmds, ready, subbed, events, published>>

(* The first connection fails or the 15 s readiness gate passes: connect() *)
(* returns an error and main() exits.                                      *)
RtmdConnectFails ==
  /\ session \in {"start", "open"} /\ ready = "waiting"
  /\ ready' = "failed" /\ session' = "down"
  /\ UNCHANGED <<tables, cmds, subbed, events, published>>

(* Every active stream is re-subscribed under the active_subs lock; then   *)
(* readiness is signalled.                                                 *)
Resubscribe ==
  /\ session = "open"
  /\ subbed' = {Topic(active[s]) : s \in {x \in Streams : active[x] # None}}
  /\ session' = "up" /\ ready' = "ok"
  /\ UNCHANGED <<tables, cmds, events, published>>

(* The read loop ends with an error or at the end of the stream.           *)
SessionFails ==
  /\ session \in {"open", "up", "broken"} /\ ready = "ok"
  /\ session' = "down" /\ subbed' = {}
  /\ UNCHANGED <<tables, cmds, ready, events, published>>

(* One command is taken and written to the socket.                         *)
WriteCommand ==
  /\ session = "up" /\ cmds # <<>>
  /\ subbed' = IF Head(cmds).op = "subscribe" THEN subbed \cup {Head(cmds).topic}
                                             ELSE subbed \ {Head(cmds).topic}
  /\ cmds' = Tail(cmds)
  /\ UNCHANGED <<tables, session, ready, events, published>>

(* The write fails: a subscribe ends the session, an unsubscribe is only   *)
(* logged and the session goes on until the read side notices.             *)
WriteFails ==
  /\ session \in {"up", "broken"} /\ cmds # <<>>
  /\ cmds' = Tail(cmds)
  /\ IF Head(cmds).op = "subscribe" THEN session' = "down" /\ subbed' = {}
                                    ELSE session' = "broken" /\ UNCHANGED subbed
  /\ UNCHANGED <<tables, ready, events, published>>

(* handle_ws_message: the label is the mapped code or, if the topic is not *)
(* mapped any more, the venue's own instrument id.  A push may be one OKX  *)
(* sent before it saw an unsubscribe.                                      *)
RtmdPush(t) ==
  /\ session = "up" /\ Len(events) < MaxEvents
  /\ events' = Append(events, [code |-> reverse[t], inst |-> t[2]])
  /\ UNCHANGED <<tables, cmds, session, ready, subbed, published>>

(* The host's event loop: next_event, then RtmdNatsPublisher::publish with *)
(* the subject from instrument_exch_for, or the label itself.              *)
SubjectInst(e) == IF e.code = None THEN e.inst
                  ELSE IF exch[e.code] = None THEN e.code ELSE exch[e.code]

PublishEvent ==
  /\ events # <<>>
  /\ published' = [subject |-> SubjectInst(Head(events)), inst |-> Head(events).inst]
  /\ events' = Tail(events)
  /\ UNCHANGED <<tables, cmds, session, ready, subbed>>

SupervisorStep == SessionConnected \/ Resubscribe \/ WriteCommand

OkxNext == \/ \E p \in SubSpec : Subscribe(p) \/ Unsubscribe(p)
           \/ SendCommand
           \/ SupervisorStep
           \/ RtmdConnectFails \/ SessionFails \/ WriteFails
           \/ \E t \in Topics : RtmdPush(t)
           \/ PublishEvent

OkxSpec == OkxInit /\ [][OkxNext]_OkxVars

-----------------------------------------------------------------------------
ActiveTopics == {Topic(active[s]) : s \in {x \in Streams : active[x] # None}}
Settled == session = "up" /\ call = None /\ cmds = <<>>

(* Whenever the session is up and no command is pending, OKX is subscribed *)
(* to exactly the topics of active_subs, whatever reconnects happened      *)
(* between the table update and the command.                               *)
SettledMatchesVenue == Settled => subbed = ActiveTopics

(* Every event is published on the subject of the instrument it is about,  *)
(* also the ones that arrive after their stream was unsubscribed.          *)
PublishedOnOwnSubject == published # None => published.subject = published.inst

=============================================================================
