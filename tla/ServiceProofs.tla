--------------------------- MODULE ServiceProofs ---------------------------
(***************************************************************************)
(* Theorems about the services that stand between an external stream and   *)
(* its readers: the OKX market data adapter (OkxRtmd), the recorder        *)
(* (Recorder) and the OKX gateway adapter (OkxGateway).  The three share   *)
(* no state.                                                               *)
(***************************************************************************)
EXTENDS OkxRtmd, Recorder, OkxGateway, FiniteSetTheorems, TLAPS

(* The head of a sequence is of its set, and the tail a sequence over it.  *)
LEMMA HeadTailTyped ==
  ASSUME NEW S, NEW s \in Seq(S), s # << >> PROVE Head(s) \in S /\ Tail(s) \in Seq(S)
OBVIOUS

(* One more entry of the set leaves a sequence over it.                    *)
LEMMA AppendTyped ==
  ASSUME NEW S, NEW s \in Seq(S), NEW x \in S PROVE Append(s, x) \in Seq(S)
OBVIOUS

-----------------------------------------------------------------------------
(* The OKX market data adapter.  Two streams that resolve_okx_sub sends to *)
(* the same topic (order books of two depths up to 5) are outside the      *)
(* first theorem, two instruments under one code outside the second.       *)

OneStreamPerTopic ==
  \A p, q \in SubSpec :
     p.supported /\ q.supported /\ Topic(p) = Topic(q) => p.stream = q.stream

OneInstPerCode == \A p, q \in SubSpec : p.code = q.code => p.inst = q.inst

(* The commands the socket has not seen, the one being queued last.        *)
Unsent == IF call = None THEN cmds ELSE Append(cmds, call)

Wanted(t) == \E s \in Streams : active[s] # None /\ Topic(active[s]) = t

(* Entry i of q is the last one about topic t.                             *)
LastOn(q, t, i) == q[i].topic = t /\ \A j \in 1..Len(q) : j > i => q[j].topic # t

AdapterTypes ==
  /\ active \in [Streams -> SubSpec \cup {None}]
  /\ \A s \in Streams : active[s] # None => active[s].supported /\ active[s].stream = s
  /\ call \in Command \cup {None} /\ cmds \in Seq(Command)
  /\ subbed \subseteq Topics

(* The last command about a topic says what the tables say; with none to   *)
(* come, a session that is up has the topic as the tables have it.         *)
CommandsRight ==
  \A t \in Topics : \A i \in 1..Len(Unsent) :
     LastOn(Unsent, t, i) => (Unsent[i].op = "subscribe" <=> Wanted(t))

SessionRight ==
  session = "up" => \A t \in Topics :
     (\A i \in 1..Len(Unsent) : Unsent[i].topic # t) => (t \in subbed <=> Wanted(t))

AdapterInv == AdapterTypes /\ CommandsRight /\ SessionRight

LEMMA UnsentTyped == ASSUME AdapterTypes PROVE Unsent \in Seq(Command)
BY AppendTyped DEF AdapterTypes, Unsent

(* The order of the tables' updates and of the commands is the same, so a  *)
(* new command is right about its topic and the others are untouched.      *)
LEMMA CommandAdded ==
  ASSUME AdapterInv, call = None, NEW c \in Command, call' = c, cmds' = cmds, c # None,
         session' = session, subbed' = subbed, AdapterTypes',
         c.op = "subscribe" <=> Wanted(c.topic)',
         \A t \in Topics : t # c.topic => (Wanted(t)' <=> Wanted(t))
  PROVE  AdapterInv'
<1> DEFINE n == Len(cmds)
<1>1. cmds \in Seq(Command) /\ Unsent = cmds /\ Unsent' = Append(cmds, c)
  BY DEF AdapterInv, AdapterTypes, Unsent
<1>2. /\ n \in Nat /\ Len(Unsent') = n + 1 /\ Unsent'[n + 1] = c
      /\ \A i \in 1..n : Unsent'[i] = Unsent[i]
  BY <1>1
<1>3. Len(Unsent) = n
  BY <1>1
<1> HIDE DEF n
<1>4. CommandsRight'
  <2> SUFFICES ASSUME NEW t \in Topics, NEW i \in 1..Len(Unsent'), LastOn(Unsent, t, i)'
               PROVE  Unsent'[i].op = "subscribe" <=> Wanted(t)'
    BY DEF CommandsRight
  <2>0. Unsent'[i].topic = t /\ \A j \in 1..Len(Unsent') : j > i => Unsent'[j].topic # t
    BY DEF LastOn
  <2>1. CASE i = n + 1
    BY <1>2, <2>0, <2>1
  <2>2. CASE i # n + 1
    <3>1. i \in 1..n /\ i < n + 1
      BY <1>2, <2>2
    <3>2. t # c.topic
      BY <1>2, <2>0, <3>1
    <3>3. LastOn(Unsent, t, i)
      BY <1>2, <1>3, <2>0, <3>1 DEF LastOn
    <3>4. Unsent[i].op = "subscribe" <=> Wanted(t)
      BY <1>3, <3>1, <3>3 DEF AdapterInv, CommandsRight
    <3> QED BY <1>2, <3>1, <3>2, <3>4
  <2> QED BY <2>1, <2>2
<1>5. SessionRight'
  <2> SUFFICES ASSUME session = "up", NEW t \in Topics, \A i \in 1..Len(Unsent') : Unsent'[i].topic # t
               PROVE  t \in subbed <=> Wanted(t)'
    BY DEF SessionRight
  <2>1. t # c.topic
    BY <1>2
  <2>2. \A i \in 1..Len(Unsent) : Unsent[i].topic # t
    BY <1>2, <1>3
  <2> QED BY <2>1, <2>2 DEF AdapterInv, SessionRight
<1> QED BY <1>4, <1>5 DEF AdapterInv

(* A command leaves the queue, written or lost with the session.           *)
LEMMA CommandGone ==
  ASSUME AdapterInv, AdapterTypes', cmds # << >>, cmds' = Tail(cmds), call' = call, active' = active,
         session' = "up" => /\ session = "up"
                            /\ subbed' = IF Head(cmds).op = "subscribe" THEN subbed \cup {Head(cmds).topic}
                                         ELSE subbed \ {Head(cmds).topic}
  PROVE  AdapterInv'
<1> DEFINE n == Len(Unsent)
           h == Head(cmds)
<1>0. Unsent \in Seq(Command) /\ cmds \in Seq(Command) /\ call \in Command \cup {None}
  BY UnsentTyped DEF AdapterInv, AdapterTypes
<1>1. /\ n \in Nat /\ n >= 1 /\ Unsent[1] = h /\ Len(Unsent') = n - 1
      /\ \A i \in 1..n - 1 : Unsent'[i] = Unsent[i + 1]
  <2>1. CASE call = None
    BY <1>0, <2>1 DEF Unsent
  <2>2. CASE call # None
    <3>1. Unsent = Append(cmds, call) /\ Unsent' = Append(Tail(cmds), call) /\ call \in Command
      BY <1>0, <2>2 DEF Unsent
    <3>2. Append(Tail(cmds), call) = Tail(Append(cmds, call)) /\ Append(cmds, call)[1] = h
      BY <1>0, <3>1
    <3> QED BY <1>0, <3>1, <3>2
  <2> QED BY <2>1, <2>2
<1>2. h \in Command /\ h.topic \in Topics
  <2>1. h \in Command
    BY <1>0, HeadTailTyped
  <2> QED BY <2>1 DEF Command
<1> HIDE DEF n, h
<1>3. \A t \in Topics : Wanted(t)' <=> Wanted(t)
  BY Zenon DEF Wanted
<1>4. CommandsRight'
  <2> SUFFICES ASSUME NEW t \in Topics, NEW i \in 1..Len(Unsent'), LastOn(Unsent, t, i)'
               PROVE  Unsent'[i].op = "subscribe" <=> Wanted(t)
    BY <1>3 DEF CommandsRight
  <2>0. Unsent'[i].topic = t /\ \A j \in 1..Len(Unsent') : j > i => Unsent'[j].topic # t
    BY DEF LastOn
  <2>1. i \in 1..n - 1 /\ i + 1 \in 1..n /\ Unsent'[i] = Unsent[i + 1]
    BY <1>1
  <2>2. LastOn(Unsent, t, i + 1)
    <3>1. ASSUME NEW j \in 1..n, j > i + 1 PROVE Unsent[j].topic # t
      <4>1. j - 1 \in 1..n - 1 /\ j - 1 > i /\ (j - 1) + 1 = j
        BY <1>1, <2>1, <3>1
      <4> QED BY <1>1, <2>0, <4>1, Zenon
    <3> QED BY <2>0, <2>1, <3>1 DEF LastOn, n
  <2> QED BY <2>1, <2>2 DEF AdapterInv, CommandsRight, n
<1>5. SessionRight'
  <2> SUFFICES ASSUME session' = "up", NEW t \in Topics, \A i \in 1..Len(Unsent') : Unsent'[i].topic # t
               PROVE  t \in subbed' <=> Wanted(t)
    BY <1>3 DEF SessionRight
  <2>1. \A j \in 2..n : Unsent[j].topic # t
    <3> SUFFICES ASSUME NEW j \in 2..n PROVE Unsent[j].topic # t
      OBVIOUS
    <3>1. j - 1 \in 1..n - 1 /\ (j - 1) + 1 = j
      BY <1>1
    <3> QED BY <1>1, <3>1, Zenon
  <2>2. CASE h.topic = t
    <3>1. LastOn(Unsent, t, 1) /\ 1 \in 1..n
      BY <1>1, <2>1, <2>2 DEF LastOn, n
    <3>2. h.op = "subscribe" <=> Wanted(t)
      BY <1>1, <3>1 DEF AdapterInv, CommandsRight, n
    <3> QED BY <2>2, <3>2 DEF h
  <2>3. CASE h.topic # t
    <3>1. \A i \in 1..n : Unsent[i].topic # t
      BY <1>1, <2>1, <2>3
    <3>2. t \in subbed <=> Wanted(t)
      BY <3>1 DEF AdapterInv, SessionRight, n
    <3> QED BY <2>3, <3>2 DEF h
  <2> QED BY <2>2, <2>3
<1> QED BY <1>4, <1>5 DEF AdapterInv
(* A table update and its command, for a supported subscription.           *)
LEMMA SubscribeKeeps ==
  ASSUME OneStreamPerTopic, AdapterInv, NEW p \in SubSpec, Subscribe(p) \/ Unsubscribe(p)
  PROVE  AdapterInv'
<1>0. PICK c : c = call'
  OBVIOUS
<1>1. p.stream \in Streams /\ Topic(p) \in Topics /\ p # None
  BY OkxAssumption DEF Streams, Topics, Topic
<1>2. active \in [Streams -> SubSpec \cup {None}]
  BY SMT, ZenonT(20), SMTT(30) DEF AdapterInv, AdapterTypes
<1>3. /\ call = None /\ UNCHANGED <<cmds, session, subbed>>
      /\ \A s \in Streams \ {p.stream} : active'[s] = active[s]
      /\ active[p.stream] \in {None, p} /\ active'[p.stream] \in {None, p}
      /\ active[p.stream] = None <=> active'[p.stream] = p
      /\ active' \in [Streams -> SubSpec \cup {None}]
      /\ c.op = "subscribe" <=> active'[p.stream] # None
      /\ c \in Command /\ c.topic = Topic(p) /\ p.supported
  <2>1. CASE Subscribe(p)
    BY <1>0, <1>1, <1>2, <2>1 DEF Subscribe, Command
  <2>2. CASE Unsubscribe(p)
    <3>1. p.supported
      BY <1>1, <2>2 DEF Unsubscribe, AdapterInv, AdapterTypes
    <3> QED BY <1>0, <1>1, <1>2, <2>2, <3>1 DEF Unsubscribe, Command
  <2> QED BY <2>1, <2>2
<1>4. c \in Command /\ c.topic = Topic(p) /\ c # None
  BY <1>3, OkxAssumption, SMT, ZenonT(20), SMTT(30)
<1>5. c.op = "subscribe" <=> active'[p.stream] # None
  BY <1>3
<1>6. AdapterTypes'
  <2>1. \A s \in Streams : active'[s] # None => active'[s].supported /\ active'[s].stream = s
    BY <1>3 DEF AdapterInv, AdapterTypes
  <2> QED BY <1>0, <1>3, <1>4, <2>1 DEF AdapterInv, AdapterTypes
<1>7. c.op = "subscribe" <=> Wanted(c.topic)'
  <2>1. CASE active'[p.stream] # None
    BY <1>1, <1>3, <1>4, <1>5, <2>1 DEF Wanted
  <2>2. CASE active'[p.stream] = None
    <3>1. ASSUME NEW s \in Streams, active'[s] # None, Topic(active'[s]) = Topic(p) PROVE FALSE
      <4>1. active'[s] \in SubSpec /\ active'[s].supported /\ active'[s].stream = s
        BY <1>3, <1>6, <3>1, SMT, ZenonT(20), SMTT(30) DEF AdapterTypes
      <4>2. s = p.stream
        BY <1>3, <3>1, <4>1 DEF OneStreamPerTopic
      <4> QED BY <2>2, <3>1, <4>2
    <3> QED BY <1>4, <1>5, <2>2, <3>1 DEF Wanted
  <2> QED BY <2>1, <2>2
<1>8. ASSUME NEW t \in Topics, t # c.topic PROVE Wanted(t)' <=> Wanted(t)
  <2>1. \A s \in Streams : /\ (active'[s] # None /\ Topic(active'[s]) = t)
                              <=> (active[s] # None /\ Topic(active[s]) = t)
    BY <1>3, <1>4, <1>8
  <2> QED BY <2>1 DEF Wanted
<1> QED BY <1>0, <1>3, <1>4, <1>6, <1>7, <1>8, CommandAdded

LEMMA AdapterStep ==
  ASSUME OneStreamPerTopic, AdapterInv, [OkxNext]_OkxVars PROVE AdapterInv'
<1>0. AdapterTypes /\ CommandsRight /\ SessionRight
  BY DEF AdapterInv
<1>1. ASSUME NEW p \in SubSpec, Subscribe(p) \/ Unsubscribe(p) PROVE AdapterInv'
  BY <1>1, SubscribeKeeps
<1>2. CASE SendCommand
  <2>1. /\ call \in Command /\ call' = None /\ cmds' = Append(cmds, call) /\ cmds \in Seq(Command)
        /\ UNCHANGED <<active, session, subbed>>
    BY <1>0, <1>2 DEF SendCommand, AdapterTypes
  <2>2. Unsent' = Unsent
    BY <1>2, <2>1 DEF Unsent, SendCommand
  <2>3. AdapterTypes'
    BY <1>0, <2>1, AppendTyped DEF AdapterTypes
  <2> QED BY <1>0, <2>1, <2>2, <2>3, Zenon DEF AdapterInv, CommandsRight, SessionRight, Wanted, LastOn
<1>3. ASSUME UNCHANGED <<active, call, cmds>>, subbed' \subseteq Topics,
             session' = "up" => (session = "up" /\ subbed' = subbed) \/ subbed' = ActiveTopics
      PROVE  AdapterInv'
  <2>1. Unsent' = Unsent /\ AdapterTypes'
    BY <1>0, <1>3 DEF Unsent, AdapterTypes
  <2>2. CommandsRight' /\ \A t \in Topics : Wanted(t)' <=> Wanted(t)
    BY <1>0, <1>3, <2>1 DEF CommandsRight, LastOn, Wanted
  <2>3. \A t \in Topics : t \in ActiveTopics <=> Wanted(t)
    BY DEF ActiveTopics, Wanted
  <2> QED BY <1>0, <1>3, <2>1, <2>2, <2>3 DEF AdapterInv, SessionRight
<1>4. ActiveTopics \subseteq Topics
  <2>1. \A s \in Streams : active[s] # None => Topic(active[s]) \in Topics
    BY <1>0 DEF AdapterTypes, Topics, Topic
  <2> QED BY <2>1 DEF ActiveTopics
<1>5. CASE SessionConnected \/ RtmdConnectFails \/ Resubscribe \/ SessionFails \/ PublishEvent
           \/ (\E t \in Topics : RtmdPush(t)) \/ UNCHANGED OkxVars
  <2>1. UNCHANGED <<active, call, cmds>>
    BY <1>5, Zenon DEF SessionConnected, RtmdConnectFails, Resubscribe, SessionFails, PublishEvent, RtmdPush,
                OkxVars, tables
  <2>2. subbed' \in {subbed, {}, ActiveTopics}
    BY <1>5, Zenon DEF SessionConnected, RtmdConnectFails, Resubscribe, SessionFails, PublishEvent, RtmdPush,
                OkxVars, ActiveTopics
  <2>3. session' = "up" => (session = "up" /\ subbed' = subbed) \/ subbed' = ActiveTopics
    BY <1>5, Zenon DEF SessionConnected, RtmdConnectFails, Resubscribe, SessionFails, PublishEvent, RtmdPush,
                OkxVars, ActiveTopics
  <2> QED BY <1>0, <1>3, <1>4, <2>1, <2>2, <2>3 DEF AdapterTypes
<1>6. CASE WriteCommand \/ WriteFails
  <2>1. /\ cmds # << >> /\ cmds' = Tail(cmds) /\ UNCHANGED <<active, call>>
        /\ session' = "up" =>
              /\ session = "up"
              /\ subbed' = IF Head(cmds).op = "subscribe" THEN subbed \cup {Head(cmds).topic}
                           ELSE subbed \ {Head(cmds).topic}
    BY <1>6 DEF WriteCommand, WriteFails, tables
  <2>2. Head(cmds) \in Command /\ Tail(cmds) \in Seq(Command)
    BY <1>0, <2>1, HeadTailTyped, SMT, ZenonT(20), SMTT(30) DEF AdapterTypes
  <2>3. subbed' \in {subbed, {}, subbed \cup {Head(cmds).topic}, subbed \ {Head(cmds).topic}}
    BY <1>6, SMT, ZenonT(20), SMTT(30) DEF WriteCommand, WriteFails
  <2>4. AdapterTypes'
    BY <1>0, <2>1, <2>2, <2>3 DEF AdapterTypes, Command
  <2> QED BY <2>1, <2>4, CommandGone
<1> QED BY <1>1, <1>2, <1>5, <1>6 DEF OkxNext, SupervisorStep

(* Whenever the session is up and no command is on its way, OKX has        *)
(* exactly the topics of active_subs subscribed, whatever reconnects fell  *)
(* between a table's update and its command: for every set of              *)
(* subscriptions and every capacity of the two channels.                   *)
THEOREM VenueFollowsTables ==
  ASSUME OneStreamPerTopic PROVE OkxSpec => []SettledMatchesVenue
<1>1. OkxInit => AdapterInv
  <2> SUFFICES ASSUME OkxInit PROVE AdapterInv
    OBVIOUS
  <2>1. Unsent = << >> /\ AdapterTypes
    BY DEF OkxInit, Unsent, AdapterTypes
  <2> QED BY <2>1 DEF OkxInit, AdapterInv, CommandsRight, SessionRight
<1>2. AdapterInv /\ [OkxNext]_OkxVars => AdapterInv'
  BY AdapterStep
<1>3. AdapterInv => SettledMatchesVenue
  <2> SUFFICES ASSUME AdapterInv, Settled PROVE subbed = ActiveTopics
    BY DEF SettledMatchesVenue
  <2>1. Unsent = << >> /\ session = "up"
    BY DEF Settled, Unsent
  <2>2. \A t \in Topics : t \in subbed <=> Wanted(t)
    BY <2>1 DEF AdapterInv, SessionRight
  <2>3. \A s \in Streams : active[s] # None => Topic(active[s]) \in Topics
    BY DEF AdapterInv, AdapterTypes, Topics, Topic
  <2>4. subbed \subseteq Topics
    BY DEF AdapterInv, AdapterTypes
  <2> QED BY <2>2, <2>3, <2>4 DEF ActiveTopics, Wanted
<1> QED BY <1>1, <1>2, <1>3, PTL DEF OkxSpec

(* A label that an event carries, or that a topic is mapped to, leads back *)
(* to the instrument: exch_map never forgets a code.                       *)
LabelsRight ==
  /\ reverse \in [Topics -> Codes \cup {None}] /\ exch \in [Codes -> {p.inst : p \in SubSpec} \cup {None}]
  /\ \A p \in SubSpec : exch[p.code] \in {None, p.inst}
  /\ \A t \in Topics : reverse[t] # None => exch[reverse[t]] = t[2]
  /\ events \in Seq([code : Codes \cup {None}, inst : {p.inst : p \in SubSpec}])
  /\ \A i \in 1..Len(events) : events[i].code # None => exch[events[i].code] = events[i].inst
  /\ PublishedOnOwnSubject

LEMMA SeqTyped ==
  ASSUME NEW S, NEW q \in Seq(S), NEW i \in 1..Len(q) PROVE q[i] \in S
OBVIOUS

LEMMA TailTyped ==
  ASSUME NEW S, NEW q \in Seq(S), q # << >>
  PROVE  /\ Len(q) \in Nat /\ Len(q) >= 1 /\ Head(q) = q[1]
         /\ Len(Tail(q)) = Len(q) - 1 /\ Tail(q) \in Seq(S) /\ q[1] \in S
         /\ \A i \in 1..Len(q) - 1 : Tail(q)[i] = q[i + 1]
OBVIOUS

LEMMA LabelsKept ==
  ASSUME OneInstPerCode, LabelsRight, [OkxNext]_OkxVars PROVE LabelsRight'
<1> DEFINE Insts == {p.inst : p \in SubSpec}
           Event == [code : Codes \cup {None}, inst : Insts]
<1>00. events \in Seq(Event)
  BY DEF LabelsRight
<1>0. /\ reverse \in [Topics -> Codes \cup {None}] /\ exch \in [Codes -> Insts \cup {None}]
      /\ events \in Seq(Event) /\ None \notin Codes /\ None \notin Insts
  BY OkxAssumption, ZenonT(20) DEF LabelsRight, Codes
<1>1. ASSUME NEW p \in SubSpec, Subscribe(p) PROVE LabelsRight'
  <2>1. p.code \in Codes /\ p.inst \in Insts /\ Topic(p) \in Topics /\ Topic(p)[2] = p.inst
    BY SMT, ZenonT(20), SMTT(30) DEF Codes, Topics, Topic
  <2>2. /\ exch' = [exch EXCEPT ![p.code] = p.inst] /\ reverse' = [reverse EXCEPT ![Topic(p)] = p.code]
        /\ UNCHANGED <<events, published>>
    BY <1>1 DEF Subscribe
  <2>3. \A q \in SubSpec : exch'[q.code] \in {None, q.inst}
    <3> SUFFICES ASSUME NEW q \in SubSpec PROVE exch'[q.code] \in {None, q.inst}
      OBVIOUS
    <3>1. q.code \in Codes
      BY DEF Codes
    <3>2. CASE q.code = p.code
      BY <1>0, <2>1, <2>2, <3>2, SMT, ZenonT(20), SMTT(30) DEF OneInstPerCode
    <3>3. CASE q.code # p.code
      BY <1>0, <2>2, <3>1, <3>3 DEF LabelsRight
    <3> QED BY <3>2, <3>3
  <2>4. \A c \in Codes : exch[c] # None => exch'[c] = exch[c]
    <3> SUFFICES ASSUME NEW c \in Codes, exch[c] # None PROVE exch'[c] = exch[c]
      BY SMT, ZenonT(20), SMTT(30)
    <3>1. CASE c = p.code
      BY <1>0, <2>1, <2>2, <3>1 DEF LabelsRight
    <3>2. CASE c # p.code
      BY <1>0, <2>2, <3>2
    <3> QED BY <3>1, <3>2
  <2>5. \A t \in Topics : t[2] \in Insts
    BY DEF Topics
  <2>6. \A t \in Topics : reverse'[t] # None => exch'[reverse'[t]] = t[2]
    <3> SUFFICES ASSUME NEW t \in Topics, reverse'[t] # None PROVE exch'[reverse'[t]] = t[2]
      BY SMT, ZenonT(20), SMTT(30)
    <3>1. CASE t = Topic(p)
      BY <1>0, <2>1, <2>2, <3>1
    <3>2. CASE t # Topic(p)
      <4>1. reverse'[t] = reverse[t] /\ reverse[t] \in Codes
        BY <1>0, <2>2, <3>2, SMT, ZenonT(20), SMTT(30)
      <4>2. exch[reverse[t]] = t[2]
        BY <4>1, <1>0, SMT, ZenonT(20), SMTT(30) DEF LabelsRight
      <4> QED BY <1>0, <2>4, <2>5, <4>1, <4>2
    <3> QED BY <3>1, <3>2
  <2>7. \A i \in 1..Len(events) : events[i].code # None => exch'[events[i].code] = events[i].inst
    <3> SUFFICES ASSUME NEW i \in 1..Len(events), events[i].code # None
                 PROVE  exch'[events[i].code] = events[i].inst
      OBVIOUS
    <3>1. events[i] \in Event
      BY <1>00, SeqTyped, Zenon
    <3>2. events[i].code \in Codes /\ events[i].inst \in Insts
      BY <3>1, SMT, ZenonT(20), SMTT(30)
    <3>3. exch[events[i].code] = events[i].inst
      BY DEF LabelsRight
    <3> QED BY <1>0, <2>4, <3>2, <3>3
  <2>8. exch' \in [Codes -> Insts \cup {None}] /\ reverse' \in [Topics -> Codes \cup {None}]
    BY <1>0, <2>1, <2>2, SMT, ZenonT(20), SMTT(30)
  <2> QED BY <1>0, <2>2, <2>3, <2>6, <2>7, <2>8, Zenon DEF LabelsRight, PublishedOnOwnSubject
<1>2. ASSUME NEW p \in SubSpec, Unsubscribe(p) PROVE LabelsRight'
  <2>1. reverse' = [reverse EXCEPT ![Topic(p)] = None] /\ UNCHANGED <<exch, events, published>>
    BY <1>2, Zenon DEF Unsubscribe
  <2>2. /\ reverse' \in [Topics -> Codes \cup {None}]
        /\ \A t \in Topics : reverse'[t] \in {None, reverse[t]}
    BY <1>0, <2>1, ZenonT(30)
  <2> QED BY <2>1, <2>2 DEF LabelsRight, PublishedOnOwnSubject
<1>3. ASSUME NEW t \in Topics, RtmdPush(t) PROVE LabelsRight'
  <2> DEFINE e == [code |-> reverse[t], inst |-> t[2]]
  <2>1. events' = Append(events, e) /\ UNCHANGED <<reverse, exch, published>>
    BY <1>3 DEF RtmdPush, tables
  <2>2. e \in Event
    BY <1>0, SMT, ZenonT(20), SMTT(30) DEF Topics
  <2>3. e.code # None => exch[e.code] = e.inst
    BY SMT, ZenonT(20), SMTT(30) DEF LabelsRight
  <2> HIDE DEF e
  <2>4. /\ Len(events) \in Nat /\ Len(events') = Len(events) + 1 /\ events'[Len(events) + 1] = e
        /\ \A i \in 1..Len(events) : events'[i] = events[i]
    BY <1>0, <2>1, <2>2
  <2>5. events' \in Seq(Event)
    BY <1>0, <2>1, <2>2, AppendTyped
  <2>6. \A i \in 1..Len(events') : i = Len(events) + 1 \/ i \in 1..Len(events)
    BY <2>4
  <2>7. \A i \in 1..Len(events') : events'[i].code # None => exch[events'[i].code] = events'[i].inst
    BY <2>3, <2>4, <2>6, ZenonT(20) DEF LabelsRight
  <2> QED BY <2>1, <2>5, <2>7, Zenon DEF LabelsRight, PublishedOnOwnSubject
<1>4. CASE PublishEvent
  <2>1. /\ events # << >> /\ events' = Tail(events) /\ UNCHANGED <<reverse, exch>>
        /\ published' = [subject |-> SubjectInst(Head(events)), inst |-> Head(events).inst]
    BY <1>4, Zenon DEF PublishEvent, tables
  <2>2. /\ Len(events) \in Nat /\ Len(events) >= 1 /\ Head(events) = events[1]
        /\ Len(events') = Len(events) - 1 /\ events' \in Seq(Event) /\ events[1] \in Event
        /\ \A i \in 1..Len(events) - 1 : events'[i] = events[i + 1]
    <3> HIDE DEF Event
    <3> QED BY <1>00, <2>1, TailTyped
  <2>3. \A i \in 1..Len(events') : i + 1 \in 1..Len(events) /\ events'[i] = events[i + 1]
    BY <2>2
  <2>4. SubjectInst(events[1]) = events[1].inst
    <3>1. events[1].code # None => exch[events[1].code] = events[1].inst
      BY <2>2, SMT, ZenonT(20), SMTT(30) DEF LabelsRight
    <3>2. events[1].inst # None
      BY <1>0, <2>2, SMT, ZenonT(20), SMTT(30)
    <3> QED BY <3>1, <3>2, Zenon DEF SubjectInst
  <2> QED BY <2>1, <2>2, <2>3, <2>4, SMT, ZenonT(20), SMTT(30) DEF LabelsRight, PublishedOnOwnSubject
<1>5. CASE UNCHANGED <<reverse, exch, events, published>>
  BY <1>5 DEF LabelsRight, PublishedOnOwnSubject
<1> QED
  BY <1>1, <1>2, <1>3, <1>4, <1>5, ZenonT(30)
     DEF OkxNext, OkxVars, SupervisorStep, SendCommand, SessionConnected, Resubscribe, WriteCommand,
         RtmdConnectFails, SessionFails, WriteFails, tables

(* Every event goes out on the subject of the instrument it is about, also *)
(* one that arrives after its stream was unsubscribed and its topic        *)
(* unmapped.                                                               *)
THEOREM EventsOnOwnSubject ==
  ASSUME OneInstPerCode PROVE OkxSpec => []PublishedOnOwnSubject
<1>1. OkxInit => LabelsRight
  <2> SUFFICES ASSUME OkxInit PROVE LabelsRight
    OBVIOUS
  <2> DEFINE Event == [code : Codes \cup {None}, inst : {p.inst : p \in SubSpec}]
  <2>1. events \in Seq(Event) /\ 1..Len(events) = {}
    <3> HIDE DEF Event
    <3> QED BY DEF OkxInit
  <2>2. \A p \in SubSpec : exch[p.code] = None
    BY DEF OkxInit, Codes
  <2>3. /\ reverse \in [Topics -> Codes \cup {None}] /\ published = None
        /\ exch \in [Codes -> {p.inst : p \in SubSpec} \cup {None}]
        /\ \A t \in Topics : reverse[t] = None
    BY SMT, ZenonT(20), SMTT(30) DEF OkxInit
  <2> QED BY <2>1, <2>2, <2>3, Zenon DEF LabelsRight, PublishedOnOwnSubject
<1>2. LabelsRight /\ [OkxNext]_OkxVars => LabelsRight'
  BY LabelsKept
<1>3. LabelsRight => PublishedOnOwnSubject
  BY DEF LabelsRight
<1> QED BY <1>1, <1>2, <1>3, PTL DEF OkxSpec

-----------------------------------------------------------------------------
(* The recorder.  A message names its row; the stream's bookkeeping speaks *)
(* only of messages the stream holds.                                      *)

OrderEvent == [kind : {"order"}, id : RecOrders, ver : Nat \ {0}, at : Months]
TradeEvent == [kind : {"trade"}, id : RecTrades, ver : {1}, at : Months]
Event == OrderEvent \cup TradeEvent
Row == [ver : Nat, enriched : BOOLEAN]

PgType == [orders : [RecOrders -> [Months -> Row]], trades : [RecTrades -> {0, 1}],
           parts : SUBSET Int]

OmsSide ==
  /\ month \in Months /\ recQ \in Seq(Event)
  /\ finished \in [ver : [RecOrders -> Nat], at : [RecOrders -> Months],
                   max : [RecOrders -> Nat], todo : SUBSET RecTrades]

StreamSide ==
  /\ js \in [log : Seq(Event), acked : SUBSET DOMAIN js.log, waiting : SUBSET DOMAIN js.log]
  /\ rec = [up |-> rec.up, running |-> rec.running, ended |-> rec.ended, inbox |-> rec.inbox,
            maintained |-> rec.maintained]
  /\ rec.inbox \in [Kinds -> Seq(DOMAIN js.log)]

RecTypes == OmsSide /\ StreamSide /\ pg \in PgType

RecInv == RecTypes /\ AckedIsStored

(* The row of a message, and when it is safe to have acknowledged it.      *)
Stored(p, m, e) ==
  IF e.kind = "trade" THEN p.trades[e.id] = 1
  ELSE e.at + RetentionMonths < m \/ p.orders[e.id][e.at] # NoRow

(* Sequences over a set are sequences over a larger one.                   *)
LEMMA SeqGrows ==
  ASSUME NEW S, NEW T, S \subseteq T, NEW s \in Seq(S) PROVE s \in Seq(T)
OBVIOUS

LEMMA AppendGrows ==
  ASSUME NEW S, NEW s \in Seq(S), NEW x \in S
  PROVE  /\ Append(s, x) \in Seq(S) /\ DOMAIN s \subseteq DOMAIN Append(s, x)
         /\ \A i \in DOMAIN s : Append(s, x)[i] = s[i]
BY SMT, ZenonT(20), SMTT(30)

(* A handler that succeeds stores its message and loses no other.          *)
LEMMA HandledIsStored ==
  ASSUME RecTypes, NEW e \in Event, HandleMessage(e)
  PROVE  /\ pg' \in PgType /\ Stored(pg', month, e)
         /\ \A f \in Event : Stored(pg, month, f) => Stored(pg', month, f)
<1>0. pg \in PgType
  BY DEF RecTypes
<1>1. CASE e \in TradeEvent
  <2>1. e.kind = "trade" /\ e.id \in RecTrades
    BY <1>1 DEF TradeEvent
  <2>2. pg' = [pg EXCEPT !.trades[e.id] = IF @ = 0 THEN 1 ELSE @]
    BY <2>1 DEF HandleMessage, InsertTradeOms
  <2>3. /\ pg'.orders = pg.orders /\ pg'.parts = pg.parts
        /\ pg'.trades = [pg.trades EXCEPT ![e.id] = IF @ = 0 THEN 1 ELSE @]
        /\ pg' = [orders |-> pg'.orders, trades |-> pg'.trades, parts |-> pg'.parts]
    BY <1>0, <2>2 DEF PgType
  <2>4. pg'.trades \in [RecTrades -> {0, 1}] /\ pg'.trades[e.id] = 1
    BY <1>0, <2>1, <2>3 DEF PgType
  <2>5. \A t \in RecTrades : pg.trades[t] = 1 => pg'.trades[t] = 1
    BY <1>0, <2>1, <2>3 DEF PgType
  <2>6. pg' \in PgType
    BY <1>0, <2>3, <2>4 DEF PgType
  <2>7. \A f \in Event : f.kind = "trade" => f.id \in RecTrades
    BY DEF Event, OrderEvent, TradeEvent
  <2> QED BY <2>1, <2>3, <2>4, <2>5, <2>6, <2>7, Zenon DEF Stored
<1>2. CASE e \in OrderEvent
  <2>1. e.kind # "trade" /\ e.id \in RecOrders /\ e.at \in Months /\ e.ver \in Nat /\ e.ver # 0
    BY <1>2, SMT, ZenonT(20), SMTT(30) DEF OrderEvent
  <2>2. PICK b \in BOOLEAN :
          pg' = [pg EXCEPT !.orders[e.id][e.at] = [ver |-> e.ver, enriched |-> b \/ @.enriched]]
    BY <2>1 DEF HandleMessage, UpsertOrderOms
  <2> DEFINE old == pg.orders[e.id][e.at]
             new == [ver |-> e.ver, enriched |-> b \/ old.enriched]
  <2>3. pg.orders \in [RecOrders -> [Months -> Row]]
    BY <1>0 DEF PgType
  <2>4. old \in Row
    BY <2>1, <2>3
  <2>5. (b \/ old.enriched) \in BOOLEAN
    OBVIOUS
  <2>6. new \in Row /\ new # NoRow
    <3> HIDE DEF old
    <3>1. new \in Row
      BY <2>1, <2>5 DEF Row
    <3>2. new.ver # NoRow.ver
      BY <2>1 DEF NoRow
    <3> QED BY <3>1, <3>2, ZenonT(30)
  <2>7. /\ pg'.orders = [pg.orders EXCEPT ![e.id] = [pg.orders[e.id] EXCEPT ![e.at] = new]]
        /\ pg'.trades = pg.trades /\ pg'.parts = pg.parts
        /\ pg' = [orders |-> pg'.orders, trades |-> pg'.trades, parts |-> pg'.parts]
    BY <1>0, <2>1, <2>2, Zenon DEF PgType
  <2> HIDE DEF old, new
  <2>8. pg'.orders \in [RecOrders -> [Months -> Row]] /\ pg'.orders[e.id][e.at] = new
    BY <2>1, <2>3, <2>6, <2>7, SMT, ZenonT(20), SMTT(30)
  <2>9. \A o \in RecOrders, q \in Months : pg.orders[o][q] # NoRow => pg'.orders[o][q] # NoRow
    BY <2>1, <2>3, <2>6, <2>7
  <2>10. pg' \in PgType
    BY <1>0, <2>7, <2>8, SMT, ZenonT(20), SMTT(30) DEF PgType
  <2>11. \A f \in Event : f.kind # "trade" => f.id \in RecOrders /\ f.at \in Months
    BY DEF Event, OrderEvent, TradeEvent
  <2>12. Stored(pg', month, e)
    BY <2>1, <2>6, <2>8 DEF Stored
  <2>13. ASSUME NEW f \in Event, Stored(pg, month, f) PROVE Stored(pg', month, f)
    BY <2>7, <2>9, <2>11, <2>13, Zenon DEF Stored
  <2> QED BY <2>10, <2>12, <2>13
<1> QED BY <1>1, <1>2 DEF Event

(* Maintenance drops only rows that are past the retention.                *)
LEMMA DropKeeps ==
  ASSUME RecTypes, NEW p \in PgType
  PROVE  /\ DropExpiredPartitions(p) \in PgType
         /\ \A f \in Event : Stored(p, month, f) => Stored(DropExpiredPartitions(p), month, f)
<1> DEFINE dropped == {q \in p.parts : q + RetentionMonths < month}
           d == DropExpiredPartitions(p)
<1>1. /\ p.orders \in [RecOrders -> [Months -> Row]] /\ p.parts \subseteq Int
      /\ p.trades \in [RecTrades -> {0, 1}]
  BY DEF PgType
<1>10. d = [p EXCEPT !.parts = @ \ dropped,
                     !.orders = [o \in RecOrders |-> [q \in Months |-> IF q \in dropped THEN NoRow ELSE @[o][q]]]]
  BY Zenon DEF DropExpiredPartitions
<1>11. \A q \in dropped : q + RetentionMonths < month
  OBVIOUS
<1> HIDE DEF d, dropped
<1>2. /\ d.parts = p.parts \ dropped /\ d.trades = p.trades
      /\ d.orders = [o \in RecOrders |-> [q \in Months |-> IF q \in dropped THEN NoRow ELSE p.orders[o][q]]]
      /\ d = [orders |-> d.orders, trades |-> d.trades, parts |-> d.parts]
  BY <1>10, Zenon DEF PgType
<1>3. NoRow \in Row
  BY DEF NoRow, Row
<1>5. d.orders \in [RecOrders -> [Months -> Row]] /\ d.parts \subseteq Int
  BY <1>1, <1>2, <1>3, SMT, ZenonT(20), SMTT(30)
<1>6. d \in PgType
  BY <1>1, <1>2, <1>5 DEF PgType
<1>7. ASSUME NEW f \in Event, Stored(p, month, f) PROVE Stored(d, month, f)
  <2>1. f.kind # "trade" => f.id \in RecOrders /\ f.at \in Months
    BY DEF Event, OrderEvent, TradeEvent
  <2>2. CASE f.kind = "trade"
    BY <1>2, <1>7, <2>2, Zenon DEF Stored
  <2>3. CASE f.kind # "trade"
    <3>1. d.orders[f.id][f.at] = IF f.at \in dropped THEN NoRow ELSE p.orders[f.id][f.at]
      BY <1>2, <2>1, <2>3
    <3> QED BY <1>11, <1>7, <2>3, <3>1, Zenon DEF Stored
  <2> QED BY <2>2, <2>3
<1> QED BY <1>6, <1>7 DEF d

LEMMA EnsureKeeps ==
  ASSUME RecTypes, NEW p \in PgType
  PROVE  /\ EnsurePartitions(p) \in PgType
         /\ \A f \in Event : Stored(p, month, f) => Stored(EnsurePartitions(p), month, f)
<1> DEFINE d == EnsurePartitions(p)
<1>0. month \in Int /\ month + 1 \in Int
  BY RecAssumption DEF RecTypes, OmsSide, Months
<1>10. d = [p EXCEPT !.parts = @ \cup {month, month + 1}]
  BY DEF EnsurePartitions
<1> HIDE DEF d
<1>1. /\ d.orders = p.orders /\ d.trades = p.trades /\ d.parts = p.parts \cup {month, month + 1}
      /\ d = [orders |-> d.orders, trades |-> d.trades, parts |-> d.parts]
  BY <1>10, Zenon DEF PgType
<1>2. d \in PgType
  BY <1>0, <1>1 DEF PgType
<1>3. \A f \in Event : Stored(p, month, f) => Stored(d, month, f)
  BY <1>1, Zenon DEF Stored
<1> QED BY <1>2, <1>3 DEF d

(* What the stream and the recorder's inboxes may do in a step.            *)
LEMMA AckedKept ==
  ASSUME RecInv, js' = js, pg' \in PgType, month' = month,
         \A f \in Event : Stored(pg, month, f) => Stored(pg', month, f)
  PROVE  AckedIsStored'
<1> SUFFICES ASSUME NEW i \in js.acked PROVE Stored(pg', month, js.log[i])
  BY Zenon DEF AckedIsStored, Stored, PastRetention
<1>1. js.log[i] \in Event
  BY DEF RecInv, RecTypes, StreamSide
<1>2. Stored(pg, month, js.log[i])
  BY Zenon DEF RecInv, AckedIsStored, Stored, PastRetention
<1> QED BY <1>1, <1>2

LEMMA OrderClosesKeeps ==
  ASSUME RecInv, NEW o \in RecOrders, OrderCloses(o) PROVE OmsSide'
<1> DEFINE closedAt == IF finished.ver[o] = 0 THEN month ELSE finished.at[o]
           e == [kind |-> "order", id |-> o, ver |-> finished.ver[o] + 1, at |-> closedAt]
<1>1. /\ finished' = [finished EXCEPT !.ver[o] = @ + 1, !.at[o] = closedAt]
      /\ recQ' = (IF Len(recQ) < RecQueueCap THEN Append(recQ, e) ELSE recQ) /\ month' = month
  BY DEF OrderCloses, DispatchRecord
<1>2. /\ month \in Months /\ recQ \in Seq(Event) /\ finished.ver \in [RecOrders -> Nat]
      /\ finished.at \in [RecOrders -> Months] /\ finished.max \in [RecOrders -> Nat]
      /\ finished.todo \in SUBSET RecTrades
  BY DEF RecInv, RecTypes, OmsSide
<1>3. closedAt \in Months
  BY <1>2
<1> HIDE DEF closedAt
<1>4. finished.ver[o] \in Nat /\ finished.ver[o] + 1 \in Nat /\ finished.ver[o] + 1 # 0
  BY <1>2, SMT, ZenonT(20), SMTT(30)
<1>5. e \in Event
  BY <1>3, <1>4 DEF Event, OrderEvent
<1> HIDE DEF e
<1>6. recQ' \in Seq(Event)
  BY <1>1, <1>2, <1>5, AppendTyped
<1>7. finished' = [ver |-> [finished.ver EXCEPT ![o] = @ + 1], at |-> [finished.at EXCEPT ![o] = closedAt],
                   max |-> finished.max, todo |-> finished.todo]
  BY <1>1, Zenon DEF RecInv, RecTypes, OmsSide
<1>8. /\ [finished.ver EXCEPT ![o] = @ + 1] \in [RecOrders -> Nat]
      /\ [finished.at EXCEPT ![o] = closedAt] \in [RecOrders -> Months]
  BY <1>2, <1>3, <1>4, ZenonT(20)
<1>9. finished' \in [ver : [RecOrders -> Nat], at : [RecOrders -> Months],
                     max : [RecOrders -> Nat], todo : SUBSET RecTrades]
  BY <1>2, <1>7, <1>8, Zenon
<1> QED BY <1>1, <1>2, <1>6, <1>9, Zenon DEF OmsSide

LEMMA TradeFillsKeeps ==
  ASSUME RecInv, NEW t \in RecTrades, TradeFills(t) PROVE OmsSide'
<1> DEFINE e == [kind |-> "trade", id |-> t, ver |-> 1, at |-> month]
<1>1. /\ finished' = [finished EXCEPT !.todo = @ \ {t}] /\ month' = month
      /\ recQ' = IF Len(recQ) < RecQueueCap THEN Append(recQ, e) ELSE recQ
  BY DEF TradeFills, DispatchRecord
<1>2. e \in Event
  BY DEF Event, TradeEvent, RecInv, RecTypes, OmsSide
<1> HIDE DEF e
<1>3. recQ' \in Seq(Event)
  BY <1>1, <1>2, AppendTyped DEF RecInv, RecTypes, OmsSide
<1>4. finished' \in [ver : [RecOrders -> Nat], at : [RecOrders -> Months],
                     max : [RecOrders -> Nat], todo : SUBSET RecTrades]
  BY <1>1, Zenon DEF RecInv, RecTypes, OmsSide
<1> QED BY <1>1, <1>3, <1>4, Zenon DEF RecInv, RecTypes, OmsSide

LEMMA WorkerKeeps ==
  ASSUME RecInv, RecorderWorker PROVE RecInv'
<1>1. /\ recQ # << >> /\ recQ' = Tail(recQ) /\ UNCHANGED <<finished, rec, pg, month>>
      /\ js' = js \/ js' = [js EXCEPT !.log = Append(@, Head(recQ))]
  BY DEF RecorderWorker
<1>2. recQ \in Seq(Event)
  BY DEF RecInv, RecTypes, OmsSide
<1>3. Head(recQ) \in Event /\ Tail(recQ) \in Seq(Event)
  BY <1>1, <1>2, HeadTailTyped
<1>4. OmsSide'
  BY <1>1, <1>3, Zenon DEF RecInv, RecTypes, OmsSide
<1>5. /\ js.log \in Seq(Event) /\ js.acked \subseteq DOMAIN js.log /\ js.waiting \subseteq DOMAIN js.log
      /\ rec.inbox \in [Kinds -> Seq(DOMAIN js.log)]
  BY DEF RecInv, RecTypes, StreamSide
<1>6. CASE js' = js
  BY <1>1, <1>4, <1>6, Zenon DEF RecInv, RecTypes, StreamSide, AckedIsStored, PastRetention
<1>7. CASE js' = [js EXCEPT !.log = Append(@, Head(recQ))]
  <2>1. /\ js'.log = Append(js.log, Head(recQ)) /\ js'.acked = js.acked /\ js'.waiting = js.waiting
        /\ js' = [log |-> js'.log, acked |-> js'.acked, waiting |-> js'.waiting]
    BY <1>7, Zenon DEF RecInv, RecTypes, StreamSide
  <2>2. /\ js'.log \in Seq(Event) /\ DOMAIN js.log \subseteq DOMAIN js'.log
        /\ \A i \in DOMAIN js.log : js'.log[i] = js.log[i]
    BY <1>3, <1>5, <2>1, AppendGrows
  <2>3. rec.inbox \in [Kinds -> Seq(DOMAIN js'.log)]
    <3>1. \A k \in Kinds : rec.inbox[k] \in Seq(DOMAIN js'.log)
      BY <1>5, <2>2, SeqGrows
    <3> QED BY <1>5, <3>1
  <2>4. js' \in [log : Seq(Event), acked : SUBSET DOMAIN js'.log, waiting : SUBSET DOMAIN js'.log]
    BY <1>5, <2>1, <2>2, Zenon
  <2>5. StreamSide'
    BY <1>1, <2>3, <2>4, Zenon DEF RecInv, RecTypes, StreamSide
  <2>6. \A i \in js'.acked : i \in js.acked /\ js'.log[i] = js.log[i]
    BY <1>5, <2>1, <2>2
  <2>7. AckedIsStored'
    BY <1>1, <2>6, Zenon DEF RecInv, AckedIsStored, PastRetention
  <2> QED BY <1>1, <1>4, <2>5, <2>7, Zenon DEF RecInv, RecTypes
<1> QED BY <1>1, <1>6, <1>7

(* A step that changes one inbox, or empties some, leaves the recorder's   *)
(* side of the stream as it should be.                                     *)
LEMMA InboxKeeps ==
  ASSUME StreamSide, NEW k \in Kinds, NEW q \in Seq(DOMAIN js.log),
         rec' = [rec EXCEPT !.inbox[k] = q], js'.log = js.log,
         js' \in [log : Seq(Event), acked : SUBSET DOMAIN js.log, waiting : SUBSET DOMAIN js.log]
  PROVE  StreamSide'
<1>1. /\ rec'.inbox = [rec.inbox EXCEPT ![k] = q] /\ rec'.up = rec.up /\ rec'.running = rec.running
      /\ rec'.ended = rec.ended /\ rec'.maintained = rec.maintained
      /\ rec' = [up |-> rec'.up, running |-> rec'.running, ended |-> rec'.ended, inbox |-> rec'.inbox,
                 maintained |-> rec'.maintained]
  BY Zenon DEF StreamSide
<1>2. rec'.inbox \in [Kinds -> Seq(DOMAIN js'.log)]
  BY <1>1 DEF StreamSide
<1> QED BY <1>1, <1>2, Zenon DEF StreamSide

LEMMA DeliverKeeps ==
  ASSUME RecInv, NEW k \in Kinds, NEW i \in DOMAIN js.log, Deliver(k, i) PROVE RecInv'
<1>1. /\ rec' = [rec EXCEPT !.inbox[k] = Append(@, i)] /\ js' = [js EXCEPT !.waiting = @ \cup {i}]
      /\ UNCHANGED <<finished, recQ, pg, month>>
  BY SMT, ZenonT(20), SMTT(30) DEF Deliver
<1>2. /\ js.log \in Seq(Event) /\ js.acked \subseteq DOMAIN js.log /\ js.waiting \subseteq DOMAIN js.log
      /\ rec.inbox[k] \in Seq(DOMAIN js.log) /\ StreamSide
  BY DEF RecInv, RecTypes, StreamSide
<1>3. /\ js'.log = js.log /\ js'.acked = js.acked /\ js'.waiting = js.waiting \cup {i}
      /\ js' = [log |-> js'.log, acked |-> js'.acked, waiting |-> js'.waiting]
  BY <1>1, Zenon DEF RecInv, RecTypes, StreamSide
<1>4. js' \in [log : Seq(Event), acked : SUBSET DOMAIN js.log, waiting : SUBSET DOMAIN js.log]
  BY <1>2, <1>3
<1>5. Append(rec.inbox[k], i) \in Seq(DOMAIN js.log)
  BY <1>2, AppendTyped, Zenon
<1>6. rec' = [rec EXCEPT !.inbox[k] = Append(rec.inbox[k], i)]
  BY <1>1
<1>7. StreamSide'
  BY <1>2, <1>3, <1>4, <1>5, <1>6, InboxKeeps, Zenon
<1> QED BY <1>1, <1>3, <1>7, Zenon DEF RecInv, RecTypes, OmsSide, AckedIsStored, PastRetention

LEMMA ConsumerKeeps ==
  ASSUME RecInv, NEW k \in Kinds, ConsumerLoop(k) PROVE RecInv'
<1> DEFINE i == Head(rec.inbox[k])
           e == js.log[i]
<1>1. /\ rec.inbox[k] # << >> /\ rec' = [rec EXCEPT !.inbox[k] = Tail(@)]
      /\ UNCHANGED <<finished, recQ, month>>
      /\ \/ HandleMessage(e) /\ Acknowledged(i)
         \/ HandleMessage(e) /\ js' = js
         \/ js' = js /\ pg' = pg
  BY DEF ConsumerLoop, Taken
<1>2. /\ js.log \in Seq(Event) /\ js.acked \subseteq DOMAIN js.log /\ js.waiting \subseteq DOMAIN js.log
      /\ rec.inbox[k] \in Seq(DOMAIN js.log) /\ StreamSide /\ pg \in PgType /\ RecTypes
  BY DEF RecInv, RecTypes, StreamSide
<1>3. i \in DOMAIN js.log /\ Tail(rec.inbox[k]) \in Seq(DOMAIN js.log)
  BY <1>1, <1>2, HeadTailTyped, Zenon
<1>4. e \in Event
  BY <1>2, <1>3
<1>5. rec' = [rec EXCEPT !.inbox[k] = Tail(rec.inbox[k])]
  BY <1>1
<1>6. OmsSide'
  BY <1>1, Zenon DEF RecInv, RecTypes, OmsSide
<1>7. HandleMessage(e) => /\ pg' \in PgType /\ Stored(pg', month, e)
                          /\ \A f \in Event : Stored(pg, month, f) => Stored(pg', month, f)
  BY <1>2, <1>4, HandledIsStored, Zenon
<1>8. CASE js' = js
  <2>1. pg' \in PgType /\ \A f \in Event : Stored(pg, month, f) => Stored(pg', month, f)
    BY <1>1, <1>2, <1>7, Zenon
  <2>2. StreamSide'
    <3>1. js' \in [log : Seq(Event), acked : SUBSET DOMAIN js.log, waiting : SUBSET DOMAIN js.log]
      BY <1>2, <1>8, Zenon DEF StreamSide
    <3> QED BY <1>2, <1>3, <1>5, <1>8, <3>1, InboxKeeps, Zenon
  <2>3. AckedIsStored'
    BY <1>1, <1>8, <2>1, AckedKept
  <2> QED BY <1>6, <2>1, <2>2, <2>3, Zenon DEF RecInv, RecTypes
<1>9. CASE HandleMessage(e) /\ Acknowledged(i)
  <2>1. /\ js'.log = js.log /\ js'.acked = js.acked \cup {i} /\ js'.waiting = js.waiting \ {i}
        /\ js' = [log |-> js'.log, acked |-> js'.acked, waiting |-> js'.waiting]
    BY <1>9, Zenon DEF RecInv, RecTypes, StreamSide, Acknowledged
  <2>2. js' \in [log : Seq(Event), acked : SUBSET DOMAIN js.log, waiting : SUBSET DOMAIN js.log]
    BY <1>2, <1>3, <2>1
  <2>3. StreamSide'
    BY <1>2, <1>3, <1>5, <2>1, <2>2, InboxKeeps, Zenon
  <2>4. \A j \in js.acked : Stored(pg', month, js.log[j])
    <3> SUFFICES ASSUME NEW j \in js.acked PROVE Stored(pg', month, js.log[j])
      OBVIOUS
    <3>1. js.log[j] \in Event
      BY <1>2
    <3>2. Stored(pg, month, js.log[j])
      BY Zenon DEF RecInv, AckedIsStored, Stored, PastRetention
    <3> QED BY <1>7, <1>9, <3>1, <3>2, Zenon
  <2>5. \A j \in js'.acked : Stored(pg', month, js'.log[j])
    BY <1>7, <1>9, <2>1, <2>4, Zenon
  <2>6. AckedIsStored'
    BY <1>1, <2>5, Zenon DEF AckedIsStored, Stored, PastRetention
  <2> QED BY <1>6, <1>7, <1>9, <2>3, <2>6, Zenon DEF RecInv, RecTypes
<1> QED BY <1>1, <1>8, <1>9, Zenon

(* Steps of the recorder that leave the stream alone.                      *)
LEMMA ProcessKeeps ==
  ASSUME RecInv, UNCHANGED <<finished, recQ, js, month>>,
         rec' = [up |-> rec'.up, running |-> rec'.running, ended |-> rec'.ended, inbox |-> rec'.inbox,
                 maintained |-> rec'.maintained],
         rec'.inbox \in [Kinds -> Seq(DOMAIN js.log)], pg' \in PgType,
         \A f \in Event : Stored(pg, month, f) => Stored(pg', month, f)
  PROVE  RecInv'
<1>1. OmsSide'
  BY Zenon DEF RecInv, RecTypes, OmsSide
<1>2. StreamSide'
  BY Zenon DEF RecInv, RecTypes, StreamSide
<1>3. AckedIsStored'
  BY AckedKept
<1> QED BY <1>1, <1>2, <1>3, Zenon DEF RecInv, RecTypes

LEMMA RecorderStep ==
  ASSUME RecInv, [RecNext]_RecVars PROVE RecInv'
<1>0. /\ js.log \in Seq(Event) /\ js.waiting \subseteq DOMAIN js.log /\ pg \in PgType /\ RecTypes
      /\ rec.inbox \in [Kinds -> Seq(DOMAIN js.log)] /\ StreamSide
      /\ rec = [up |-> rec.up, running |-> rec.running, ended |-> rec.ended, inbox |-> rec.inbox,
                maintained |-> rec.maintained]
  BY SMT, ZenonT(20), SMTT(30) DEF RecInv, RecTypes, StreamSide
<1>1. ASSUME OmsSide', UNCHANGED <<js, rec, pg, month>> PROVE RecInv'
  BY <1>1, Zenon DEF RecInv, RecTypes, StreamSide, AckedIsStored, PastRetention
<1>2. ASSUME NEW o \in RecOrders, OrderCloses(o) PROVE RecInv'
  <2>1. OmsSide' /\ UNCHANGED <<js, rec, pg, month>>
    BY <1>2, OrderClosesKeeps, Zenon DEF OrderCloses
  <2> QED BY <1>1, <2>1
<1>3. ASSUME NEW t \in RecTrades, TradeFills(t) PROVE RecInv'
  <2>1. OmsSide' /\ UNCHANGED <<js, rec, pg, month>>
    BY <1>3, TradeFillsKeeps DEF TradeFills
  <2> QED BY <1>1, <2>1
<1>4. ASSUME NEW k \in Kinds, DeliverNext(k) \/ Redeliver(k) PROVE RecInv'
  <2>1. PICK i \in DOMAIN js.log : Deliver(k, i)
    BY <1>0, <1>4 DEF DeliverNext, Redeliver, Undelivered
  <2> QED BY <2>1, DeliverKeeps
<1>5. ASSUME NEW k \in Kinds, StreamEnds(k) PROVE RecInv'
  <2>1. /\ rec' = [rec EXCEPT !.running = @ \ {k}, !.ended = TRUE, !.inbox[k] = << >>]
        /\ UNCHANGED <<finished, recQ, js, pg, month>>
    BY <1>5 DEF StreamEnds
  <2>2. /\ rec'.inbox = [rec.inbox EXCEPT ![k] = << >>]
        /\ rec' = [up |-> rec'.up, running |-> rec'.running, ended |-> rec'.ended, inbox |-> rec'.inbox,
                   maintained |-> rec'.maintained]
    BY <1>0, <2>1, Zenon
  <2>3. rec'.inbox \in [Kinds -> Seq(DOMAIN js.log)]
    BY <1>0, <2>2, SMT, ZenonT(20), SMTT(30)
  <2> QED BY <1>0, <2>1, <2>2, <2>3, ProcessKeeps
<1>6. CASE RecorderStarts
  <2>1. /\ rec' = [up |-> TRUE, running |-> Kinds, ended |-> FALSE, inbox |-> [k \in Kinds |-> << >>],
                   maintained |-> FALSE]
        /\ pg' = DropExpiredPartitions(EnsurePartitions(pg)) /\ UNCHANGED <<finished, recQ, js, month>>
    BY <1>6 DEF RecorderStarts
  <2>2. /\ rec'.inbox \in [Kinds -> Seq(DOMAIN js.log)]
        /\ rec' = [up |-> rec'.up, running |-> rec'.running, ended |-> rec'.ended, inbox |-> rec'.inbox,
                   maintained |-> rec'.maintained]
    BY <2>1, SMT, ZenonT(20), SMTT(30)
  <2>3. pg' \in PgType /\ \A f \in Event : Stored(pg, month, f) => Stored(pg', month, f)
    BY <1>0, <2>1, EnsureKeeps, DropKeeps
  <2> QED BY <2>1, <2>2, <2>3, ProcessKeeps, SMT, ZenonT(20), SMTT(30)
<1>7. CASE RecorderStops
  <2>1. /\ rec' = [rec EXCEPT !.up = FALSE, !.inbox = [k \in Kinds |-> << >>]]
        /\ UNCHANGED <<finished, recQ, js, pg, month>>
    BY <1>7 DEF RecorderStops
  <2>2. /\ rec'.inbox \in [Kinds -> Seq(DOMAIN js.log)]
        /\ rec' = [up |-> rec'.up, running |-> rec'.running, ended |-> rec'.ended, inbox |-> rec'.inbox,
                   maintained |-> rec'.maintained]
    <3>1. rec'.inbox = [k \in Kinds |-> << >>]
      BY <1>0, <2>1
    <3>2. rec'.inbox \in [Kinds -> Seq(DOMAIN js.log)]
      BY <3>1
    <3>3. rec' = [up |-> rec'.up, running |-> rec'.running, ended |-> rec'.ended, inbox |-> rec'.inbox,
                  maintained |-> rec'.maintained]
      BY <1>0, <2>1, Zenon
    <3> QED BY <3>2, <3>3
  <2> QED BY <1>0, <2>1, <2>2, ProcessKeeps
<1>8. CASE PartitionMaintenance
  <2>1. /\ rec' = [rec EXCEPT !.maintained = TRUE] /\ UNCHANGED <<finished, recQ, js, month>>
        /\ \/ pg' = DropExpiredPartitions(EnsurePartitions(pg))
           \/ pg' = DropExpiredPartitions(pg)
           \/ pg' = EnsurePartitions(pg)
    BY <1>8 DEF PartitionMaintenance
  <2>2. /\ rec'.inbox = rec.inbox
        /\ rec' = [up |-> rec'.up, running |-> rec'.running, ended |-> rec'.ended, inbox |-> rec'.inbox,
                   maintained |-> rec'.maintained]
    BY <1>0, <2>1
  <2>3. pg' \in PgType /\ \A f \in Event : Stored(pg, month, f) => Stored(pg', month, f)
    BY <1>0, <2>1, EnsureKeeps, DropKeeps
  <2> QED BY <1>0, <2>1, <2>2, <2>3, ProcessKeeps
<1>9. CASE MonthPasses
  <2>1. /\ month < LastMonth /\ month' = month + 1 /\ rec' = [rec EXCEPT !.maintained = FALSE]
        /\ UNCHANGED <<finished, recQ, js, pg>>
    BY <1>9 DEF MonthPasses
  <2>2. month \in Months /\ month' \in Months
    BY <2>1, RecAssumption DEF RecInv, RecTypes, OmsSide, Months
  <2>3. OmsSide'
    BY <2>1, <2>2, Zenon DEF RecInv, RecTypes, OmsSide
  <2>4. /\ rec'.inbox = rec.inbox
        /\ rec' = [up |-> rec'.up, running |-> rec'.running, ended |-> rec'.ended, inbox |-> rec'.inbox,
                   maintained |-> rec'.maintained]
    BY <1>0, <2>1, Zenon
  <2>5. StreamSide'
    BY <1>0, <2>1, <2>4, Zenon DEF StreamSide
  <2>6. AckedIsStored'
    <3>1. \A i \in js.acked : js.log[i].at + RetentionMonths < month => js.log[i].at + RetentionMonths < month'
      <4> SUFFICES ASSUME NEW i \in js.acked, js.log[i].at + RetentionMonths < month
                   PROVE  js.log[i].at + RetentionMonths < month'
        OBVIOUS
      <4>1. js.log[i] \in Event
        BY DEF RecInv, RecTypes, StreamSide
      <4>2. js.log[i].at \in Months
        BY <4>1 DEF Event, OrderEvent, TradeEvent
      <4> QED BY <2>1, <2>2, <4>2, RecAssumption DEF Months
    <3> QED BY <2>1, <3>1, Zenon DEF RecInv, AckedIsStored, PastRetention
  <2> QED BY <2>1, <2>3, <2>5, <2>6, Zenon DEF RecInv, RecTypes
<1>10. CASE UNCHANGED RecVars
  BY <1>10, Zenon DEF RecVars, RecInv, RecTypes, OmsSide, StreamSide, AckedIsStored, PastRetention
<1> QED
  BY <1>2, <1>3, <1>4, <1>5, <1>6, <1>7, <1>8, <1>9, <1>10, ConsumerKeeps, WorkerKeeps DEF RecNext

(* What JetStream was told is stored is in PostgreSQL, for every set of    *)
(* orders and trades, every retention and any number of faults.            *)
THEOREM AcknowledgedStaysStored == RecSpec => []AckedIsStored
<1>1. RecInit => RecInv
  <2> SUFFICES ASSUME RecInit PROVE RecInv
    BY ZenonT(20)
  <2>1. month \in Months /\ 1 \in Months
    BY RecAssumption, SMT, ZenonT(20), SMTT(30) DEF RecInit, Months
  <2>2. PICK case \in RecCases :
          finished = [ver |-> [o \in RecOrders |-> 0], at |-> [o \in RecOrders |-> 1],
                      max |-> [o \in RecOrders |-> IF o \in case.orders THEN MaxVersions ELSE 0],
                      todo |-> case.trades]
    BY Zenon DEF RecInit
  <2>3. OmsSide
    <3>1. case.trades \subseteq RecTrades /\ MaxVersions \in Nat
      BY RecAssumption, SMT, ZenonT(20), SMTT(30)
    <3>2. finished \in [ver : [RecOrders -> Nat], at : [RecOrders -> Months],
                        max : [RecOrders -> Nat], todo : SUBSET RecTrades]
      BY <2>1, <2>2, <3>1
    <3>3. recQ \in Seq(Event)
      <4>1. recQ = << >>
        BY Zenon DEF RecInit
      <4> QED BY <4>1
    <3> QED BY <2>1, <3>2, <3>3, Zenon DEF OmsSide
  <2>4. StreamSide /\ js.acked = {}
    <3>1. /\ js = [log |-> << >>, acked |-> {}, waiting |-> {}]
          /\ rec = [up |-> FALSE, running |-> {}, ended |-> FALSE, inbox |-> [k \in Kinds |-> << >>],
                    maintained |-> FALSE]
      BY Zenon DEF RecInit
    <3>2. js \in [log : Seq(Event), acked : SUBSET DOMAIN js.log, waiting : SUBSET DOMAIN js.log]
      BY <3>1, SMT, ZenonT(20), SMTT(30)
    <3>3. rec.inbox \in [Kinds -> Seq(DOMAIN js.log)]
      BY <3>1, SMT, ZenonT(20), SMTT(30)
    <3>4. rec = [up |-> rec.up, running |-> rec.running, ended |-> rec.ended, inbox |-> rec.inbox,
                 maintained |-> rec.maintained]
      BY <3>1
    <3> QED BY <3>1, <3>2, <3>3, <3>4, Zenon DEF StreamSide
  <2>5. pg \in PgType
    <3>1. NoRow \in Row
      BY DEF NoRow, Row
    <3> QED BY <3>1, Zenon DEF RecInit, PgType
  <2> QED BY <2>3, <2>4, <2>5 DEF RecInv, RecTypes, AckedIsStored
<1>2. RecInv /\ [RecNext]_RecVars => RecInv'
  BY RecorderStep
<1>3. RecInv => AckedIsStored
  BY DEF RecInv
<1> QED BY <1>1, <1>2, <1>3, PTL DEF RecSpec

-----------------------------------------------------------------------------
(* The OKX gateway adapter.                                                *)

IsASeq(q) == q \in Seq({q[i] : i \in DOMAIN q})

(* The trades a queue of events reports.                                   *)
TradesIn(q) == {q[i].trade : i \in {j \in DOMAIN q : q[j].ev = "report"}}

(* The records' fields, and what the properties need of them.              *)
VenueShape(v) ==
  /\ v = [st |-> v.st, filled |-> v.filled, trades |-> v.trades, pos |-> v.pos, moves |-> v.moves]
  /\ DOMAIN v.st = OkxOrders /\ v.trades \in Seq(OkxOrders)

LinkShape(l) ==
  /\ l = [phase |-> l.phase, push |-> l.push, ready |-> l.ready, backoff |-> l.backoff,
          outages |-> l.outages, shut |-> l.shut]
  /\ l.phase \in {"connecting", "up", "orders", "trades", "account", "backoff", "exited"}
  /\ IsASeq(l.push)

PubShape(u) ==
  u = [trades |-> u.trades, again |-> u.again, linked |-> u.linked, rejected |-> u.rejected,
       cancelled |-> u.cancelled, held |-> u.held, lastFacts |-> u.lastFacts, unasked |-> u.unasked]

PipeShape(p) == p = [trades |-> p.trades, keys |-> p.keys]

OkTypes ==
  /\ VenueShape(okx) /\ LinkShape(link) /\ PubShape(okPub) /\ PipeShape(okPipe)
  /\ IsASeq(okWire) /\ DOMAIN rest = OkxOrders

(* Before connect() has succeeded no order is on its way or at the venue.  *)
NothingPlaced ==
  link.ready # "ok" => \A o \in OkxOrders : okx.st[o] = "none" /\ rest[o] \in {"idle", "unused"}

(* Only a session has pushes to read.                                      *)
PushesRead == link.phase \notin {"up", "exited"} => link.push = << >>

(* Every trade has been published, is under way, or nobody asked for it;   *)
(* during an outage, up to the trade query, it is still to be asked for.   *)
TradesAccounted ==
  link.phase \notin {"orders", "trades", "exited"} =>
     DOMAIN okx.trades \subseteq okPub.trades \cup okPub.unasked \cup TradesIn(okWire) \cup TradesIn(link.push)

OkInv ==
  /\ OkTypes /\ NothingPlaced /\ PushesRead /\ TradesAccounted
  /\ okPub.trades = okPipe.trades /\ okPub.again = {} /\ NoTrade \notin okPub.trades

(* Sequences: what the queues' operations leave, and which trades they hold. *)
LEMMA IsASeqIntro == ASSUME NEW S, NEW q \in Seq(S) PROVE IsASeq(q)
BY DEF IsASeq

LEMMA IsASeqLen ==
  ASSUME NEW q, IsASeq(q) PROVE Len(q) \in Nat /\ DOMAIN q = 1..Len(q)
BY DEF IsASeq

LEMMA AppendReports ==
  ASSUME NEW q, IsASeq(q), NEW m
  PROVE  /\ IsASeq(Append(q, m))
         /\ TradesIn(q) \subseteq TradesIn(Append(q, m))
         /\ m.ev = "report" => m.trade \in TradesIn(Append(q, m))
<1> DEFINE S == {q[i] : i \in DOMAIN q} \cup {m}
<1>1. q \in Seq(S)
  BY DEF IsASeq
<1> HIDE DEF S
<1>2. m \in S
  BY DEF S
<1>3. Append(q, m) \in Seq(S)
  BY <1>1, <1>2
<1>4. PICK a : a = Append(q, m)
  BY Zenon
<1>5. /\ Len(q) \in Nat /\ DOMAIN q = 1..Len(q) /\ DOMAIN a = 1..(Len(q) + 1)
      /\ \A i \in 1..Len(q) : a[i] = q[i]
      /\ a[Len(q) + 1] = m
  BY <1>1, <1>2, <1>4
<1>6. TradesIn(q) \subseteq TradesIn(a)
  BY <1>5 DEF TradesIn
<1>7. m.ev = "report" => m.trade \in TradesIn(a)
  BY <1>5 DEF TradesIn
<1> QED BY <1>3, <1>4, <1>6, <1>7, IsASeqIntro, Zenon

LEMMA ConcatReports ==
  ASSUME NEW q, IsASeq(q), NEW r, IsASeq(r)
  PROVE  /\ IsASeq(q \o r)
         /\ TradesIn(q) \subseteq TradesIn(q \o r)
         /\ TradesIn(r) \subseteq TradesIn(q \o r)
<1> DEFINE S == {q[i] : i \in DOMAIN q} \cup {r[i] : i \in DOMAIN r}
<1>1. q \in Seq(S) /\ r \in Seq(S)
  BY DEF IsASeq
<1> HIDE DEF S
<1>2. q \o r \in Seq(S)
  BY <1>1
<1>3. PICK a : a = q \o r
  BY Zenon
<1>4. /\ Len(q) \in Nat /\ DOMAIN q = 1..Len(q) /\ Len(r) \in Nat /\ DOMAIN r = 1..Len(r)
      /\ DOMAIN a = 1..(Len(q) + Len(r))
      /\ \A i \in 1..Len(q) : a[i] = q[i]
      /\ \A i \in 1..Len(r) : a[Len(q) + i] = r[i]
  BY <1>1, <1>3
<1>5. TradesIn(q) \subseteq TradesIn(a)
  BY <1>4 DEF TradesIn
<1>6. TradesIn(r) \subseteq TradesIn(a)
  <2>1. \A i \in 1..Len(r) : Len(q) + i \in 1..(Len(q) + Len(r))
    BY <1>4
  <2>2. QED
    BY <1>4, <2>1 DEF TradesIn
<1> QED BY <1>2, <1>3, <1>5, <1>6, IsASeqIntro, Zenon

LEMMA TailReports ==
  ASSUME NEW q, IsASeq(q), q # << >>
  PROVE  /\ IsASeq(Tail(q))
         /\ \A t \in TradesIn(q) : t \in TradesIn(Tail(q)) \/ (Head(q).ev = "report" /\ t = Head(q).trade)
<1> DEFINE S == {q[i] : i \in DOMAIN q}
<1>1. q \in Seq(S)
  BY DEF IsASeq
<1> HIDE DEF S
<1>2. Tail(q) \in Seq(S)
  BY <1>1
<1>3. PICK a : a = Tail(q)
  BY Zenon
<1>4. /\ Len(q) \in Nat /\ DOMAIN q = 1..Len(q) /\ DOMAIN a = 1..(Len(q) - 1)
      /\ \A i \in 1..(Len(q) - 1) : a[i] = q[i + 1]
      /\ Head(q) = q[1]
  BY <1>1, <1>3
<1>5. ASSUME NEW t \in TradesIn(q), ~ (q[1].ev = "report" /\ t = q[1].trade)
      PROVE  t \in TradesIn(a)
  <2>1. PICK i \in DOMAIN q : q[i].ev = "report" /\ q[i].trade = t
    BY DEF TradesIn
  <2>2. i # 1 /\ i - 1 \in DOMAIN a /\ a[i - 1] = q[i]
    BY <1>4, <1>5, <2>1
  <2>3. QED
    BY <2>1, <2>2 DEF TradesIn
<1> QED BY <1>2, <1>3, <1>4, <1>5, IsASeqIntro, Zenon

LEMMA EmptyReports == IsASeq(<< >>) /\ TradesIn(<< >>) = {} /\ \A m : IsASeq(<<m>>)
<1>1. IsASeq(<< >>)
  BY DEF IsASeq
<1>2. TradesIn(<< >>) = {}
  BY DEF TradesIn
<1>3. ASSUME NEW m PROVE IsASeq(<<m>>)
  <2>1. <<m>> \in Seq({m})
    OBVIOUS
  <2> QED BY <2>1, IsASeqIntro, Zenon
<1> QED BY <1>1, <1>2, <1>3

(* A step of the venue or of a REST call: at most one push, no event.      *)
LEMMA NewsStep ==
  ASSUME OkInv, NEW msg,
         link' = link \/ (Subscribed /\ link' = [link EXCEPT !.push = Append(@, msg)]),
         VenueShape(okx'), DOMAIN rest' = OkxOrders, okWire' = okWire, okPipe' = okPipe,
         PubShape(okPub'), okPub'.trades = okPub.trades, okPub'.again = okPub.again,
         okPub.unasked \subseteq okPub'.unasked,
         link.ready = "ok" \/ (okx'.st = okx.st /\ rest' = rest),
         \A t \in DOMAIN okx'.trades :
            \/ t \in DOMAIN okx.trades \cup okPub'.unasked \cup TradesIn(link'.push)
            \/ link.phase \in {"orders", "trades", "exited"}
  PROVE  OkInv'
<1>1. /\ LinkShape(link') /\ TradesIn(link.push) \subseteq TradesIn(link'.push)
      /\ link'.phase = link.phase /\ link'.ready = link.ready
      /\ link' = link \/ link.phase = "up"
  <2>1. CASE link' = link
    BY <2>1 DEF OkInv, OkTypes
  <2>2. CASE Subscribed /\ link' = [link EXCEPT !.push = Append(@, msg)]
    <3>1. /\ link'.phase = link.phase /\ link'.ready = link.ready /\ link'.push = Append(link.push, msg)
          /\ link' = [phase |-> link'.phase, push |-> link'.push, ready |-> link'.ready,
                      backoff |-> link'.backoff, outages |-> link'.outages, shut |-> link'.shut]
      BY <2>2, Zenon DEF OkInv, OkTypes, LinkShape
    <3>2. IsASeq(link.push)
      BY DEF OkInv, OkTypes, LinkShape
    <3>3. /\ IsASeq(Append(link.push, msg))
          /\ TradesIn(link.push) \subseteq TradesIn(Append(link.push, msg))
      BY <3>2, AppendReports, Zenon
    <3>4. QED
      BY <2>2, <3>1, <3>3 DEF LinkShape, Subscribed
  <2>3. QED
    BY <2>1, <2>2
<1>2. OkTypes'
  BY <1>1 DEF OkInv, OkTypes
<1>3. NothingPlaced' /\ PushesRead'
  BY <1>1 DEF OkInv, NothingPlaced, PushesRead
<1>4. TradesAccounted'
  BY <1>1, ZenonT(20) DEF OkInv, TradesAccounted
<1> QED BY <1>2, <1>3, <1>4 DEF OkInv

(* A step of the supervisor: events in order, after those under way.       *)
LEMMA LinkStep ==
  ASSUME OkInv, NEW evs, IsASeq(evs), okWire' = okWire \o evs, LinkShape(link'),
         UNCHANGED <<okx, rest, okPipe>>, PubShape(okPub'),
         okPub'.trades = okPub.trades, okPub'.again = okPub.again, okPub.unasked \subseteq okPub'.unasked,
         link.ready = "ok" => link'.ready = "ok",
         link'.phase \notin {"up", "exited"} => link'.push = << >>,
         link'.phase \notin {"orders", "trades", "exited"} =>
            \/ /\ link.phase \notin {"orders", "trades", "exited"}
               /\ \A t \in TradesIn(link.push) : t \in TradesIn(link'.push) \cup TradesIn(okWire')
            \/ \A t \in DOMAIN okx.trades : t \in TradesIn(okWire') \cup okPub'.unasked \cup okPub.trades
  PROVE  OkInv'
<1>1. IsASeq(okWire)
  BY Zenon DEF OkInv, OkTypes
<1>2. IsASeq(okWire') /\ TradesIn(okWire) \subseteq TradesIn(okWire')
  BY <1>1, ConcatReports, Zenon
<1>3. OkTypes'
  BY <1>2, ZenonT(30) DEF OkInv, OkTypes
<1>4. NothingPlaced' /\ PushesRead'
  BY ZenonT(20) DEF OkInv, NothingPlaced, PushesRead
<1>5. TradesAccounted'
  BY <1>2, ZenonT(30) DEF OkInv, TradesAccounted
<1> QED BY <1>3, <1>4, <1>5 DEF OkInv

(* A step of a REST call that the venue does not push.                     *)
LEMMA CallStep ==
  ASSUME OkInv, UNCHANGED <<okx, link, okWire, okPipe>>, NEW o \in OkxOrders, NEW st,
         rest' = rest \/ (rest' = [rest EXCEPT ![o] = st] /\ link.ready = "ok"),
         PubShape(okPub'), okPub'.trades = okPub.trades, okPub'.again = okPub.again,
         okPub'.unasked = okPub.unasked
  PROVE  OkInv'
<1>1. OkTypes'
  BY DEF OkInv, OkTypes
<1>2. NothingPlaced' /\ PushesRead' /\ TradesAccounted'
  BY SMT, ZenonT(20), SMTT(30) DEF OkInv, NothingPlaced, PushesRead, TradesAccounted
<1> QED BY <1>1, <1>2 DEF OkInv

(* A call under way was made after connect() had succeeded.                *)
LEMMA CalledReady ==
  ASSUME OkInv, NEW o \in OkxOrders, rest[o] \notin {"idle", "unused"} \/ okx.st[o] # "none"
  PROVE  link.ready = "ok"
BY DEF OkInv, NothingPlaced

LEMMA CallSteps ==
  ASSUME OkInv, NEW o \in OkxOrders,
         OkPlace(o) \/ VenueRefuses(o) \/ RestAnswers(o) \/ RestTimesOut(o)
  PROVE  OkInv'
<1>1. PubShape(okPub)
  BY DEF OkInv, OkTypes
<1>2. CASE OkPlace(o)
  BY <1>1, <1>2, CallStep, Zenon DEF OkPlace
<1>3. CASE VenueRefuses(o)
  <2>1. link.ready = "ok"
    BY <1>3, CalledReady DEF VenueRefuses
  <2>2. QED
    BY <1>1, <1>3, <2>1, CallStep DEF VenueRefuses
<1>4. ASSUME okPub' = OkReject(okPub, o)
      PROVE  /\ PubShape(okPub') /\ okPub'.trades = okPub.trades /\ okPub'.again = okPub.again
             /\ okPub'.unasked = okPub.unasked
  BY <1>1, <1>4, SMT, ZenonT(20), SMTT(30) DEF OkReject, PubShape
<1>5. CASE RestAnswers(o)
  <2>1. link.ready = "ok"
    BY <1>5, CalledReady, ZenonT(30) DEF RestAnswers, Refused
  <2>2. CASE okPub' = okPub
    BY <1>1, <1>5, <2>1, <2>2, CallStep DEF RestAnswers
  <2>3. CASE okPub' = OkReject(okPub, o)
    <3>1. UNCHANGED <<okx, link, okWire, okPipe>> /\ \E x : rest' = [rest EXCEPT ![o] = x]
      BY <1>5 DEF RestAnswers
    <3>2. QED
      BY <1>4, <2>1, <2>3, <3>1, CallStep, Zenon
  <2>4. QED
    BY <1>5, <2>2, <2>3 DEF RestAnswers
<1>6. CASE RestTimesOut(o)
  <2>1. link.ready = "ok"
    BY <1>6, CalledReady, Zenon DEF RestTimesOut
  <2>2. QED
    BY <1>4, <1>6, <2>1, CallStep, Zenon DEF RestTimesOut
<1> QED BY <1>2, <1>3, <1>5, <1>6

(* The venue takes, cancels and fills orders and moves positions.          *)
LEMMA VenueSteps ==
  ASSUME OkInv, NEW o \in OkxOrders, VenueTakes(o) \/ OkCancel(o)
  PROVE  OkInv'
<1>1. PubShape(okPub) /\ VenueShape(okx) /\ DOMAIN rest = OkxOrders
  BY Zenon DEF OkInv, OkTypes
<1>2. ASSUME NEW x, okx' = [okx EXCEPT !.st[o] = x]
      PROVE  VenueShape(okx') /\ okx'.trades = okx.trades
  BY <1>1, <1>2 DEF VenueShape
<1>3. CASE VenueTakes(o)
  <2>1. link.ready = "ok"
    BY <1>3, CalledReady DEF VenueTakes
  <2>2. /\ VenueShape(okx') /\ okx'.trades = okx.trades /\ DOMAIN rest' = OkxOrders
        /\ okWire' = okWire /\ okPipe' = okPipe /\ okPub' = okPub
    BY <1>1, <1>2, <1>3 DEF VenueTakes
  <2>3. PICK msg : link' = link \/ (Subscribed /\ link' = [link EXCEPT !.push = Append(@, msg)])
    BY <1>3, Zenon DEF VenueTakes, Push
  <2>4. QED
    BY <1>1, <2>1, <2>2, <2>3, NewsStep
<1>4. CASE OkCancel(o)
  <2>1. /\ PubShape(okPub') /\ okPub'.trades = okPub.trades /\ okPub'.again = okPub.again
        /\ okPub'.unasked = okPub.unasked
        /\ okWire' = okWire /\ okPipe' = okPipe /\ rest' = rest
    BY <1>1, <1>4 DEF OkCancel, PubShape
  <2>2. CASE UNCHANGED <<okx, link>>
    BY <2>1, <2>2, CallStep, Zenon
  <2>3. CASE ~ UNCHANGED <<okx, link>>
    <3>1. okx.st[o] = "live" /\ okx' = [okx EXCEPT !.st[o] = "canceled"]
      BY <1>4, <2>3 DEF OkCancel
    <3>2. link.ready = "ok"
      BY <3>1, CalledReady
    <3>3. PICK msg : link' = link \/ (Subscribed /\ link' = [link EXCEPT !.push = Append(@, msg)])
      BY <1>4, <2>3, Zenon DEF OkCancel, Push
    <3>4. VenueShape(okx') /\ okx'.trades = okx.trades
      BY <1>2, <3>1
    <3>5. QED
      BY <1>1, <2>1, <3>2, <3>3, <3>4, NewsStep, Zenon
  <2>4. QED
    BY <2>2, <2>3
<1> QED BY <1>3, <1>4

LEMMA MoveStep ==
  ASSUME OkInv, NEW i \in OkxInstruments, VenueMoves(i)
  PROVE  OkInv'
<1>1. PubShape(okPub) /\ VenueShape(okx) /\ DOMAIN rest = OkxOrders
  BY DEF OkInv, OkTypes
<1>2. PICK n, s : okx' = [okx EXCEPT !.moves = n, !.pos = s]
  BY Zenon DEF VenueMoves
<1>3. VenueShape(okx') /\ okx'.trades = okx.trades /\ okx'.st = okx.st
  BY <1>1, <1>2, Zenon DEF VenueShape
<1>4. PICK msg : link' = link \/ (Subscribed /\ link' = [link EXCEPT !.push = Append(@, msg)])
  BY Zenon DEF VenueMoves, Push
<1>5. okWire' = okWire /\ okPipe' = okPipe /\ okPub' = okPub /\ rest' = rest
  BY DEF VenueMoves
<1> QED BY <1>1, <1>3, <1>4, <1>5, NewsStep

LEMMA FillStep ==
  ASSUME OkInv, NEW o \in OkxOrders, VenueFills(o)
  PROVE  OkInv'
<1>1. PubShape(okPub) /\ VenueShape(okx) /\ DOMAIN rest = OkxOrders /\ LinkShape(link)
  BY Zenon DEF OkInv, OkTypes
<1>2. link.ready = "ok"
  BY CalledReady DEF VenueFills
<1> DEFINE v == [okx EXCEPT !.filled[o] = @ + 1, !.trades = Append(@, o),
                            !.st[o] = IF okx.filled[o] + 1 = OkxQty THEN "filled" ELSE @]
<1>3. /\ okx' = v /\ Push(OkReport(o, OkStatus(v, o), Len(v.trades)))
      /\ okPub' = IF link.phase \in {"account", "backoff", "connecting"} /\ link.ready = "ok"
                  THEN [okPub EXCEPT !.unasked = @ \cup {Len(v.trades)}] ELSE okPub
      /\ okWire' = okWire /\ okPipe' = okPipe /\ rest' = rest
  BY ZenonT(20) DEF VenueFills
<1>0. VenueShape(v) /\ v.trades = Append(okx.trades, o)
  <2>1. PICK x, y, z : /\ x = [okx.st EXCEPT ![o] = IF okx.filled[o] + 1 = OkxQty THEN "filled" ELSE @]
                       /\ y = [okx.filled EXCEPT ![o] = @ + 1] /\ z = Append(okx.trades, o)
    BY Zenon
  <2>2. okx.trades \in Seq(OkxOrders) /\ DOMAIN okx.st = OkxOrders
    BY <1>1 DEF VenueShape
  <2>3. z \in Seq(OkxOrders) /\ DOMAIN x = OkxOrders
    BY <2>1, <2>2
  <2>4. okx = [st |-> okx.st, filled |-> okx.filled, trades |-> okx.trades, pos |-> okx.pos,
               moves |-> okx.moves]
    BY <1>1, Zenon DEF VenueShape
  <2>5. v = [okx EXCEPT !.filled = y, !.trades = z, !.st = x]
    BY <2>1, <2>4
  <2> HIDE DEF v
  <2>6. v = [st |-> x, filled |-> y, trades |-> z, pos |-> okx.pos, moves |-> okx.moves]
    BY <2>4, <2>5, Zenon
  <2>7. QED
    BY <2>1, <2>3, <2>6, Zenon DEF VenueShape
<1> HIDE DEF v
<1>4. VenueShape(okx') /\ okx'.trades = Append(okx.trades, o)
  BY <1>0, <1>3
<1>5. okx.trades \in Seq(OkxOrders)
  BY <1>1 DEF VenueShape
<1>6. PICK t : /\ t = Len(okx'.trades)
               /\ \A u \in DOMAIN okx'.trades : u \in DOMAIN okx.trades \/ u = t
  BY <1>4, <1>5
<1>7. PICK msg : /\ msg.ev = "report" /\ msg.trade = t
                 /\ link' = IF Subscribed THEN [link EXCEPT !.push = Append(@, msg)] ELSE link
  BY <1>3, <1>6, Zenon DEF Push, OkReport
<1>8. Subscribed => t \in TradesIn(link'.push)
  <2>1. IsASeq(link.push)
    BY <1>1 DEF LinkShape
  <2>2. t \in TradesIn(Append(link.push, msg))
    BY <1>7, <2>1, AppendReports
  <2>3. QED
    BY <1>1, <1>7, <2>2 DEF LinkShape
<1>9. /\ PubShape(okPub') /\ okPub'.trades = okPub.trades /\ okPub'.again = okPub.again
      /\ okPub.unasked \subseteq okPub'.unasked
      /\ link.phase \in {"account", "backoff", "connecting"} => t \in okPub'.unasked
  BY <1>1, <1>2, <1>3, <1>6, Zenon DEF PubShape
<1>10. t \in okPub'.unasked \cup TradesIn(link'.push) \/ link.phase \in {"orders", "trades", "exited"}
  BY <1>1, <1>8, <1>9 DEF Subscribed, LinkShape
<1> QED BY <1>1, <1>2, <1>3, <1>4, <1>6, <1>7, <1>9, <1>10, NewsStep, Zenon

LEMMA SessionSteps ==
  ASSUME OkInv, ConnectFails \/ SessionDrops \/ SessionUp \/ ReadPush \/ Reconnect \/ OkShutdown
  PROVE  OkInv'
<1>1. PubShape(okPub) /\ LinkShape(link) /\ IsASeq(okWire) /\ IsASeq(link.push)
  BY DEF OkInv, OkTypes, LinkShape
<1>2. PushesRead /\ okWire \o << >> = okWire
  BY <1>1 DEF OkInv, IsASeq
<1>3. ASSUME NEW b, SessionFailed(b), link.phase = "connecting" \/ b = TRUE PROVE OkInv'
  <2>1. CASE ~b /\ link.ready = "waiting"
    <3>1. /\ LinkShape(link') /\ link'.phase = "exited"
          /\ UNCHANGED <<okx, rest, okPipe, okPub>> /\ okWire' = okWire \o << >>
      BY <1>1, <1>2, <1>3, <2>1, Zenon DEF SessionFailed, LinkShape
    <3>2. QED
      BY <1>1, <2>1, <3>1, EmptyReports, LinkStep, Zenon
  <2>2. CASE ~(~b /\ link.ready = "waiting")
    <3>1. PICK n, k : link' = [link EXCEPT !.phase = "orders", !.push = << >>, !.outages = n, !.backoff = k]
      BY <1>3, <2>2, Zenon DEF SessionFailed
    <3>2. /\ LinkShape(link') /\ link'.phase = "orders" /\ link'.push = << >> /\ link'.ready = link.ready
      BY <1>1, <3>1, EmptyReports, Zenon DEF LinkShape
    <3>3. /\ UNCHANGED <<okx, rest, okPipe, okPub>> /\ okWire' = okWire \o <<OkSystem("disconnected")>>
      BY <1>3, <2>2 DEF SessionFailed, Emit
    <3>4. QED
      BY <1>1, <3>2, <3>3, EmptyReports, LinkStep, Zenon
  <2>3. QED
    BY <2>1, <2>2
<1>4. CASE ConnectFails \/ SessionDrops
  BY <1>3, <1>4, Zenon DEF ConnectFails, SessionDrops
<1>5. CASE SessionUp
  <2>1. /\ LinkShape(link') /\ link.phase = "connecting" /\ link'.phase = "up" /\ link'.push = link.push
        /\ link'.ready = "ok"
    BY <1>1, <1>5 DEF SessionUp, LinkShape
  <2>2. /\ UNCHANGED <<okx, rest, okPipe, okPub>> /\ okWire' = okWire \o <<OkSystem("connected")>>
    BY <1>5 DEF SessionUp, Emit
  <2>3. QED
    BY <1>1, <2>1, <2>2, EmptyReports, LinkStep, Zenon
<1>6. CASE ReadPush
  <2>1. PICK msg, t : msg = Head(link.push) /\ t = Tail(link.push)
    BY Zenon
  <2>2. /\ link.phase = "up" /\ link.push # << >> /\ link' = [link EXCEPT !.push = t]
        /\ okWire' = okWire \o <<msg>> /\ UNCHANGED <<okx, rest, okPipe, okPub>>
    BY <1>6, <2>1 DEF ReadPush, Emit, Subscribed
  <2>3. IsASeq(t) /\ \A u \in TradesIn(link.push) : u \in TradesIn(t) \/ (msg.ev = "report" /\ u = msg.trade)
    BY <1>1, <2>1, <2>2, TailReports
  <2>4. LinkShape(link') /\ link'.phase = "up" /\ link'.push = t /\ link'.ready = link.ready
    BY <1>1, <2>2, <2>3 DEF LinkShape
  <2>5. okWire' = Append(okWire, msg)
    BY <1>1, <2>2 DEF IsASeq
  <2>6. msg.ev = "report" => msg.trade \in TradesIn(okWire')
    BY <1>1, <2>5, AppendReports
  <2>7. IsASeq(<<msg>>)
    BY EmptyReports
  <2>8. QED
    BY <1>1, <2>2, <2>3, <2>4, <2>6, <2>7, LinkStep, Zenon
<1>7. CASE Reconnect
  <2>1. PICK k : link' = [link EXCEPT !.phase = "connecting", !.backoff = k]
    BY <1>7, Zenon DEF Reconnect
  <2>2. /\ LinkShape(link') /\ link.phase = "backoff" /\ link'.phase = "connecting"
        /\ link'.push = link.push /\ link'.ready = link.ready
    BY <1>1, <1>7, <2>1, Zenon DEF Reconnect, LinkShape
  <2>3. link'.push = << >> /\ UNCHANGED <<okx, rest, okPipe, okPub>> /\ okWire' = okWire \o << >>
    BY <1>2, <1>7, <2>2 DEF Reconnect, PushesRead
  <2>4. QED
    BY <1>1, <2>2, <2>3, EmptyReports, LinkStep, Zenon
<1>8. CASE OkShutdown
  <2>1. LinkShape(link') /\ link'.phase = "exited" /\ (link.ready = "ok" => link'.ready = "ok")
    BY <1>1, <1>8, Zenon DEF OkShutdown, LinkShape
  <2>2. UNCHANGED <<okx, rest, okPipe, okPub>> /\ okWire' = okWire \o << >>
    BY <1>2, <1>8 DEF OkShutdown
  <2>3. QED
    BY <1>1, <2>1, <2>2, EmptyReports, LinkStep, Zenon
<1> QED BY <1>4, <1>5, <1>6, <1>7, <1>8

LEMMA ReportFields ==
  ASSUME NEW o, NEW s, NEW t PROVE OkReport(o, s, t).ev = "report" /\ OkReport(o, s, t).trade = t
BY DEF OkReport

(* The answers to the compensating queries.                                *)
LEMMA QueryAnswers ==
  ASSUME OkInv
  PROVE  /\ \A r \in OpenOrderReports : IsASeq(r)
         /\ IsASeq(HeldPositions)
         /\ IsASeq(TradeReports) /\ DOMAIN okx.trades \subseteq TradesIn(TradeReports)
<1>1. ASSUME NEW r \in OpenOrderReports PROVE IsASeq(r)
  <2>1. IsFiniteSet(OpenAtVenue)
    BY OkAssumption, FS_Subset DEF OpenAtVenue
  <2>2. PICK n \in Nat : n = Cardinality(OpenAtVenue)
    BY <2>1, FS_CardinalityType, SMT, ZenonT(20), SMTT(30)
  <2>3. PICK open : r = [i \in DOMAIN open |-> OkReport(open[i], OkStatus(okx, open[i]), NoTrade)]
                    /\ DOMAIN open = 1..n
    BY <1>1, <2>2 DEF OpenOrderReports
  <2>4. QED
    BY <2>3 DEF IsASeq
<1>2. IsASeq(HeldPositions)
  BY EmptyReports DEF HeldPositions
<1>3. okx.trades \in Seq(OkxOrders)
  BY DEF OkInv, OkTypes, VenueShape
<1>4. Len(okx.trades) \in Nat /\ DOMAIN okx.trades = 1..Len(okx.trades)
  BY <1>3
<1>5. PICK r : /\ r = TradeReports /\ DOMAIN r = 1..Len(okx.trades)
               /\ \A t \in 1..Len(okx.trades) : r[t].ev = "report" /\ r[t].trade = t
  <2>1. DOMAIN TradeReports = 1..Len(okx.trades)
    BY DEF TradeReports
  <2>2. ASSUME NEW t \in 1..Len(okx.trades) PROVE TradeReports[t].ev = "report" /\ TradeReports[t].trade = t
    <3>1. TradeReports[t] = OkReport(okx.trades[t], NoStatus, t)
      BY DEF TradeReports
    <3>2. PICK o : o = okx.trades[t]
      OBVIOUS
    <3>3. OkReport(o, NoStatus, t).ev = "report" /\ OkReport(o, NoStatus, t).trade = t
      BY ReportFields
    <3>4. QED
      BY <3>1, <3>2, <3>3
  <2>3. QED
    BY <2>1, <2>2, Zenon
<1>6. IsASeq(TradeReports)
  <2>1. TradeReports \in Seq({TradeReports[t] : t \in 1..Len(okx.trades)})
    BY <1>4 DEF TradeReports
  <2>2. QED
    BY <2>1, IsASeqIntro
<1>7. DOMAIN okx.trades \subseteq TradesIn(r)
  BY <1>4, <1>5 DEF TradesIn
<1> QED BY <1>1, <1>2, <1>5, <1>6, <1>7

LEMMA QuerySteps ==
  ASSUME OkInv, QueryOpenOrders \/ QueryTrades \/ QueryAccount \/ CompensatingQueryFails
  PROVE  OkInv'
<1>1. PubShape(okPub) /\ LinkShape(link) /\ IsASeq(okWire) /\ VenueShape(okx)
  BY DEF OkInv, OkTypes
<1>2. okWire \o << >> = okWire
  BY <1>1 DEF IsASeq
<1>3. ASSUME NEW from \in {"orders", "trades", "account"}, NEW to \in {"trades", "account", "backoff"},
             Compensate(from, to)
      PROVE  /\ LinkShape(link') /\ link.phase = from /\ link'.phase = to /\ link'.push = << >>
             /\ link.push = << >> /\ link'.ready = link.ready
  BY <1>1, <1>3 DEF Compensate, LinkShape, OkInv, PushesRead
<1>4. CASE QueryOpenOrders
  <2>1. /\ LinkShape(link') /\ link'.phase = "trades" /\ link'.push = << >> /\ link'.ready = link.ready
    BY <1>3, <1>4 DEF QueryOpenOrders
  <2>2. /\ UNCHANGED <<okx, rest, okPipe, okPub>>
        /\ \E r \in OpenOrderReports : okWire' = okWire \o r
    BY <1>4 DEF QueryOpenOrders, Emit
  <2>3. QED
    BY <1>1, <2>1, <2>2, QueryAnswers, LinkStep, ZenonT(30)
<1>5. CASE QueryTrades
  <2>1. /\ LinkShape(link') /\ link'.phase = "account" /\ link'.push = << >> /\ link'.ready = link.ready
    BY <1>3, <1>5 DEF QueryTrades
  <2>2. UNCHANGED <<okx, rest, okPipe, okPub>> /\ okWire' = okWire \o TradeReports
    BY <1>5, Zenon DEF QueryTrades, Emit
  <2>3. DOMAIN okx.trades \subseteq TradesIn(okWire')
    BY <1>1, <2>2, QueryAnswers, ConcatReports
  <2>4. QED
    BY <1>1, <2>1, <2>2, <2>3, QueryAnswers, LinkStep, Zenon
<1>6. CASE QueryAccount
  <2>1. /\ LinkShape(link') /\ link.phase = "account" /\ link'.phase = "backoff" /\ link'.push = << >>
        /\ link.push = << >> /\ link'.ready = link.ready
    BY <1>3, <1>6, Zenon DEF QueryAccount
  <2>2. UNCHANGED <<okx, rest, okPipe, okPub>> /\ okWire' = okWire \o HeldPositions
    BY <1>6 DEF QueryAccount, Emit
  <2>3. QED
    BY <1>1, <2>1, <2>2, QueryAnswers, LinkStep, ZenonT(30)
<1>7. CASE CompensatingQueryFails
  <2>1. UNCHANGED <<okx, rest, okPipe>> /\ okWire' = okWire \o << >>
    BY <1>2, <1>7 DEF CompensatingQueryFails
  <2>2. CASE Compensate("orders", "trades") /\ okPub' = okPub
    <3>1. LinkShape(link') /\ link'.phase = "trades" /\ link'.push = << >> /\ link'.ready = link.ready
      BY <1>3, <2>2
    <3>2. QED
      BY <1>1, <2>1, <2>2, <3>1, EmptyReports, LinkStep, Zenon
  <2>3. CASE Compensate("account", "backoff") /\ okPub' = okPub
    <3>1. /\ LinkShape(link') /\ link.phase = "account" /\ link'.phase = "backoff" /\ link'.push = << >>
          /\ link.push = << >> /\ link'.ready = link.ready
      BY <1>3, <2>3
    <3>2. QED
      BY <1>1, <2>1, <2>3, <3>1, EmptyReports, LinkStep, Zenon
  <2>4. CASE /\ Compensate("trades", "account")
             /\ okPub' = [okPub EXCEPT !.unasked = @ \cup (DOMAIN okx.trades \ KnownTrades)]
    <3>1. LinkShape(link') /\ link'.phase = "account" /\ link'.push = << >> /\ link'.ready = link.ready
      BY <1>3, <2>4
    <3>2. /\ PubShape(okPub') /\ okPub'.trades = okPub.trades /\ okPub'.again = okPub.again
          /\ okPub'.unasked = okPub.unasked \cup (DOMAIN okx.trades \ KnownTrades)
      BY <1>1, <2>4 DEF PubShape
    <3>3. KnownTrades \subseteq okPub.trades \cup TradesIn(okWire)
      BY DEF KnownTrades, TradesIn
    <3>4. okWire' = okWire
      BY <1>2, <2>1
    <3>5. \A t \in DOMAIN okx.trades : t \in TradesIn(okWire') \cup okPub'.unasked \cup okPub.trades
      BY <3>2, <3>3, <3>4
    <3>6. QED
      BY <1>1, <2>1, <3>1, <3>2, <3>5, EmptyReports, LinkStep, Zenon
  <2>5. QED
    BY <1>7, <2>2, <2>3, <2>4 DEF CompensatingQueryFails
<1> QED BY <1>4, <1>5, <1>6, <1>7

(* The pipeline publishes a trade it has not published, and no other.      *)
LEMMA LoopStep ==
  ASSUME OkInv, OkEventLoop
  PROVE  OkInv'
<1>1. /\ PubShape(okPub) /\ PipeShape(okPipe) /\ IsASeq(okWire) /\ okPub.trades = okPipe.trades
      /\ okPub.again = {} /\ NoTrade \notin okPub.trades
  BY Zenon DEF OkInv, OkTypes
<1>2. PICK e, t : e = Head(okWire) /\ t = Tail(okWire)
  BY Zenon
<1>3. /\ okWire # << >> /\ okWire' = t /\ UNCHANGED <<okx, link, rest>>
      /\ \/ /\ e.ev = "report" /\ okPipe' = Deduped(okPipe, e).pipe
            /\ okPub' = OkPublish(okPub, Deduped(okPipe, e).report)
         \/ /\ e.ev = "position" /\ okPipe' = TrackPositions(okPipe, e.held)
            /\ okPub' = PublishPositions(okPub, okPipe, e.held)
         \/ e.ev = "system" /\ okPipe' = okPipe /\ okPub' = okPub
  BY <1>2, Zenon DEF OkEventLoop
<1>4. IsASeq(t) /\ \A u \in TradesIn(okWire) : u \in TradesIn(t) \/ (e.ev = "report" /\ u = e.trade)
  BY <1>1, <1>2, <1>3, TailReports, Zenon
<1>5. /\ PubShape(okPub') /\ PipeShape(okPipe') /\ okPub'.trades = okPipe'.trades
      /\ okPub'.again = {} /\ NoTrade \notin okPub'.trades /\ okPub'.unasked = okPub.unasked
      /\ okPub.trades \subseteq okPub'.trades
      /\ (e.ev = "report" /\ e.trade # NoTrade) => e.trade \in okPub'.trades
  <2>1. CASE e.ev = "report"
    <3>1. PICK d : d = Deduped(okPipe, e)
      BY Zenon
    <3>2. PICK r : r = d.report
      BY Zenon
    <3>3. okPipe' = d.pipe /\ okPub' = OkPublish(okPub, r)
      BY <1>3, <2>1, <3>1, <3>2
    <3>4. okPub' = [okPub EXCEPT !.linked = @ \cup {r.id},
                      !.again = IF r.trade \in okPub.trades THEN @ \cup {r.trade} ELSE @,
                      !.trades = IF r.trade = NoTrade THEN @ ELSE @ \cup {r.trade}]
      BY <3>3 DEF OkPublish
    <3>5. PubShape(okPub') /\ okPub'.unasked = okPub.unasked
      BY <1>1, <3>4, Zenon DEF PubShape
    <3>6. /\ okPub'.again = IF r.trade \in okPub.trades THEN {r.trade} ELSE {}
          /\ okPub'.trades = IF r.trade = NoTrade THEN okPub.trades ELSE okPub.trades \cup {r.trade}
      BY <1>1, <3>4 DEF PubShape
    <3>7. CASE e.trade # NoTrade /\ e.trade \in okPub.trades
      <4>1. r = [e EXCEPT !.trade = NoTrade] /\ okPipe' = okPipe
        BY <1>1, <3>1, <3>2, <3>3, <3>7 DEF Deduped
      <4>2. r.trade = NoTrade
        BY <4>1
      <4>3. QED
        BY <1>1, <3>5, <3>6, <3>7, <4>1, <4>2
    <3>8. CASE e.trade = NoTrade \/ e.trade \notin okPub.trades
      <4>1. r = e /\ okPipe' = IF e.trade = NoTrade THEN okPipe ELSE [okPipe EXCEPT !.trades = @ \cup {e.trade}]
        BY <1>1, <3>1, <3>2, <3>3, <3>8 DEF Deduped
      <4>2. /\ PipeShape(okPipe')
            /\ okPipe'.trades = IF e.trade = NoTrade THEN okPipe.trades ELSE okPipe.trades \cup {e.trade}
        BY <1>1, <4>1 DEF PipeShape
      <4>3. QED
        BY <1>1, <3>5, <3>6, <3>8, <4>1, <4>2
    <3>9. QED
      BY <3>7, <3>8, Zenon
  <2>2. CASE e.ev = "position"
    BY <1>1, <1>3, <2>2, Zenon DEF TrackPositions, PublishPositions, PubShape, PipeShape
  <2>3. CASE e.ev = "system"
    BY <1>1, <1>3, <2>3, Zenon
  <2>4. QED
    BY <1>3, <2>1, <2>2, <2>3, Zenon
<1>6. OkTypes' /\ NothingPlaced' /\ PushesRead'
  BY <1>3, <1>4, <1>5, ZenonT(30) DEF OkInv, OkTypes, NothingPlaced, PushesRead
<1>7. NoTrade \notin DOMAIN okx.trades
  BY DEF OkInv, OkTypes, VenueShape, NoTrade
<1>8. TradesAccounted'
  BY <1>3, <1>4, <1>5, <1>7, Zenon DEF OkInv, TradesAccounted
<1> QED BY <1>5, <1>6, <1>8 DEF OkInv

(***************************************************************************)
(* Whatever outages, lost answers and failed queries, a trade the venue    *)
(* reports twice is published once, and when a session is up and quiet     *)
(* every trade has been published except those nobody asked for.           *)
(***************************************************************************)
THEOREM OutageTradesRecovered == OkSpec => []OkTradesRecovered
<1>1. OkInit => OkInv
  <2> SUFFICES ASSUME OkInit PROVE OkInv
    OBVIOUS
  <2>1. PICK case \in OkxCases :
          /\ okx = [st |-> [o \in OkxOrders |-> "none"], filled |-> [o \in OkxOrders |-> 0],
                    trades |-> << >>, pos |-> {}, moves |-> case.moves]
          /\ rest = [o \in OkxOrders |-> IF o \in case.place THEN "idle" ELSE "unused"]
    BY Zenon DEF OkInit
  <2>2. VenueShape(okx) /\ DOMAIN rest = OkxOrders /\ okx.trades = << >> /\ NothingPlaced
    BY <2>1 DEF VenueShape, NothingPlaced
  <2>3. /\ LinkShape(link) /\ PubShape(okPub) /\ PipeShape(okPipe) /\ IsASeq(okWire)
        /\ okPub.trades = {} /\ okPipe.trades = {} /\ okPub.again = {} /\ link.push = << >>
    BY EmptyReports, Zenon DEF OkInit, LinkShape, PubShape, PipeShape, EmptyPipe
  <2>4. QED
    <3>1. TradesAccounted
      <4>1. DOMAIN okx.trades = {}
        BY <2>2
      <4> QED BY <4>1, Zenon DEF TradesAccounted
    <3>2. NoTrade \notin okPub.trades
      BY <2>3
    <3> QED BY <2>2, <2>3, <3>1, <3>2, Zenon DEF OkInv, OkTypes, PushesRead
<1>2. OkInv /\ [OkNext]_OkVars => OkInv'
  <2> SUFFICES ASSUME OkInv, [OkNext]_OkVars PROVE OkInv'
    OBVIOUS
  <2>1. CASE OkNext
    BY <2>1, CallSteps, VenueSteps, FillStep, MoveStep, SessionSteps, QuerySteps, LoopStep
       DEF OkNext, OkSupervisor
  <2>2. CASE UNCHANGED OkVars
    BY <2>2, ZenonT(30) DEF OkVars, OkInv, OkTypes, NothingPlaced, PushesRead, TradesAccounted
  <2>3. QED
    BY <2>1, <2>2
<1>3. OkInv => OkTradesRecovered
  BY EmptyReports DEF OkInv, TradesAccounted, OkTradesRecovered, OkQuiet, Subscribed
<1> QED BY <1>1, <1>2, <1>3, PTL DEF OkSpec

=============================================================================
