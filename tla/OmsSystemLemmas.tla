-------------------------- MODULE OmsSystemLemmas ---------------------------
(***************************************************************************)
(* What the queues, windows and reports of the OMS system do to each part of *)
(* its invariant, and the venue's side of it.                               *)
(***************************************************************************)
EXTENDS OmsSystemInv, SequenceTheorems, TLAPS

-----------------------------------------------------------------------------
(* Sequences over an arbitrary set                                          *)

(* What Append does to the entries of a queue.                              *)
LEMMA PushSeq ==
    ASSUME NEW S, NEW q \in Seq(S), NEW x \in S
    PROVE  /\ Append(q, x) \in Seq(S) /\ Len(q) \in Nat /\ Len(Append(q, x)) = Len(q) + 1
           /\ \A i \in 1 .. Len(q) : Append(q, x)[i] = q[i]
           /\ Append(q, x)[Len(q) + 1] = x
           /\ Ids(Append(q, x)) = Ids(q) \cup {x}
<1> DEFINE a == Append(q, x)
<1>1. /\ a \in Seq(S) /\ Len(q) \in Nat /\ Len(a) = Len(q) + 1
      /\ \A i \in 1 .. Len(q) : a[i] = q[i]
      /\ a[Len(q) + 1] = x
  BY AppendProperties, LenProperties
<1> HIDE DEF a
<1>2. ASSUME NEW y \in Ids(a) PROVE y \in Ids(q) \cup {x}
  <2>1. PICK i \in 1 .. Len(a) : y = a[i]
    BY DEF Ids
  <2>2. i \in 1 .. Len(q) \/ i = Len(q) + 1
    BY <1>1
  <2>3. QED
    BY <1>1, <2>1, <2>2 DEF Ids
<1>3. ASSUME NEW y \in Ids(q) PROVE y \in Ids(a)
  <2>1. PICK i \in 1 .. Len(q) : y = q[i]
    BY DEF Ids
  <2>2. i \in 1 .. Len(a) /\ a[i] = q[i]
    BY <1>1
  <2>3. QED
    BY <2>1, <2>2 DEF Ids
<1>4. x \in Ids(a)
  <2>1. Len(q) + 1 \in 1 .. Len(a)
    BY <1>1
  <2>2. QED
    BY <1>1, <2>1 DEF Ids
<1>5. QED
  BY <1>1, <1>2, <1>3, <1>4 DEF a

(* Either leaves another queue.                                             *)
LEMMA OtherSeq ==
    ASSUME NEW S, NEW q \in Seq(S)
    PROVE  (\A x \in S : Append(q, x) # q) /\ (q # << >> => Tail(q) # q)
OBVIOUS

(* What taking the head does to them.                                       *)
LEMMA PopSeq ==
    ASSUME NEW S, NEW q \in Seq(S), q # << >>
    PROVE  /\ Head(q) = q[1] /\ Head(q) \in S
           /\ Tail(q) \in Seq(S) /\ Len(q) \in Nat /\ Len(Tail(q)) = Len(q) - 1
           /\ \A i \in 1 .. Len(q) - 1 : Tail(q)[i] = q[i + 1]
           /\ Ids(q) = Ids(Tail(q)) \cup {Head(q)}
<1> DEFINE t == Tail(q)
           h == Head(q)
<1>1. /\ h = q[1] /\ h \in S /\ t \in Seq(S) /\ Len(q) \in Nat /\ Len(q) >= 1
      /\ Len(t) = Len(q) - 1
      /\ \A i \in 1 .. Len(q) - 1 : t[i] = q[i + 1]
  BY HeadTailProperties, LenProperties, EmptySeq
<1> HIDE DEF t, h
<1>2. ASSUME NEW y \in Ids(q) PROVE y \in Ids(t) \cup {h}
  <2>1. PICK i \in 1 .. Len(q) : y = q[i]
    BY DEF Ids
  <2>2. CASE i = 1
    BY <1>1, <2>1, <2>2
  <2>3. CASE i # 1
    <3>1. i - 1 \in 1 .. Len(t) /\ i - 1 \in 1 .. Len(q) - 1 /\ (i - 1) + 1 = i
      BY <1>1, <2>3
    <3>2. t[i - 1] = y
      BY <1>1, <2>1, <3>1
    <3>3. QED
      BY <3>1, <3>2 DEF Ids
  <2>4. QED
    BY <2>2, <2>3
<1>3. ASSUME NEW y \in Ids(t) PROVE y \in Ids(q)
  <2>1. PICK i \in 1 .. Len(t) : y = t[i]
    BY DEF Ids
  <2>2. i \in 1 .. Len(q) - 1 /\ i + 1 \in 1 .. Len(q)
    BY <1>1
  <2>3. QED
    BY <1>1, <2>1, <2>2, Zenon DEF Ids
<1>4. h \in Ids(q)
  <2>1. 1 \in 1 .. Len(q)
    BY <1>1
  <2>2. QED
    BY <1>1, <2>1 DEF Ids
<1>5. QED
  BY <1>1, <1>2, <1>3, <1>4 DEF t, h

(* Queues of no entry and of one.                                           *)
LEMMA SingleSeq ==
    ASSUME NEW S, NEW x \in S, NEW q \in Seq(S)
    PROVE  /\ <<x>> \in Seq(S) /\ Len(<<x>>) = 1 /\ Ids(<<x>>) = {x} /\ <<x>> # << >>
           /\ << >> \in Seq(S) /\ Ids(<< >>) = {} /\ Len(<< >>) = 0
           /\ q \o <<x>> = Append(q, x)
<1>1. <<x>> \in Seq(S) /\ Len(<<x>>) = 1 /\ <<x>>[1] = x /\ << >> \in Seq(S) /\ Len(<< >>) = 0
  OBVIOUS
<1>2. Ids(<<x>>) = {x}
  <2>1. 1 .. 1 = {1}
    OBVIOUS
  <2>2. QED
    BY <1>1, <2>1 DEF Ids
<1>3. Ids(<< >>) = {}
  <2>1. 1 .. 0 = {}
    OBVIOUS
  <2>2. QED
    BY <1>1, <2>1 DEF Ids
<1>4. q \o <<x>> = Append(q, x)
  BY AppendIsConcat
<1>5. QED
  BY <1>1, <1>2, <1>3, <1>4

(* A queue of at most one entry holds nothing or just that entry.           *)
LEMMA ShortSeq ==
    ASSUME NEW S, NEW q \in Seq(S), Len(q) <= 1, q # << >>
    PROVE  \E x \in S : q = <<x>>
<1>0. Len(q) = 1
  <2>1. Len(q) \in Nat \ {0}
    BY EmptySeq, Zenon
  <2>2. QED
    BY <2>1
<1>1. Len(q) = 1 /\ q[1] \in S
  <2>1. 1 \in 1 .. Len(q)
    BY <1>0
  <2>2. QED
    BY <1>0, <2>1, ElementOfSeq
<1> DEFINE t == <<q[1]>>
<1>2. t \in Seq(S) /\ Len(t) = 1 /\ t[1] = q[1]
  BY <1>1
<1> HIDE DEF t
<1>3. \A i \in 1 .. Len(q) : q[i] = t[i]
  BY <1>1, <1>2
<1>4. q = t
  BY <1>1, <1>2, <1>3, SeqEqual
<1>5. QED
  BY <1>1, <1>4 DEF t

-----------------------------------------------------------------------------
(* The reports in flight                                                    *)

(* ids are positive, so an emptied index entry names no client order.       *)
LEMMA NoIdNoClient == NoId \notin ClientIds /\ ClientIds \subseteq OrderIds
<1>1. ClientIds \subseteq OrderIds
  BY ConstantsAssumption
<1>2. NoId \notin OrderIds
  BY DEF NoId, OrderIds
<1>3. QED
  BY <1>1, <1>2

(* Where a report in flight is.                                             *)
LEMMA FlightsIn ==
    ASSUME NEW w, NEW h, NEW m, NEW r
    PROVE  r \in Flights(w, h, m) <=>
              r \in Ids(w) \/ \E o \in ClientIds : r \in Ids(h[o]) \/ r \in Ids(m[o])
BY DEF Flights

(* The two windows play the same part.                                      *)
LEMMA FlightsSwap ==
    ASSUME NEW w, NEW h, NEW m
    PROVE  Flights(w, h, m) = Flights(w, m, h)
<1>1. \A r : r \in Flights(w, h, m) <=> r \in Flights(w, m, h)
  BY FlightsIn
<1>2. QED
  BY <1>1 DEF Flights

(* g is the window h with r put in for o, whose part was empty.             *)
Opens(h, g, o, r) ==
    /\ r \in Report /\ r.oid = o /\ h[o] = << >> /\ g \in [OrderIds -> Seq(Report)]
    /\ Len(g[o]) = 1 /\ Ids(g[o]) = {r} /\ \A i \in ClientIds \ {o} : g[i] = h[i]

(* A report that opens a window.                                            *)
LEMMA WindowOpens ==
    ASSUME NEW w, NEW m, NEW h, Window(h), NEW o \in ClientIds, NEW r, NEW g, Opens(h, g, o, r)
    PROVE  Window(g) /\ Flights(w, g, m) = Flights(w, h, m) \cup {r}
<1>1. o \in OrderIds /\ ClientIds \subseteq OrderIds
  BY NoIdNoClient
<1>2. Ids(h[o]) = {}
  BY <1>1, SingleSeq DEF Window, Opens
<1>3. Len(g[o]) = 1 /\ Ids(g[o]) = {r} /\ \A i \in ClientIds \ {o} : g[i] = h[i]
  BY DEF Opens
<1>4. ASSUME NEW i \in ClientIds
      PROVE  Len(g[i]) <= 1 /\ \A x \in Ids(g[i]) : x.oid = i
  <2>1. CASE i = o
    <3>1. Ids(g[i]) = {r} /\ Len(g[i]) = 1
      BY <1>3, <2>1, Zenon
    <3>2. Len(g[i]) <= 1
      BY <3>1
    <3>3. QED
      BY <2>1, <3>1, <3>2, Zenon DEF Opens
  <2>2. CASE i # o
    <3>1. g[i] = h[i]
      BY <1>3, <2>2
    <3>2. QED
      BY <3>1 DEF Window
  <2>3. QED
    BY <2>1, <2>2
<1>5. ASSUME NEW x
      PROVE  x \in Flights(w, g, m) <=> x \in Flights(w, h, m) \/ x = r
  <2>1. ASSUME NEW i \in ClientIds
        PROVE  x \in Ids(g[i]) <=> x \in Ids(h[i]) \/ (i = o /\ x = r)
    <3>1. CASE i = o
      BY <1>2, <1>3, <3>1
    <3>2. CASE i # o
      <4>1. g[i] = h[i]
        BY <1>3, <3>2
      <4>2. QED
        BY <3>2, <4>1
    <3>3. QED
      BY <3>1, <3>2
  <2>2. /\ x \in Flights(w, g, m) <=>
              x \in Ids(w) \/ \E i \in ClientIds : x \in Ids(g[i]) \/ x \in Ids(m[i])
        /\ x \in Flights(w, h, m) <=>
              x \in Ids(w) \/ \E i \in ClientIds : x \in Ids(h[i]) \/ x \in Ids(m[i])
    BY FlightsIn
  <2>3. QED
    BY <2>1, <2>2, Zenon
<1>6. Flights(w, g, m) = Flights(w, h, m) \cup {r}
  BY <1>5
<1>7. QED
  BY <1>4, <1>6 DEF Window, Opens

(* event_tx.send(): the report of a window reaches the wire.                *)
LEMMA WindowCloses ==
    ASSUME NEW w \in Seq(Report), NEW m, NEW h, Window(h), NEW o \in ClientIds, h[o] # << >>
    PROVE  /\ Window([h EXCEPT ![o] = << >>]) /\ w \o h[o] \in Seq(Report)
           /\ Flights(w \o h[o], [h EXCEPT ![o] = << >>], m) = Flights(w, h, m)
<1> DEFINE s == << >>
           g == [h EXCEPT ![o] = s]
<1>1. o \in OrderIds /\ ClientIds \subseteq OrderIds /\ h[o] \in Seq(Report) /\ Len(h[o]) <= 1
  BY NoIdNoClient DEF Window
<1>2. PICK r \in Report : h[o] = <<r>>
  BY <1>1, ShortSeq
<1>3. s \in Seq(Report) /\ Len(s) = 0 /\ Ids(s) = {} /\ Ids(h[o]) = {r} /\ w \o h[o] = Append(w, r)
  BY <1>2, SingleSeq
<1>4. Append(w, r) \in Seq(Report) /\ Ids(Append(w, r)) = Ids(w) \cup {r}
  BY PushSeq
<1> HIDE DEF s
<1>5. /\ g \in [OrderIds -> Seq(Report)] /\ g[o] = s
      /\ \A i \in ClientIds \ {o} : g[i] = h[i]
  BY <1>1, <1>3 DEF Window
<1> HIDE DEF g
<1>6. ASSUME NEW i \in ClientIds
      PROVE  Len(g[i]) <= 1 /\ \A x \in Ids(g[i]) : x.oid = i
  <2>1. CASE i = o
    BY <1>3, <1>5, <2>1
  <2>2. CASE i # o
    <3>1. g[i] = h[i]
      BY <1>5, <2>2
    <3>2. QED
      BY <3>1 DEF Window
  <2>3. QED
    BY <2>1, <2>2
<1>7. ASSUME NEW x
      PROVE  x \in Flights(Append(w, r), g, m) <=> x \in Flights(w, h, m)
  <2>1. ASSUME NEW i \in ClientIds
        PROVE  x \in Ids(h[i]) <=> x \in Ids(g[i]) \/ (i = o /\ x = r)
    <3>1. CASE i = o
      BY <1>3, <1>5, <3>1
    <3>2. CASE i # o
      <4>1. g[i] = h[i]
        BY <1>5, <3>2
      <4>2. QED
        BY <3>2, <4>1
    <3>3. QED
      BY <3>1, <3>2
  <2>2. x \in Ids(Append(w, r)) <=> x \in Ids(w) \/ x = r
    BY <1>4
  <2>3. QED
    BY <2>1, <2>2, FlightsIn
<1>8. Flights(Append(w, r), g, m) = Flights(w, h, m)
  BY <1>7 DEF Flights
<1>9. QED
  BY <1>3, <1>4, <1>5, <1>6, <1>8 DEF Window, g, s

(* A report the gateway publishes itself.                                   *)
LEMMA WirePush ==
    ASSUME NEW w \in Seq(Report), NEW h, NEW m, NEW r \in Report
    PROVE  /\ Append(w, r) \in Seq(Report)
           /\ Flights(Append(w, r), h, m) = Flights(w, h, m) \cup {r}
<1>1. Append(w, r) \in Seq(Report) /\ Ids(Append(w, r)) = Ids(w) \cup {r}
  BY PushSeq
<1>2. QED
  BY <1>1 DEF Flights

(* The subscriber takes a report off the wire; the same one may be there    *)
(* again.                                                                   *)
LEMMA WirePop ==
    ASSUME NEW w \in Seq(Report), NEW h, NEW m, w # << >>
    PROVE  /\ Tail(w) \in Seq(Report) /\ Head(w) \in Report /\ Head(w) \in Flights(w, h, m)
           /\ Flights(w, h, m) = Flights(Tail(w), h, m) \cup {Head(w)}
<1>1. Tail(w) \in Seq(Report) /\ Head(w) \in Report /\ Ids(w) = Ids(Tail(w)) \cup {Head(w)}
  BY PopSeq
<1>2. QED
  BY <1>1 DEF Flights

(* Reports in flight are reports.                                           *)
LEMMA FlightTyped ==
    ASSUME EventTypes, NEW r \in InFlight
    PROVE  r \in Report
<1>1. \A q \in Seq(Report) : \A x \in Ids(q) : x \in Report
  BY ElementOfSeq DEF Ids
<1>2. r \in Ids(wire) \/ \E o \in ClientIds : r \in Ids(held[o]) \/ r \in Ids(heldMatch[o])
  BY FlightsIn DEF InFlight
<1>3. \A o \in ClientIds : held[o] \in Seq(Report) /\ heldMatch[o] \in Seq(Report)
  BY NoIdNoClient, SMT, ZenonT(20), SMTT(30) DEF EventTypes, Window
<1>4. QED
  BY <1>1, <1>2, <1>3 DEF EventTypes

-----------------------------------------------------------------------------
(* Frames                                                                   *)

(* A report stays honest while the venue only fills.                        *)
LEMMA HonestKept ==
    ASSUME QueueTypes, QueueTypes', NEW r \in Report, Honest(r),
           venue'[r.oid].filled >= venue[r.oid].filled,
           venue[r.oid].status # "none" =>
              venue'[r.oid].status # "none" /\ venue'[r.oid].qty = venue[r.oid].qty
    PROVE  Honest(r)'
<1>1. r.oid \in OrderIds
  BY NoIdNoClient DEF Honest
<1>2. venue[r.oid] \in BookEntry /\ venue'[r.oid] \in BookEntry
  BY <1>1 DEF QueueTypes
<1>3. venue[r.oid].filled \in Nat /\ venue'[r.oid].filled \in Nat /\ r.filled \in Nat
  BY <1>2 DEF BookEntry, Report
<1>4. QED
  BY <1>3 DEF Honest

(* An order that no part of a step is about, though it may be evicted.      *)
LEMMA OthersKept ==
    ASSUME NEW i \in ClientIds, Path(i),
           orders'.live[i] = orders.live[i] \/ orders'.live[i].status = "Absent",
           i \in used => i \in used',
           sendq'[i] = sendq[i], execq'[i] = execq[i], venue'[i] = venue[i],
           <<i, "place">> \in fails' <=> <<i, "place">> \in fails,
           \A r \in InFlight \cup InFlight' :
              r.oid = i => (r \in InFlight' <=> r \in InFlight)
    PROVE  Path(i)' /\ (Told(i) => Told(i)')
<1>1. ASSUME NEW r, r.oid = i
      PROVE  r \in InFlight' <=> r \in InFlight
  BY <1>1, ZenonT(20)
<1>2. Path(i)'
  <2>1. Present(orders, i)' => Present(orders, i) /\ orders'.live[i] = orders.live[i]
    BY DEF Present
  <2>2. (\A r \in InFlight : r.oid # i) => \A r \in InFlight' : r.oid # i
    BY <1>1
  <2>3. (Waits(sendq[i])' <=> Waits(sendq[i])) /\ (Waits(execq[i])' <=> Waits(execq[i]))
    BY DEF Waits
  <2>4. QED
    BY <2>1, <2>2, <2>3, ZenonT(30) DEF Path
<1>3. ASSUME Told(i) PROVE Told(i)'
  <2>1. Present(orders, i)' => Present(orders, i) /\ orders'.live[i] = orders.live[i]
    BY DEF Present
  <2>2. (Waits(sendq[i])' <=> Waits(sendq[i])) /\ (Waits(execq[i])' <=> Waits(execq[i]))
    BY DEF Waits
  <2>3. Refused(i)' <=> Refused(i)
    BY <1>1, SMT, ZenonT(20), SMTT(30) DEF Refused
  <2>4. \A r \in InFlight' : r.oid = i => r.state \in {NoState, "Booked", StateOf(venue'[i])}
    BY <1>1, <1>3, SMT, ZenonT(20), SMTT(30) DEF Told
  <2>5. /\ (\E r \in InFlight : r.oid = i /\ r.state = StateOf(venue[i]))
              => \E r \in InFlight' : r.oid = i /\ r.state = StateOf(venue'[i])
        /\ (\E r \in InFlight : r.oid = i /\ r.state # NoState /\ r.filled = venue[i].filled)
              => \E r \in InFlight' : /\ r.oid = i /\ r.state # NoState
                                      /\ r.filled = venue'[i].filled
    BY <1>1
  <2>6. QED
    BY <1>3, <2>1, <2>2, <2>3, <2>4, <2>5, Zenon DEF Told
<1>4. QED
  BY <1>2, <1>3

(* The order a step is about, once the rest is known.                       *)
LEMMA SysInvFrom ==
    ASSUME SysInv, NEW o \in ClientIds, Inv', QueueTypes', EventTypes', RefsOwn(orders'),
           \A r \in InFlight' : Honest(r)',
           Path(o)', (~ Ambiguous /\ ~ LossyFeedback) => Told(o)',
           used \subseteq used',
           \A i \in ClientIds \ {o} :
              /\ orders'.live[i] = orders.live[i] \/ orders'.live[i].status = "Absent"
              /\ sendq'[i] = sendq[i] /\ execq'[i] = execq[i] /\ venue'[i] = venue[i]
              /\ <<i, "place">> \in fails' <=> <<i, "place">> \in fails
              /\ \A r \in InFlight \cup InFlight' :
                    r.oid = i => (r \in InFlight' <=> r \in InFlight)
    PROVE  SysInv'
<1>1. ASSUME NEW i \in ClientIds
      PROVE  Path(i)' /\ ((~ Ambiguous /\ ~ LossyFeedback) => Told(i)')
  <2>1. CASE i = o
    BY <2>1
  <2>2. CASE i # o
    <3>1. Path(i) /\ ((~ Ambiguous /\ ~ LossyFeedback) => Told(i))
      BY DEF SysInv
    <3>2. Path(i)' /\ (Told(i) => Told(i)')
      BY <2>2, <3>1, OthersKept, Zenon
    <3>3. QED
      BY <3>1, <3>2, SMT, ZenonT(20), SMTT(30)
  <2>3. QED
    BY <2>1, <2>2
<1>2. RefsOwn(orders)'
  BY DEF RefsOwn
<1>3. QED
  BY <1>1, <1>2, SMT, ZenonT(20), SMTT(30) DEF SysInv

(* What the steps that leave the core alone share.                          *)
CoreKept ==
    /\ orders' = orders /\ resv' = resv /\ pos' = pos /\ bal' = bal /\ pending' = pending
    /\ panic' = panic /\ used' = used

(* A step of a gateway or of the venue keeps the core's invariant.          *)
LEMMA CoreKeptInv ==
    ASSUME SysInv, CoreKept
    PROVE  Inv' /\ RefsOwn(orders')
<1>1. Inv /\ RefsOwn(orders)
  BY DEF SysInv
<1>2. TypeOK' <=> TypeOK
  BY DEF CoreKept, TypeOK
<1>3. ReservedTotalsExact' /\ CacheBounded'
  BY <1>1 DEF CoreKept, Inv, ReservedTotalsExact, CacheBounded
<1>4. Sound(orders, resv, used)' <=> Sound(orders, resv, used)
  BY Zenon DEF CoreKept
<1>5. QED
  BY <1>1, <1>2, <1>3, <1>4 DEF CoreKept, Inv

(* A step that moves neither an order nor a message.                        *)
LEMMA ChannelsKept ==
    ASSUME SysInv, Inv', orders' = orders, used' = used, UNCHANGED channels
    PROVE  SysInv'
<1>1. /\ sendq' = sendq /\ execq' = execq /\ venue' = venue /\ held' = held
      /\ heldMatch' = heldMatch /\ wire' = wire /\ fails' = fails
  BY DEF channels
<1>2. InFlight' = InFlight /\ EventTypes' /\ QueueTypes'
  BY <1>1 DEF InFlight, SysInv, EventTypes, QueueTypes
<1>3. ASSUME NEW i \in ClientIds PROVE Path(i)' /\ (Told(i) => Told(i)')
  <2>1. Path(i)
    BY ZenonT(20) DEF SysInv
  <2>2. QED
    BY <1>1, <1>2, <2>1, OthersKept
<1>4. \A r \in InFlight' : Honest(r)'
  BY <1>1, <1>2 DEF SysInv, Honest
<1>5. RefsOwn(orders')
  BY DEF SysInv
<1>6. QED
  BY <1>2, <1>3, <1>4, <1>5 DEF SysInv

-----------------------------------------------------------------------------
(* The venue                                                                *)

(* A report of the simulator on book entry v of order o.                    *)
Tells(r, o, v) ==
    /\ r \in Report /\ r.oid = o /\ r.ref = RefOf[o] /\ r.gw /\ r.exec = "none"
    /\ r.state = StateOf(v) /\ r.filled = v.filled
    /\ r.unfilled = IF v.status = "open" THEN v.qty - v.filled ELSE 0

(* Every report builder of the simulator tells the state of the entry.      *)
LEMMA VenueReports ==
    ASSUME NEW o \in ClientIds, NEW v \in BookEntry, v.filled <= v.qty, NEW q \in Nat,
           NEW first \in BOOLEAN
    PROVE  /\ Tells(StateReport(o, v), o, v) /\ Tells(BookedReport(o, v), o, v)
           /\ Tells(MatchReport(o, v, q, first), o, v)
<1> DEFINE u == IF v.status = "open" THEN v.qty - v.filled ELSE 0
           st == StateOf(v)
<1>1. /\ v.acct \in Accounts /\ v.filled \in Nat /\ v.qty \in Nat /\ u \in Nat
      /\ o \in OrderIds /\ RefOf[o] \in Refs
  <2>1. v.acct \in Accounts /\ v.filled \in Nat /\ v.qty \in Nat
    BY DEF BookEntry
  <2>2. o \in OrderIds
    BY NoIdNoClient
  <2>3. RefOf[o] \in Refs
    BY <2>2, SystemAssumption
  <2>4. QED
    BY <2>1, <2>2, <2>3
<1>2. st \in ExchangeOrderStatus
  BY DEF StateOf, ExchangeOrderStatus
<1>3. PICK b : b = BlankReport(o, v.acct)
  BY SMT, ZenonT(20), SMTT(30)
<1>4. b \in Report /\ b.oid = o /\ b.gw /\ b.exec = "none"
  BY <1>1, <1>3 DEF BlankReport, Report
<1>5. StateReport(o, v) = [b EXCEPT !.ref = RefOf[o], !.filled = v.filled, !.state = st, !.unfilled = u]
  BY <1>3, Zenon DEF StateReport, StateOf
<1> HIDE DEF u, st
<1>6. PICK s : s = StateReport(o, v)
  BY SMT, ZenonT(20), SMTT(30)
<1>7. Tells(s, o, v)
  <2>1. /\ s \in Report /\ s.oid = o /\ s.ref = RefOf[o] /\ s.gw /\ s.exec = "none"
        /\ s.state = st /\ s.filled = v.filled /\ s.unfilled = u
    BY <1>1, <1>2, <1>4, <1>5, <1>6, Zenon, SMTT(30) DEF Report
  <2>2. QED
    BY <2>1 DEF Tells, u, st
<1>8. ASSUME NEW lk \in BOOLEAN, NEW tr \in Nat
      PROVE  Tells([s EXCEPT !.trade = tr, !.link = lk], o, v) /\ Tells([s EXCEPT !.link = lk], o, v)
  <2>1. s \in Report
    BY <1>7 DEF Tells
  <2>2. PICK x, y : x = [s EXCEPT !.trade = tr, !.link = lk] /\ y = [s EXCEPT !.link = lk]
    BY Zenon
  <2>3. x \in Report /\ y \in Report
    BY <2>1, <2>2, Zenon DEF Report
  <2>4. /\ x.oid = s.oid /\ x.ref = s.ref /\ x.gw = s.gw /\ x.exec = s.exec
        /\ x.state = s.state /\ x.filled = s.filled /\ x.unfilled = s.unfilled
        /\ y.oid = s.oid /\ y.ref = s.ref /\ y.gw = s.gw /\ y.exec = s.exec
        /\ y.state = s.state /\ y.filled = s.filled /\ y.unfilled = s.unfilled
    BY <2>1, <2>2 DEF Report
  <2>5. QED
    BY <1>7, <2>2, <2>3, <2>4 DEF Tells
<1>9. BookedReport(o, v) = [s EXCEPT !.link = TRUE]
  BY <1>6, Zenon DEF BookedReport
<1>10. \/ MatchReport(o, v, q, first) = [s EXCEPT !.trade = q, !.link = first]
       \/ MatchReport(o, v, q, first) = [s EXCEPT !.link = TRUE]
  BY <1>6, Zenon DEF MatchReport
<1>11. /\ Tells([s EXCEPT !.link = TRUE], o, v)
       /\ Tells([s EXCEPT !.trade = q, !.link = first], o, v)
  <2>1. TRUE \in BOOLEAN /\ 0 \in Nat
    OBVIOUS
  <2>2. QED
    BY <1>8, <2>1, Zenon
<1>12. QED
  BY <1>6, <1>7, <1>9, <1>10, <1>11, Zenon

(* A queue whose placement, if any, comes first: what is left after it, and *)
(* what a cancel behind it changes.                                         *)
LEMMA ShardTail ==
    ASSUME NEW q \in Seq(GwReq), q # << >>, \A i \in 2 .. Len(q) : q[i].kind = "cancel"
    PROVE  /\ ~ Waits(Tail(q)) /\ Tail(q) \in Seq(GwReq) /\ Head(q) = q[1] /\ Head(q) \in GwReq
           /\ \A i \in 2 .. Len(Tail(q)) : Tail(q)[i].kind = "cancel"
<1> DEFINE t == Tail(q)
<1>1. /\ Head(q) = q[1] /\ Head(q) \in GwReq /\ t \in Seq(GwReq)
      /\ Len(q) \in Nat /\ Len(t) = Len(q) - 1
      /\ \A i \in 1 .. Len(q) - 1 : t[i] = q[i + 1]
  BY PopSeq
<1>2. t # << >> => Len(t) \in Nat \ {0}
  BY <1>1, EmptySeq, Zenon
<1> HIDE DEF t
<1>3. ASSUME NEW i \in 1 .. Len(t) PROVE t[i].kind = "cancel"
  <2>1. i \in 1 .. Len(q) - 1 /\ i + 1 \in 2 .. Len(q)
    BY <1>1
  <2>2. QED
    BY <1>1, <2>1
<1>4. ~ Waits(t)
  <2>1. SUFFICES ASSUME t # << >> PROVE t[1].kind # "place"
    BY DEF Waits
  <2>2. 1 \in 1 .. Len(t)
    BY <1>2, <2>1
  <2>3. QED
    BY <1>3, <2>2
<1>5. \A i \in 2 .. Len(t) : i \in 1 .. Len(t)
  BY <1>1
<1>6. QED
  BY <1>1, <1>3, <1>4, <1>5 DEF t

(* The queue a is q with the request x pushed behind it.                   *)
Pushed(q, x, a) ==
    /\ a \in Seq(GwReq)
    /\ x.kind = "cancel" => /\ Waits(a) <=> Waits(q)
                            /\ Waits(q) => a[1] = q[1]
                            /\ \A i \in 2 .. Len(a) : a[i].kind = "cancel"
    /\ q = << >> => a[1] = x /\ a # << >> /\ \A i \in 2 .. Len(a) : a[i].kind = "cancel"

(* A cancel joins a shard behind its placement; a placement opens one.      *)
LEMMA ShardPush ==
    ASSUME NEW q \in Seq(GwReq), NEW x \in GwReq, \A i \in 2 .. Len(q) : q[i].kind = "cancel"
    PROVE  Pushed(q, x, Append(q, x))
<1> DEFINE a == Append(q, x)
<1>1. /\ a \in Seq(GwReq) /\ Len(q) \in Nat /\ Len(a) = Len(q) + 1
      /\ \A i \in 1 .. Len(q) : a[i] = q[i]
      /\ a[Len(q) + 1] = x
  BY PushSeq
<1>2. /\ q # << >> => Len(q) \in Nat \ {0}
      /\ << >> \in Seq(GwReq) /\ Len(<< >>) = 0
  BY EmptySeq, Zenon
<1> HIDE DEF a
<1>3. a # << >>
  BY <1>1, <1>2
<1>4. ASSUME x.kind = "cancel"
      PROVE  /\ Waits(a) <=> Waits(q)
             /\ Waits(q) => a[1] = q[1]
             /\ \A i \in 2 .. Len(a) : a[i].kind = "cancel"
  <2>1. CASE q = << >>
    <3>1. a[1] = x /\ Len(a) = 1 /\ ~ Waits(q)
      BY <1>1, <1>2, <2>1 DEF Waits
    <3>2. QED
      BY <1>4, <3>1 DEF Waits
  <2>2. CASE q # << >>
    <3>1. a[1] = q[1]
      BY <1>1, <1>2, <2>2
    <3>2. Waits(a) <=> Waits(q)
      BY <1>3, <2>2, <3>1 DEF Waits
    <3>3. ASSUME NEW i \in 2 .. Len(a) PROVE a[i].kind = "cancel"
      <4>1. (i \in 2 .. Len(q) /\ i \in 1 .. Len(q)) \/ i = Len(q) + 1
        BY <1>1
      <4>2. QED
        BY <1>1, <1>4, <4>1
    <3>4. QED
      BY <3>1, <3>2, <3>3
  <2>3. QED
    BY <2>1, <2>2
<1>5. ASSUME q = << >>
      PROVE  a[1] = x /\ \A i \in 2 .. Len(a) : a[i].kind = "cancel"
  BY <1>1, <1>2, <1>5
<1>6. Pushed(q, x, a)
  BY <1>1, <1>3, <1>4, <1>5 DEF Pushed
<1>7. QED
  BY <1>6 DEF a

(* The book entry of o becomes v, and a report of it goes into flight.      *)
LEMMA VenueStep ==
    ASSUME SysInv, NEW o \in ClientIds, NEW v \in BookEntry, NEW r, Tells(r, o, v),
           v.status # "none", v.filled <= v.qty,
           \/ Waits(execq[o]) /\ v.status = "open" /\ v.filled = 0 /\ v.qty = execq[o][1].qty
           \/ venue[o].status = "open" /\ v.qty = venue[o].qty /\ v.filled >= venue[o].filled,
           Waits(execq[o]) => execq' # execq,
           execq' = execq \/ (execq[o] # << >> /\ execq' = [execq EXCEPT ![o] = Tail(@)]),
           venue' = [venue EXCEPT ![o] = v], sendq' = sendq, fails' = fails, CoreKept,
           EventTypes', InFlight' = InFlight \cup {r}
    PROVE  SysInv'
<1>0. o \in OrderIds /\ ClientIds \subseteq OrderIds
  BY NoIdNoClient
<1>1. /\ sendq[o] \in Seq(GwReq) /\ execq[o] \in Seq(GwReq) /\ venue[o] \in BookEntry
      /\ sendq \in [OrderIds -> Seq(GwReq)] /\ execq \in [OrderIds -> Seq(GwReq)]
      /\ venue \in [OrderIds -> BookEntry]
  BY <1>0 DEF SysInv, QueueTypes
<1>2. Path(o) /\ ((~ Ambiguous /\ ~ LossyFeedback) => Told(o))
  BY DEF SysInv
<1>3. venue'[o] = v /\ \A i \in ClientIds \ {o} : venue'[i] = venue[i]
  BY <1>0, <1>1, ZenonT(20)
<1>4. /\ execq' \in [OrderIds -> Seq(GwReq)]
      /\ \A i \in ClientIds \ {o} : execq'[i] = execq[i]
      /\ ~ Waits(execq'[o])
      /\ \A i \in 2 .. Len(execq'[o]) : execq'[o][i].kind = "cancel"
  <2>1. \A i \in 2 .. Len(execq[o]) : execq[o][i].kind = "cancel"
    BY <1>2, ZenonT(20) DEF Path
  <2>2. CASE execq' = execq
    BY <1>0, <1>1, <2>1, <2>2, SMT, ZenonT(20), SMTT(30)
  <2>3. CASE execq[o] # << >> /\ execq' = [execq EXCEPT ![o] = Tail(@)]
    <3>1. PICK t : t = Tail(execq[o])
      BY Zenon
    <3>2. /\ ~ Waits(t) /\ t \in Seq(GwReq)
          /\ \A i \in 2 .. Len(t) : t[i].kind = "cancel"
      BY <1>1, <2>1, <2>3, <3>1, ShardTail, Zenon
    <3>3. execq' = [execq EXCEPT ![o] = t]
      BY <2>3, <3>1
    <3>4. /\ execq' \in [OrderIds -> Seq(GwReq)] /\ execq'[o] = t
          /\ \A i \in ClientIds \ {o} : execq'[i] = execq[i]
      BY <1>0, <1>1, <3>2, <3>3, Zenon
    <3>5. QED
      BY <3>2, <3>4
  <2>4. QED
    BY <2>2, <2>3, ZenonT(20)
<1>5. QueueTypes'
  BY <1>1, <1>4, Zenon DEF QueueTypes
<1>6. ~ Waits(sendq[o]) /\ o \in used
  <2>1. Waits(execq[o]) \/ venue[o].status # "none"
    OBVIOUS
  <2>2. Waits(sendq[o]) => execq[o] = << >> /\ venue[o].status = "none"
    BY <1>2, ZenonT(30) DEF Path
  <2>3. Waits(execq[o]) => execq[o] # << >>
    BY DEF Waits
  <2>4. o \notin used => execq[o] = << >> /\ venue[o].status = "none"
    BY <1>2, Zenon DEF Path
  <2>5. QED
    BY <2>1, <2>2, <2>3, <2>4
<1>7. /\ r \in Report /\ r.oid = o /\ r.ref = RefOf[o] /\ r.gw /\ r.exec = "none"
      /\ r.state = StateOf(v) /\ r.filled = v.filled /\ r.state # NoState
      /\ r.unfilled = IF v.status = "open" THEN v.qty - v.filled ELSE 0
  BY Zenon DEF Tells, StateOf, NoState
<1>8. v.filled \in Nat /\ v.qty \in Nat /\ venue[o].filled \in Nat
  BY <1>1, ZenonT(30) DEF BookEntry
<1>9. v.filled >= venue[o].filled /\ (venue[o].status # "none" => v.qty = venue[o].qty)
  <2>1. Waits(execq[o]) => venue[o].status = "none" /\ venue[o].filled = 0
    BY <1>2, Zenon DEF Path
  <2>2. QED
    BY <1>8, <2>1
<1>10. \A x \in InFlight' : Honest(x)'
  <2>1. ASSUME NEW x \in InFlight PROVE Honest(x)'
    <3>1. Honest(x)
      BY DEF SysInv
    <3>2. x \in Report
      BY FlightTyped, SMT, ZenonT(20), SMTT(30) DEF SysInv
    <3>3. CASE x.oid = o
      BY <1>3, <1>5, <1>9, <3>1, <3>2, <3>3, HonestKept DEF SysInv
    <3>4. CASE x.oid # o
      <4>1. venue'[x.oid] = venue[x.oid] /\ venue[x.oid] \in BookEntry
        BY <1>0, <1>1, <1>3, <3>1, <3>4, Zenon DEF Honest
      <4>2. venue[x.oid].filled \in Nat
        BY <4>1, ZenonT(20) DEF BookEntry
      <4>3. venue'[x.oid].filled >= venue[x.oid].filled
        <5>1. \A n \in Nat : n >= n
          OBVIOUS
        <5>2. QED
          BY <4>1, <4>2, <5>1, Zenon
      <4>4. QED
        BY <1>5, <3>1, <3>2, <4>1, <4>3, HonestKept, Zenon DEF SysInv
    <3>5. QED
      BY <3>3, <3>4
  <2>2. Honest(r)'
    <3>1. r.filled = 0 /\ r.unfilled # 0 => r.unfilled = v.qty
      BY <1>7, <1>8, SMT, ZenonT(20), SMTT(30)
    <3>2. RefOf[o] # NoRef
      BY <1>0, SystemAssumption, RefsAssumption
    <3>3. r.filled <= v.filled
      BY <1>7, <1>8, SMT, ZenonT(20), SMTT(30)
    <3>4. QED
      BY <1>3, <1>7, <3>1, <3>2, <3>3, SMT, ZenonT(20), SMTT(30) DEF Honest
  <2>3. QED
    BY <2>1, <2>2
<1>11. Path(o)'
  <2>1. ~ Waits(sendq'[o])
    BY <1>6, ZenonT(30)
  <2>2. Present(orders, o)' => /\ Present(orders, o) /\ orders'.live[o] = orders.live[o]
    BY ZenonT(20) DEF CoreKept, Present
  <2>3. Present(orders, o) =>
           orders.live[o].filled <= v.filled /\ orders.live[o].qty = v.qty
    <3>1. orders.live[o].filled \in Nat
      BY <1>0, SMT, ZenonT(20), SMTT(30) DEF SysInv, Inv, TypeOK, Orders, LiveOrder
    <3>2. Present(orders, o) => orders.live[o].filled <= venue[o].filled
      BY <1>2, Zenon DEF Path
    <3>3. Present(orders, o) => orders.live[o].qty = v.qty
      BY <1>2, Zenon DEF Path
    <3>4. QED
      BY <1>8, <1>9, <3>1, <3>2, <3>3, SMT, ZenonT(20), SMTT(30)
  <2>4. \A i \in 2 .. Len(sendq'[o]) : sendq'[o][i].kind = "cancel"
    BY <1>2, ZenonT(30) DEF Path
  <2>5. o \in used'
    BY <1>6, Zenon DEF CoreKept
  <2>6. QED
    BY <1>3, <1>4, <2>1, <2>2, <2>3, <2>4, <2>5, Zenon DEF Path
<1>12. ASSUME Told(o) PROVE Told(o)'
  <2>1. ~ Refused(o)
    BY <1>12, ZenonT(30) DEF Told
  <2>2. ~ Refused(o)'
    BY <1>7, <2>1, ZenonT(30) DEF Refused
  <2>3. StateOf(venue[o]) = "Booked"
    <3>1. venue[o].status = "none" \/ venue[o].status = "open"
      BY <1>2, Zenon DEF Path
    <3>2. QED
      BY <3>1 DEF StateOf
  <2>4. \A x \in InFlight' : x.oid = o => x.state \in {NoState, "Booked", StateOf(venue'[o])}
    BY <1>3, <1>7, <1>12, <2>3, Zenon DEF Told
  <2>5. Present(orders, o) => orders.live[o].status \in {"Pending", "Rejected", "Booked"}
    BY <1>12, <2>3, Zenon DEF Told
  <2>6. \E x \in InFlight' : x.oid = o /\ x.state = StateOf(venue'[o])
    BY <1>3, <1>7, ZenonT(30)
  <2>7. \E x \in InFlight' : x.oid = o /\ x.state # NoState /\ x.filled = venue'[o].filled
    BY <1>3, <1>7, SMT, ZenonT(20), SMTT(30)
  <2>8. Present(orders, o)' => Present(orders, o) /\ orders'.live[o] = orders.live[o]
    BY ZenonT(20) DEF CoreKept, Present
  <2>9. QED
    BY <1>3, <2>2, <2>4, <2>5, <2>6, <2>7, <2>8, ZenonT(30) DEF Told
<1>13. ASSUME NEW i \in ClientIds \ {o}
       PROVE  /\ orders'.live[i] = orders.live[i] \/ orders'.live[i].status = "Absent"
              /\ sendq'[i] = sendq[i] /\ execq'[i] = execq[i] /\ venue'[i] = venue[i]
              /\ <<i, "place">> \in fails' <=> <<i, "place">> \in fails
              /\ \A x \in InFlight \cup InFlight' :
                    x.oid = i => (x \in InFlight' <=> x \in InFlight)
  BY <1>3, <1>4, <1>7, ZenonT(30) DEF CoreKept
<1>14. Inv' /\ RefsOwn(orders') /\ used \subseteq used'
  BY CoreKeptInv DEF CoreKept
<1>15. QED
  BY <1>2, <1>5, <1>10, <1>11, <1>12, <1>13, <1>14, SysInvFrom, Zenon

-----------------------------------------------------------------------------
(* The writer's side                                                        *)

(* A message reaches the writer: it leaves its channel and the core takes   *)
(* it in; the order's requests and the venue stay as they are.              *)
LEMMA WriterStep ==
    ASSUME SysInv, NEW o \in ClientIds, Inv', RefsOwn(orders'), EventTypes', o \in used,
           sendq' = sendq, execq' = execq, venue' = venue, used \subseteq used',
           \A i \in ClientIds \ {o} :
              orders'.live[i] = orders.live[i] \/ orders'.live[i].status = "Absent",
           InFlight' \subseteq InFlight, \A r \in InFlight : r.oid # o => r \in InFlight',
           fails' \subseteq fails,
           \A i \in ClientIds \ {o} : <<i, "place">> \in fails => <<i, "place">> \in fails',
           \/ orders'.live[o].status = "Absent"
           \/ /\ Present(orders, o) /\ orders'.live[o].qty = orders.live[o].qty
              /\ orders'.live[o].filled <= venue[o].filled,
           (~ Ambiguous /\ ~ LossyFeedback /\ orders'.live[o].status # "Absent") =>
              /\ venue[o].status = "none" =>
                    /\ orders'.live[o].status \in {"Pending", "Rejected"}
                    /\ \/ Waits(sendq[o]) \/ Waits(execq[o]) \/ Refused(o)'
                       \/ orders'.live[o].status = "Rejected"
              /\ venue[o].status # "none" =>
                    /\ orders'.live[o].status \in {"Pending", "Rejected", "Booked", StateOf(venue[o])}
                    /\ \/ orders'.live[o].status = StateOf(venue[o])
                       \/ \E r \in InFlight' : r.oid = o /\ r.state = StateOf(venue[o])
                    /\ \/ orders'.live[o].filled = venue[o].filled
                       \/ \E r \in InFlight' : /\ r.oid = o /\ r.state # NoState
                                               /\ r.filled = venue[o].filled
    PROVE  SysInv'
<1>1. Path(o) /\ ((~ Ambiguous /\ ~ LossyFeedback) => Told(o))
  BY ZenonT(20) DEF SysInv
<1>2. Present(orders, o)' <=> orders'.live[o].status # "Absent"
  BY ZenonT(20) DEF Present
<1>3. Path(o)'
  <2>1. /\ \A i \in 2 .. Len(sendq[o]) : sendq[o][i].kind = "cancel"
        /\ \A i \in 2 .. Len(execq[o]) : execq[o][i].kind = "cancel"
        /\ Waits(sendq[o]) => execq[o] = << >>
        /\ venue[o].filled <= venue[o].qty
        /\ venue[o].status = "none" => venue[o].filled = 0
    BY <1>1, Zenon DEF Path
  <2>2. \A q \in {sendq[o], execq[o]} :
           Waits(q) => /\ venue[o].status = "none"
                       /\ Present(orders, o)' => q[1].qty = orders'.live[o].qty
    BY <1>1, <1>2, Zenon DEF Path
  <2>3. Present(orders, o)' => /\ orders'.live[o].filled <= venue[o].filled
                               /\ venue[o].status # "none" => orders'.live[o].qty = venue[o].qty
    BY <1>1, <1>2, Zenon DEF Path
  <2>4. QED
    BY <2>1, <2>2, <2>3, Zenon DEF Path
<1>4. ASSUME ~ Ambiguous, ~ LossyFeedback PROVE Told(o)'
  <2>1. Told(o)
    BY <1>1, <1>4, Zenon
  <2>2. Refused(o)' => Refused(o)
    BY Zenon DEF Refused
  <2>3. /\ Refused(o)' => /\ venue'[o].status = "none" /\ ~ Waits(sendq'[o]) /\ ~ Waits(execq'[o])
        /\ \A r \in InFlight' : r.oid = o => r.state \in {NoState, "Booked", StateOf(venue'[o])}
    BY <2>1, <2>2, Zenon DEF Told
  <2>4. QED
    BY <1>2, <1>4, <2>3, Zenon DEF Told
<1>5. \A r \in InFlight' : Honest(r)'
  BY Zenon DEF SysInv, Honest
<1>6. QueueTypes'
  BY ZenonT(30) DEF SysInv, QueueTypes
<1>7. ASSUME NEW i \in ClientIds \ {o}
      PROVE  /\ orders'.live[i] = orders.live[i] \/ orders'.live[i].status = "Absent"
             /\ sendq'[i] = sendq[i] /\ execq'[i] = execq[i] /\ venue'[i] = venue[i]
             /\ <<i, "place">> \in fails' <=> <<i, "place">> \in fails
             /\ \A x \in InFlight \cup InFlight' :
                   x.oid = i => (x \in InFlight' <=> x \in InFlight)
  BY Zenon
<1>8. QED
  BY <1>3, <1>4, <1>5, <1>6, <1>7, SysInvFrom, ZenonT(30)

(* What a state entry of the simulator maps to.                             *)
LEMMA VenueStates ==
    /\ MapOrderStatus("Booked") = "Booked" /\ MapOrderStatus("Filled") = "Filled"
    /\ MapOrderStatus("Cancelled") = "Cancelled"
BY ZenonT(20) DEF MapOrderStatus

(* An honest report never makes the core believe in more than the venue     *)
(* has filled, and one with the venue's fill brings the core up to it.      *)
LEMMA HonestFill ==
    ASSUME NEW r \in Report, Honest(r), NEW l \in LiveOrder, NEW v \in BookEntry,
           v = venue[r.oid], l.filled <= v.filled, v.status # "none" => l.qty = v.qty
    PROVE  /\ ~ InfersState(l, r)
           /\ FilledAfter(l, r) <= v.filled /\ FilledAfter(l, r) >= l.filled
           /\ (r.state # NoState /\ r.filled = v.filled) => FilledAfter(l, r) = v.filled
           /\ r.state = NoState => FilledAfter(l, r) = l.filled
<1>1. /\ l.filled \in Nat /\ l.qty \in Nat /\ v.filled \in Nat /\ v.qty \in Nat
      /\ r.filled \in Nat /\ r.unfilled \in Nat /\ r.trade \in Nat
  BY ZenonT(20) DEF LiveOrder, BookEntry, Report
<1>2. ~ InfersState(l, r)
  BY <1>1, SMT, ZenonT(20), SMTT(30) DEF InfersState, Honest
<1>3. PICK x : x = IF r.state # NoState THEN ReportedFill(l, r) ELSE 0
  OBVIOUS
<1>4. FilledAfter(l, r) = IF x > l.filled THEN x ELSE l.filled
  BY <1>2, <1>3, ZenonT(20) DEF FilledAfter
<1>5. /\ x \in Int /\ x <= v.filled
      /\ (r.state # NoState /\ r.filled = v.filled) => x = v.filled \/ v.filled = 0
      /\ r.state = NoState => x = 0
  <2>1. r.filled <= v.filled
    BY DEF Honest
  <2>2. r.state # NoState => v.status # "none" /\ ((r.filled = 0 /\ r.unfilled # 0) => r.unfilled = l.qty)
    BY DEF Honest
  <2>3. QED
    BY <1>1, <1>3, <2>1, <2>2, SMT, ZenonT(20), SMTT(30) DEF ReportedFill
<1>6. QED
  BY <1>1, <1>2, <1>4, <1>5, SMT, ZenonT(20), SMTT(30)

(* What of the actions of a handler reaches the gateway executor.           *)
LEMMA OneAct ==
    ASSUME NEW x, out' = <<x>>, NEW kind, NEW o
    PROVE  Emits(kind, o) <=> x.act = kind /\ x.on = o
<1>1. DOMAIN out' = {1} /\ out'[1] = x
  <2>1. 1 .. 1 = {1}
    OBVIOUS
  <2>2. QED
    BY <2>1
<1>2. QED
  BY <1>1 DEF Emits

(* A handler without actions sends nothing to the gateway executor.         *)
LEMMA NoAct ==
    ASSUME out' = << >>, NEW kind, NEW o
    PROVE  ~ Emits(kind, o)
<1>1. DOMAIN out' = {}
  <2>1. 1 .. 0 = {}
    OBVIOUS
  <2>2. QED
    BY <2>1
<1>2. QED
  BY <1>1 DEF Emits

-----------------------------------------------------------------------------
(* The executors                                                            *)

(* A gateway's answer of its own: it says nothing about state or fills.     *)
Bare(r, o) ==
    /\ r \in Report /\ r.oid = o /\ r.ref = NoRef /\ r.gw /\ ~ r.link /\ r.trade = 0
    /\ r.state = NoState /\ r.filled = 0

(* The executor's failure report is such an answer; only a failed placement *)
(* is reported as a rejection.                                              *)
LEMMA ExecReportBare ==
    ASSUME NEW o \in ClientIds, NEW req \in GwReq
    PROVE  /\ Bare(ExecReport(o, req), o)
           /\ ExecReport(o, req).exec = "Rejected" <=> req.kind = "place"
<1>1. o \in OrderIds /\ req.acct \in Accounts
  BY NoIdNoClient DEF GwReq
<1>2. PICK b : b = BlankReport(o, req.acct)
  BY SMT, ZenonT(20), SMTT(30)
<1>3. Bare(b, o)
  BY <1>1, <1>2 DEF BlankReport, Report, Bare
<1>4. PICK x : x = IF req.kind = "place" THEN "Rejected" ELSE "CancelReject"
  OBVIOUS
<1>5. ExecReport(o, req) = [b EXCEPT !.exec = x]
  BY <1>2, <1>4, Zenon DEF ExecReport
<1>6. PICK e : e = [b EXCEPT !.exec = x]
  BY Zenon
<1>7. b \in Report /\ x \in {"Rejected", "CancelReject"} /\ (x = "Rejected" <=> req.kind = "place")
  BY <1>3, <1>4 DEF Bare
<1>8. /\ e \in Report /\ e.exec = x
      /\ e.oid = b.oid /\ e.ref = b.ref /\ e.gw = b.gw /\ e.link = b.link /\ e.trade = b.trade
      /\ e.state = b.state /\ e.filled = b.filled
  BY <1>6, <1>7 DEF Report
<1>9. QED
  BY <1>3, <1>5, <1>6, <1>7, <1>8 DEF Bare

(* The requests of o move on: whatever was ahead of it, the placement is    *)
(* now the gateway's next request, or it has been refused.                  *)
LEMMA ShardStep ==
    ASSUME SysInv, NEW o \in ClientIds, CoreKept, venue' = venue, EventTypes', QueueTypes',
           \A i \in ClientIds \ {o} : sendq'[i] = sendq[i] /\ execq'[i] = execq[i],
           ~ Waits(sendq'[o]), o \in used,
           \A i \in 2 .. Len(sendq'[o]) : sendq'[o][i].kind = "cancel",
           \A i \in 2 .. Len(execq'[o]) : execq'[o][i].kind = "cancel",
           Waits(execq'[o]) => \E q \in {sendq[o], execq[o]} : Waits(q) /\ execq'[o][1] = q[1],
           InFlight \subseteq InFlight', \A r \in InFlight' \ InFlight : Bare(r, o),
           \A i \in ClientIds \ {o} : <<i, "place">> \in fails' <=> <<i, "place">> \in fails,
           (~ Ambiguous /\ ~ LossyFeedback /\ ~ (Waits(sendq[o]) \/ Waits(execq[o])))
              => (Refused(o)' <=> Refused(o)),
           (~ Ambiguous /\ ~ LossyFeedback /\ ~ Refused(o) /\ (Waits(sendq[o]) \/ Waits(execq[o])))
              => (Refused(o)' <=> ~ Waits(execq'[o]))
    PROVE  SysInv'
<1>0. o \in OrderIds /\ ClientIds \subseteq OrderIds
  BY NoIdNoClient, ZenonT(20)
<1>1. Path(o) /\ ((~ Ambiguous /\ ~ LossyFeedback) => Told(o))
  BY ZenonT(30) DEF SysInv
<1>2. Present(orders, o)' => Present(orders, o) /\ orders'.live[o] = orders.live[o]
  BY Zenon DEF CoreKept, Present
<1>3. Path(o)'
  <2>1. Waits(execq'[o]) => /\ venue'[o].status = "none"
                            /\ Present(orders, o) => execq'[o][1].qty = orders.live[o].qty
    <3>1. SUFFICES ASSUME Waits(execq'[o])
                   PROVE  /\ venue'[o].status = "none"
                          /\ Present(orders, o) => execq'[o][1].qty = orders.live[o].qty
      BY Zenon
    <3>2. PICK q \in {sendq[o], execq[o]} : Waits(q) /\ execq'[o][1] = q[1]
      BY <3>1, Zenon
    <3>3. /\ venue[o].status = "none"
          /\ Present(orders, o) => q[1].qty = orders.live[o].qty
      BY <1>1, <3>2, ZenonT(30) DEF Path
    <3>4. QED
      BY <3>2, <3>3, ZenonT(30)
  <2>2. o \in used'
    BY Zenon DEF CoreKept
  <2>3. /\ venue'[o].filled <= venue'[o].qty
        /\ venue'[o].status = "none" => venue'[o].filled = 0
        /\ Present(orders, o) => /\ orders.live[o].filled <= venue'[o].filled
                                 /\ venue'[o].status # "none" => orders.live[o].qty = venue'[o].qty
    BY <1>1, ZenonT(30) DEF Path
  <2>4. QED
    BY <1>2, <2>1, <2>2, <2>3, Zenon DEF Path
<1>4. \A r \in InFlight' : Honest(r)'
  <2>1. ASSUME NEW r \in InFlight PROVE Honest(r)'
    BY ZenonT(30) DEF SysInv, Honest
  <2>2. ASSUME NEW r, Bare(r, o) PROVE Honest(r)'
    <3>1. 0 <= venue'[o].filled
      <4>1. venue \in [OrderIds -> BookEntry]
        BY Zenon DEF SysInv, QueueTypes
      <4>2. venue'[o] \in BookEntry
        BY <1>0, <4>1, Zenon
      <4>3. QED
        BY <4>2, SMT, ZenonT(20), SMTT(30) DEF BookEntry
    <3>2. QED
      BY <2>2, <3>1, ZenonT(20) DEF Bare, Honest
  <2>3. QED
    BY <2>1, <2>2, Zenon
<1>5. ASSUME ~ Ambiguous, ~ LossyFeedback PROVE Told(o)'
  <2>1. Told(o)
    BY <1>1, <1>5, Zenon
  <2>2. \A r \in InFlight' : r.oid = o => r.state \in {NoState, "Booked", StateOf(venue'[o])}
    BY <2>1, ZenonT(20) DEF Told, Bare
  <2>3. (Waits(sendq[o]) \/ Waits(execq[o])) => ~ Refused(o) /\ venue[o].status = "none"
    BY <1>1, <2>1, Zenon DEF Told, Path
  <2>4. Waits(execq'[o]) => Waits(sendq[o]) \/ Waits(execq[o])
    BY Zenon
  <2>5. Refused(o)' => venue'[o].status = "none" /\ ~ Waits(sendq'[o]) /\ ~ Waits(execq'[o])
    BY <1>5, <2>1, <2>3, <2>4, Zenon DEF Told
  <2>6. (Present(orders, o) /\ venue'[o].status = "none") =>
           /\ orders.live[o].status \in {"Pending", "Rejected"}
           /\ Waits(execq'[o]) \/ Refused(o)' \/ orders.live[o].status = "Rejected"
    BY <1>5, <2>1, <2>3, Zenon DEF Told
  <2>7. (Present(orders, o) /\ venue'[o].status # "none") =>
           /\ orders.live[o].status \in {"Pending", "Rejected", "Booked", StateOf(venue'[o])}
           /\ \/ orders.live[o].status = StateOf(venue'[o])
              \/ \E r \in InFlight' : r.oid = o /\ r.state = StateOf(venue'[o])
           /\ \/ orders.live[o].filled = venue'[o].filled
              \/ \E r \in InFlight' : /\ r.oid = o /\ r.state # NoState
                                      /\ r.filled = venue'[o].filled
    BY <2>1, ZenonT(30) DEF Told
  <2>8. QED
    BY <1>2, <2>2, <2>5, <2>6, <2>7, Zenon DEF Told
<1>6. ASSUME NEW i \in ClientIds \ {o}
      PROVE  /\ orders'.live[i] = orders.live[i] \/ orders'.live[i].status = "Absent"
             /\ sendq'[i] = sendq[i] /\ execq'[i] = execq[i] /\ venue'[i] = venue[i]
             /\ <<i, "place">> \in fails' <=> <<i, "place">> \in fails
             /\ \A x \in InFlight \cup InFlight' :
                   x.oid = i => (x \in InFlight' <=> x \in InFlight)
  BY ZenonT(20) DEF CoreKept, Bare
<1>7. Inv' /\ RefsOwn(orders') /\ used \subseteq used'
  BY CoreKeptInv DEF CoreKept
<1>8. QED
  BY <1>3, <1>4, <1>5, <1>6, <1>7, SysInvFrom, ZenonT(30)

(* gw_exec_worker() when the adapter refuses the request.                   *)
LEMMA AdapterRejectsStep ==
    ASSUME SysInv, NEW o \in ClientIds, execq[o] # << >>, AdapterRejects(o),
           execq' = [execq EXCEPT ![o] = Tail(@)], sendq' = sendq, heldMatch' = heldMatch,
           fails' = fails, CoreKept
    PROVE  SysInv'
<1>0. o \in OrderIds /\ ClientIds \subseteq OrderIds
  BY NoIdNoClient
<1>1. /\ sendq \in [OrderIds -> Seq(GwReq)] /\ execq \in [OrderIds -> Seq(GwReq)]
      /\ venue \in [OrderIds -> BookEntry] /\ execq[o] \in Seq(GwReq)
  BY <1>0 DEF SysInv, QueueTypes
<1>2. Path(o)
  BY DEF SysInv
<1>3. PICK t, h : t = Tail(execq[o]) /\ h = Head(execq[o])
  BY Zenon
<1>4. /\ ~ Waits(t) /\ t \in Seq(GwReq) /\ h = execq[o][1] /\ h \in GwReq
      /\ \A i \in 2 .. Len(t) : t[i].kind = "cancel"
  <2>1. \A i \in 2 .. Len(execq[o]) : execq[o][i].kind = "cancel"
    BY <1>2, SMT, ZenonT(20), SMTT(30) DEF Path
  <2>2. QED
    BY <1>1, <1>3, <2>1, ShardTail, ZenonT(20)
<1>5. /\ execq'[o] = t /\ execq' \in [OrderIds -> Seq(GwReq)]
      /\ \A i \in ClientIds \ {o} : execq'[i] = execq[i]
  BY <1>0, <1>1, <1>3, <1>4
<1>6. PICK r : r = ExecReport(o, h)
  OBVIOUS
<1>7. Bare(r, o) /\ (r.exec = "Rejected" <=> h.kind = "place")
  BY <1>4, <1>6, ExecReportBare
<1>8. wire' = Append(wire, r) /\ venue' = venue /\ held' = held
  BY <1>3, <1>6 DEF AdapterRejects
<1>9. InFlight' = InFlight \cup {r} /\ EventTypes'
  <2>1. wire \in Seq(Report) /\ r \in Report
    BY <1>7 DEF SysInv, EventTypes, Bare
  <2>2. Append(wire, r) \in Seq(Report) /\ InFlight' = InFlight \cup {r}
    BY <1>8, <2>1, WirePush DEF InFlight
  <2>3. QED
    BY <1>8, <2>2 DEF SysInv, EventTypes
<1>10. QueueTypes'
  BY <1>1, <1>5, <1>8 DEF QueueTypes
<1>11. Waits(execq[o]) <=> h.kind = "place"
  BY <1>4 DEF Waits
<1>12. ~ Waits(sendq[o]) /\ o \in used
  BY <1>2, ZenonT(30) DEF Path
<1>13. Refused(o)' <=> Refused(o) \/ h.kind = "place"
  BY <1>7, <1>9, ZenonT(20) DEF Refused, Bare
<1>14. \A i \in 2 .. Len(sendq'[o]) : sendq'[o][i].kind = "cancel"
  BY <1>2, ZenonT(30) DEF Path
<1>15. QED
  BY <1>4, <1>5, <1>7, <1>8, <1>9, <1>10, <1>11, <1>12, <1>13, <1>14, ShardStep, Zenon

(* gw_worker(): the request is queued at the gateway, rejected by it over   *)
(* the wire, or the call fails.                                             *)
LEMMA GwWorkerStep ==
    ASSUME SysInv, NEW o \in ClientIds, GwWorker(o)
    PROVE  SysInv'
<1>0. o \in OrderIds /\ ClientIds \subseteq OrderIds
  BY NoIdNoClient
<1>1. /\ sendq \in [OrderIds -> Seq(GwReq)] /\ execq \in [OrderIds -> Seq(GwReq)]
      /\ venue \in [OrderIds -> BookEntry] /\ sendq[o] \in Seq(GwReq) /\ execq[o] \in Seq(GwReq)
  BY <1>0 DEF SysInv, QueueTypes
<1>2. Path(o)
  BY DEF SysInv
<1>3. PICK t, h, x : t = Tail(sendq[o]) /\ h = Head(sendq[o]) /\ x = Append(execq[o], h)
  BY Zenon
<1>4. /\ sendq[o] # << >> /\ sendq' = [sendq EXCEPT ![o] = t]
      /\ venue' = venue /\ held' = held /\ heldMatch' = heldMatch /\ CoreKept
  BY <1>3 DEF GwWorker, coreVars, CoreKept
<1>5. /\ ~ Waits(t) /\ t \in Seq(GwReq) /\ h = sendq[o][1] /\ h \in GwReq
      /\ \A i \in 2 .. Len(t) : t[i].kind = "cancel"
  <2>1. \A i \in 2 .. Len(sendq[o]) : sendq[o][i].kind = "cancel"
    BY <1>2, ZenonT(30) DEF Path
  <2>2. QED
    BY <1>1, <1>3, <1>4, <2>1, ShardTail, Zenon
<1>6. /\ sendq'[o] = t /\ sendq' \in [OrderIds -> Seq(GwReq)]
      /\ \A i \in ClientIds \ {o} : sendq'[i] = sendq[i]
  BY <1>0, <1>1, <1>4, <1>5, ZenonT(30)
<1>7. Waits(sendq[o]) <=> h.kind = "place"
  BY <1>4, <1>5 DEF Waits
<1>8. /\ Waits(sendq[o]) => execq[o] = << >> /\ ~ Waits(execq[o])
      /\ o \in used
      /\ \A i \in 2 .. Len(execq[o]) : execq[o][i].kind = "cancel"
  BY <1>2, <1>4, ZenonT(30) DEF Path, Waits
<1>9. /\ x \in Seq(GwReq)
      /\ \A i \in 2 .. Len(x) : x[i].kind = "cancel"
      /\ h.kind = "cancel" => /\ Waits(x) <=> Waits(execq[o])
                              /\ Waits(x) => x[1] = execq[o][1]
      /\ h.kind = "place" => Waits(x) /\ x[1] = sendq[o][1]
  <2>1. h.kind \in {"place", "cancel"}
    BY <1>5 DEF GwReq
  <2>0. Pushed(execq[o], h, x)
    BY <1>1, <1>3, <1>5, <1>8, ShardPush, Zenon
  <2>2. CASE h.kind = "cancel"
    BY <2>0, <2>2, Zenon DEF Pushed
  <2>3. CASE h.kind = "place"
    <3>1. execq[o] = << >>
      BY <1>7, <1>8, <2>3
    <3>2. /\ x \in Seq(GwReq) /\ x[1] = h /\ x # << >>
          /\ \A i \in 2 .. Len(x) : x[i].kind = "cancel"
      BY <2>0, <3>1, Zenon DEF Pushed
    <3>3. QED
      BY <1>5, <2>3, <3>2 DEF Waits
  <2>4. QED
    BY <2>1, <2>2, <2>3, ZenonT(30)
<1>10. ASSUME execq' = [execq EXCEPT ![o] = x]
       PROVE  /\ execq'[o] = x /\ execq' \in [OrderIds -> Seq(GwReq)]
              /\ \A i \in ClientIds \ {o} : execq'[i] = execq[i]
  BY <1>0, <1>1, <1>9, <1>10, ZenonT(30)
<1>11. /\ execq' \in [OrderIds -> Seq(GwReq)]
       /\ \A i \in ClientIds \ {o} : execq'[i] = execq[i]
       /\ execq'[o] = execq[o] \/ execq'[o] = x
  <2>1. execq' = execq \/ execq' = [execq EXCEPT ![o] = x]
    BY <1>3 DEF GwWorker, RpcSucceeds, RpcFails
  <2>2. QED
    BY <1>1, <1>10, <2>1
<1>12. QueueTypes'
  BY <1>1, <1>4, <1>6, <1>11, ZenonT(20) DEF QueueTypes
<1>13. /\ \A i \in 2 .. Len(sendq'[o]) : sendq'[o][i].kind = "cancel"
       /\ \A i \in 2 .. Len(execq'[o]) : execq'[o][i].kind = "cancel"
  BY <1>5, <1>6, <1>8, <1>9, <1>11, ZenonT(20)
<1>14. Waits(execq'[o]) => \E q \in {sendq[o], execq[o]} : Waits(q) /\ execq'[o][1] = q[1]
  <2>1. CASE execq'[o] = execq[o]
    BY <2>1
  <2>2. CASE execq'[o] = x /\ h.kind = "cancel"
    BY <1>9, <2>2, Zenon
  <2>3. CASE execq'[o] = x /\ h.kind = "place"
    BY <1>7, <1>9, <2>3, ZenonT(20)
  <2>4. QED
    BY <1>5, <1>11, <2>1, <2>2, <2>3 DEF GwReq
<1>16. CASE RpcSucceeds(o) /\ wire' = wire
  <2>1. execq'[o] = x /\ fails' = fails
    <3>1. execq' = [execq EXCEPT ![o] = x] \/ wire' = Append(wire, ExecReport(o, h))
      BY <1>3, <1>16 DEF RpcSucceeds
    <3>2. wire' # Append(wire, ExecReport(o, h))
      <4>1. ExecReport(o, h) \in Report /\ wire \in Seq(Report)
        BY <1>5, ExecReportBare, Zenon DEF Bare, SysInv, EventTypes
      <4>2. Append(wire, ExecReport(o, h)) # wire
        BY <4>1, OtherSeq, Zenon
      <4>3. QED
        BY <1>16, <4>2, Zenon
    <3>3. QED
      BY <1>10, <1>16, <3>1, <3>2 DEF RpcSucceeds
  <2>2. InFlight' = InFlight /\ EventTypes'
    BY <1>4, <1>16 DEF InFlight, SysInv, EventTypes
  <2>3. Refused(o)' <=> Refused(o)
    BY <2>1, <2>2 DEF Refused
  <2>4. (Waits(sendq[o]) \/ Waits(execq[o])) => Waits(execq'[o])
    <3>1. h.kind \in {"place", "cancel"}
      BY <1>5 DEF GwReq
    <3>2. QED
      BY <1>7, <1>9, <2>1, <3>1
  <2>5. ~ Waits(sendq'[o])
    BY <1>5, <1>6, ZenonT(20)
  <2>6. QED
    BY <1>4, <1>6, <1>8, <1>11, <1>12, <1>13, <1>14, <2>1, <2>2, <2>3, <2>4, <2>5, ShardStep, Zenon
<1>17. CASE RpcSucceeds(o) /\ wire' # wire
  <2>1. PICK r : r = ExecReport(o, h)
    OBVIOUS
  <2>2. wire' = Append(wire, r) /\ execq' = execq /\ fails' = fails
    BY <1>3, <1>17, <2>1, ZenonT(20) DEF RpcSucceeds
  <2>3. Bare(r, o) /\ (r.exec = "Rejected" <=> h.kind = "place")
    BY <1>5, <2>1, ExecReportBare
  <2>4. InFlight' = InFlight \cup {r} /\ EventTypes'
    <3>1. wire \in Seq(Report) /\ r \in Report
      BY <2>3 DEF SysInv, EventTypes, Bare
    <3>2. Append(wire, r) \in Seq(Report) /\ InFlight' = InFlight \cup {r}
      BY <1>4, <2>2, <3>1, WirePush DEF InFlight
    <3>3. QED
      BY <1>4, <2>2, <3>2 DEF SysInv, EventTypes
  <2>5. Refused(o)' <=> Refused(o) \/ h.kind = "place"
    BY <2>2, <2>3, <2>4, SMT, ZenonT(20), SMTT(30) DEF Refused, Bare
  <2>6. ~ Waits(sendq'[o])
    BY <1>5, <1>6, ZenonT(20)
  <2>7. (Waits(sendq[o]) \/ Waits(execq[o])) /\ ~ Refused(o) => (Refused(o)' <=> ~ Waits(execq'[o]))
    BY <1>7, <1>8, <2>2, <2>5
  <2>8. ~ (Waits(sendq[o]) \/ Waits(execq[o])) => (Refused(o)' <=> Refused(o))
    BY <1>7, <2>5
  <2>9. QED
    BY <1>4, <1>6, <1>8, <1>11, <1>12, <1>13, <1>14, <2>2, <2>3, <2>4, <2>6, <2>7, <2>8, ShardStep, Zenon
<1>18. CASE RpcFails(o)
  <2>1. /\ wire' = wire
        /\ (fails' = fails \cup {<<o, h.kind>>}) \/ (LossyFeedback /\ fails' = fails)
        /\ execq' = execq \/ Ambiguous
    BY <1>3, <1>18 DEF RpcFails
  <2>2. InFlight' = InFlight /\ EventTypes'
    BY <1>4, <2>1 DEF InFlight, SysInv, EventTypes
  <2>3. \A i \in ClientIds \ {o} : <<i, "place">> \in fails' <=> <<i, "place">> \in fails
    BY <2>1
  <2>4. ~ LossyFeedback => (<<o, "place">> \in fails' <=> <<o, "place">> \in fails \/ h.kind = "place")
    BY <2>1
  <2>5. ~ LossyFeedback => (Refused(o)' <=> Refused(o) \/ h.kind = "place")
    BY <2>2, <2>4, ZenonT(20) DEF Refused
  <2>6. ~ Waits(sendq'[o])
    BY <1>5, <1>6
  <2>7. (~ Ambiguous /\ ~ LossyFeedback /\ ~ Refused(o) /\ (Waits(sendq[o]) \/ Waits(execq[o])))
           => (Refused(o)' <=> ~ Waits(execq'[o]))
    BY <1>7, <1>8, <2>1, <2>5, ZenonT(30)
  <2>8. (~ Ambiguous /\ ~ LossyFeedback /\ ~ (Waits(sendq[o]) \/ Waits(execq[o])))
           => (Refused(o)' <=> Refused(o))
    BY <1>7, <2>5
  <2>9. QED
    BY <1>4, <1>6, <1>8, <1>11, <1>12, <1>13, <1>14, <2>2, <2>3, <2>6, <2>7, <2>8, ShardStep, Zenon
<1>19. QED
  BY <1>16, <1>17, <1>18 DEF GwWorker

-----------------------------------------------------------------------------
(* Matches and events                                                       *)

(* apply_match() from the matching task: the fill and its report.           *)
LEMMA VenueMatchesStep ==
    ASSUME SysInv, NEW o \in ClientIds, NEW q \in 1 .. MaxTraded, VenueMatches(o, q)
    PROVE  SysInv'
<1>0. o \in OrderIds /\ q \in Nat
  BY NoIdNoClient, ConstantsAssumption
<1>1. PICK b : b = venue[o]
  OBVIOUS
<1>2. PICK n : n = b.filled + q
  OBVIOUS
<1>3. PICK s : s = IF n = b.qty THEN "filled" ELSE "open"
  OBVIOUS
<1>4. PICK v : v = [b EXCEPT !.filled = n, !.status = s]
  OBVIOUS
<1>5. PICK r : r = MatchReport(o, v, q, b.filled = 0)
  OBVIOUS
<1>6. /\ b.status = "open" /\ n <= b.qty /\ heldMatch[o] = << >>
      /\ venue' = [venue EXCEPT ![o] = v] /\ heldMatch' = [heldMatch EXCEPT ![o] = <<r>>]
      /\ sendq' = sendq /\ execq' = execq /\ held' = held /\ wire' = wire /\ fails' = fails
      /\ CoreKept
  BY <1>1, <1>2, <1>3, <1>4, <1>5 DEF VenueMatches, CoreKept, coreVars
<1>7. b \in BookEntry /\ venue \in [OrderIds -> BookEntry]
  BY <1>0, <1>1 DEF SysInv, QueueTypes
<1>8. n \in Nat /\ n >= b.filled
  BY <1>0, <1>2, <1>7 DEF BookEntry
<1>9. /\ v \in BookEntry /\ v.status = s /\ v.status # "none" /\ v.qty = b.qty /\ v.filled = n
  BY <1>3, <1>4, <1>7, <1>8, Zenon DEF BookEntry, VenueStatus
<1>10. Tells(r, o, v)
  <2>1. v.filled <= v.qty
    BY <1>6, <1>9
  <2>2. (b.filled = 0) \in BOOLEAN
    OBVIOUS
  <2>3. QED
    BY <1>0, <1>5, <1>9, <2>1, <2>2, VenueReports, Zenon
<1>11. EventTypes' /\ InFlight' = InFlight \cup {r}
  <2>1. r \in Report /\ r.oid = o /\ Window(heldMatch)
    BY <1>10, Zenon DEF Tells, SysInv, EventTypes
  <2>2. /\ Window(heldMatch')
        /\ Flights(wire, heldMatch', held) = Flights(wire, heldMatch, held) \cup {r}
    <3>1. PICK w : w = <<r>>
      BY Zenon
    <3>2. /\ w \in Seq(Report) /\ Len(w) = 1 /\ Ids(w) = {r}
          /\ heldMatch \in [OrderIds -> Seq(Report)]
      BY <2>1, <3>1, SingleSeq DEF Window
    <3>3. /\ heldMatch' \in [OrderIds -> Seq(Report)] /\ heldMatch'[o] = w
          /\ \A i \in ClientIds \ {o} : heldMatch'[i] = heldMatch[i]
      BY <1>0, <1>6, <3>1, <3>2, NoIdNoClient
    <3>4. heldMatch[o] = << >> /\ r \in Report /\ r.oid = o
      BY <1>1, <1>6, <2>1
    <3>5. Len(heldMatch'[o]) = 1 /\ Ids(heldMatch'[o]) = {r}
      BY <3>2, <3>3, Zenon
    <3>6. Opens(heldMatch, heldMatch', o, r)
      BY <3>3, <3>4, <3>5, Zenon DEF Opens
    <3>7. QED
      BY <2>1, <3>6, WindowOpens
  <2>3. /\ Flights(wire, heldMatch', held) = Flights(wire, held, heldMatch')
        /\ Flights(wire, heldMatch, held) = Flights(wire, held, heldMatch)
    BY FlightsSwap
  <2>4. InFlight' = Flights(wire, held, heldMatch')
    BY <1>6 DEF InFlight
  <2>5. EventTypes'
    BY <1>6, <2>2 DEF SysInv, EventTypes
  <2>6. InFlight = Flights(wire, held, heldMatch)
    BY DEF InFlight
  <2>7. QED
    BY <2>2, <2>3, <2>4, <2>5, <2>6
<1>12. ~ Waits(execq[o])
  BY <1>1, <1>6, Zenon DEF SysInv, Path
<1>13. v.filled <= v.qty /\ v.filled >= venue[o].filled /\ v.qty = venue[o].qty
  BY <1>1, <1>6, <1>8, <1>9
<1>14. QED
  BY <1>1, <1>6, <1>9, <1>10, <1>11, <1>12, <1>13, VenueStep, Zenon

(* gw_exec_worker() on the simulator: a placement is booked, a cancel ends  *)
(* an open order, or the adapter refuses.                                   *)
LEMMA ExecWorkerStep ==
    ASSUME SysInv, NEW o \in ClientIds, ExecWorker(o)
    PROVE  SysInv'
<1>0. o \in OrderIds
  BY NoIdNoClient, ZenonT(20)
<1>1. /\ execq[o] # << >> /\ held[o] = << >> /\ execq' = [execq EXCEPT ![o] = Tail(@)]
      /\ sendq' = sendq /\ heldMatch' = heldMatch /\ fails' = fails /\ CoreKept
      /\ VenueBooks(o) \/ VenueCancels(o) \/ AdapterRejects(o)
  BY Zenon DEF ExecWorker, CoreKept, coreVars
<1>2. Path(o)
  BY DEF SysInv
<1>3. PICK h : h = Head(execq[o])
  OBVIOUS
<1>4. h = execq[o][1] /\ h \in GwReq
  <2>1. execq[o] \in Seq(GwReq) /\ \A i \in 2 .. Len(execq[o]) : execq[o][i].kind = "cancel"
    BY <1>0, <1>2, Zenon DEF SysInv, QueueTypes, Path
  <2>2. QED
    BY <1>1, <1>3, <2>1, ShardTail, Zenon
<1>5. execq' # execq
  <2>1. execq[o] \in Seq(GwReq) /\ execq \in [OrderIds -> Seq(GwReq)]
    BY <1>0, ZenonT(20) DEF SysInv, QueueTypes
  <2>2. Tail(execq[o]) # execq[o]
    BY <1>1, <2>1, OtherSeq, Zenon
  <2>3. execq'[o] = Tail(execq[o])
    BY <1>0, <1>1, <2>1
  <2>4. QED
    BY <2>2, <2>3, Zenon
<1>6. ASSUME NEW r \in Report, r.oid = o, held' = [held EXCEPT ![o] = <<r>>], wire' = wire
      PROVE  EventTypes' /\ InFlight' = InFlight \cup {r}
  <2>1. Window(held) /\ r \in Report /\ r.oid = o /\ held[o] = << >>
    BY <1>1, <1>6, ZenonT(20) DEF SysInv, EventTypes
  <2>2. /\ Window(held')
        /\ Flights(wire, held', heldMatch) = Flights(wire, held, heldMatch) \cup {r}
    <3>1. PICK s : s = <<r>>
      BY Zenon
    <3>2. /\ s \in Seq(Report) /\ Len(s) = 1 /\ Ids(s) = {r}
          /\ held \in [OrderIds -> Seq(Report)]
      BY <2>1, <3>1, SingleSeq DEF Window
    <3>3. /\ held' \in [OrderIds -> Seq(Report)] /\ held'[o] = s
          /\ \A i \in ClientIds \ {o} : held'[i] = held[i]
      BY <1>0, <1>6, <3>1, <3>2, NoIdNoClient
    <3>4. held[o] = << >> /\ r \in Report /\ r.oid = o
      BY <1>1, <1>6, <2>1
    <3>5. Len(held'[o]) = 1 /\ Ids(held'[o]) = {r}
      BY <3>2, <3>3, Zenon
    <3>6. Opens(held, held', o, r)
      BY <3>3, <3>4, <3>5, Zenon DEF Opens
    <3>7. QED
      BY <2>1, <3>6, WindowOpens
  <2>3. EventTypes'
    BY <1>1, <1>6, <2>2 DEF SysInv, EventTypes
  <2>4. InFlight' = Flights(wire, held', heldMatch)
    BY <1>1, <1>6 DEF InFlight
  <2>5. InFlight = Flights(wire, held, heldMatch)
    BY DEF InFlight
  <2>6. QED
    BY <2>2, <2>3, <2>4, <2>5
<1>7. CASE VenueBooks(o)
  <2>1. PICK v : v = [status |-> "open", acct |-> h.acct, buy |-> h.buy, qty |-> h.qty, filled |-> 0]
    BY Zenon
  <2>2. PICK r : r = BookedReport(o, v)
    OBVIOUS
  <2>3. /\ h.kind = "place" /\ venue' = [venue EXCEPT ![o] = v]
        /\ held' = [held EXCEPT ![o] = <<r>>] /\ wire' = wire
    BY <1>3, <1>7, <2>1, <2>2, Zenon DEF VenueBooks
  <2>4. v \in BookEntry /\ v.status = "open" /\ v.filled = 0 /\ v.qty = h.qty /\ v.filled <= v.qty
    <3>1. h.acct \in Accounts /\ h.buy \in BOOLEAN /\ h.qty \in Nat
      BY <1>4 DEF GwReq
    <3>2. v.status = "open" /\ v.filled = 0 /\ v.qty = h.qty
      BY <2>1, SMT, ZenonT(20), SMTT(30)
    <3>3. v \in BookEntry
      BY <2>1, <3>1 DEF BookEntry, VenueStatus
    <3>4. 0 <= h.qty
      BY <3>1
    <3>5. QED
      BY <3>2, <3>3, <3>4, Zenon
  <2>5. Tells(r, o, v)
    BY <2>2, <2>4, VenueReports, Zenon
  <2>6. Waits(execq[o])
    BY <1>1, <1>4, <2>3, Zenon DEF Waits
  <2>7. EventTypes' /\ InFlight' = InFlight \cup {r}
    BY <1>6, <2>3, <2>5, Zenon DEF Tells
  <2>8. v.status # "none" /\ v.qty = execq[o][1].qty
    BY <1>4, <2>4
  <2>9. QED
    BY <1>1, <1>5, <2>3, <2>4, <2>5, <2>6, <2>7, <2>8, VenueStep, Zenon
<1>8. CASE VenueCancels(o)
  <2>1. PICK b : b = venue[o]
    OBVIOUS
  <2>2. PICK v : v = [b EXCEPT !.status = "cancelled"]
    BY Zenon
  <2>3. PICK r : r = StateReport(o, v)
    OBVIOUS
  <2>4. /\ h.kind = "cancel" /\ b.status = "open" /\ venue' = [venue EXCEPT ![o] = v]
        /\ held' = [held EXCEPT ![o] = <<r>>] /\ wire' = wire
    BY <1>3, <1>8, <2>1, <2>2, <2>3 DEF VenueCancels
  <2>5. b \in BookEntry /\ b.filled <= b.qty
    BY <1>0, <1>2, <2>1, Zenon DEF SysInv, QueueTypes, Path
  <2>6. v \in BookEntry /\ v.status = "cancelled" /\ v.qty = b.qty /\ v.filled = b.filled
    BY <2>2, <2>5 DEF BookEntry, VenueStatus
  <2>7. v.filled <= v.qty /\ v.filled >= b.filled /\ v.status # "none"
    BY <2>5, <2>6 DEF BookEntry
  <2>8. Tells(r, o, v)
    BY <2>3, <2>6, <2>7, VenueReports, Zenon
  <2>9. EventTypes' /\ InFlight' = InFlight \cup {r}
    BY <1>6, <2>4, <2>8, Zenon DEF Tells
  <2>10. QED
    BY <1>1, <1>5, <2>1, <2>4, <2>6, <2>7, <2>8, <2>9, VenueStep, Zenon
<1>9. CASE AdapterRejects(o)
  BY <1>1, <1>9, AdapterRejectsStep, Zenon
<1>10. QED
  BY <1>1, <1>7, <1>8, <1>9

(* event_tx.send(): a window is emptied onto the wire.                      *)
LEMMA QueueEventsStep ==
    ASSUME SysInv, NEW o \in ClientIds, QueueEvents(o)
    PROVE  SysInv'
<1>1. /\ sendq' = sendq /\ execq' = execq /\ venue' = venue /\ fails' = fails /\ CoreKept
  BY DEF QueueEvents, CoreKept, coreVars
<1>2. Window(held) /\ Window(heldMatch) /\ wire \in Seq(Report)
  BY DEF SysInv, EventTypes
<1>3. EventTypes' /\ InFlight' = InFlight
  <2>1. CASE /\ held[o] # << >> /\ wire' = wire \o held[o] /\ heldMatch' = heldMatch
             /\ held' = [held EXCEPT ![o] = << >>]
    <3>1. Window(held') /\ wire' \in Seq(Report)
      BY <1>2, <2>1, WindowCloses, Zenon
    <3>2. Flights(wire', held', heldMatch) = Flights(wire, held, heldMatch)
      BY <1>2, <2>1, WindowCloses, Zenon
    <3>3. QED
      BY <1>2, <2>1, <3>1, <3>2 DEF InFlight, EventTypes
  <2>2. CASE /\ heldMatch[o] # << >> /\ wire' = wire \o heldMatch[o] /\ held' = held
             /\ heldMatch' = [heldMatch EXCEPT ![o] = << >>]
    <3>1. Window(heldMatch') /\ wire' \in Seq(Report)
      BY <1>2, <2>2, WindowCloses, Zenon
    <3>2. Flights(wire', heldMatch', held) = Flights(wire, heldMatch, held)
      BY <1>2, <2>2, WindowCloses, Zenon
    <3>3. /\ Flights(wire', heldMatch', held) = Flights(wire', held, heldMatch')
          /\ Flights(wire, heldMatch, held) = Flights(wire, held, heldMatch)
      BY FlightsSwap, ZenonT(20)
    <3>4. QED
      BY <1>2, <2>2, <3>1, <3>2, <3>3, Zenon DEF InFlight, EventTypes
  <2>3. QED
    BY <2>1, <2>2 DEF QueueEvents
<1>4. \A i \in ClientIds : Path(i)' /\ (Told(i) => Told(i)')
  <2>1. SUFFICES ASSUME NEW i \in ClientIds PROVE Path(i)' /\ (Told(i) => Told(i)')
    OBVIOUS
  <2>2. Path(i)
    BY ZenonT(20) DEF SysInv
  <2>3. QED
    BY <1>1, <1>3, <2>2, OthersKept, Zenon DEF CoreKept
<1>5. \A r \in InFlight' : Honest(r)'
  BY <1>1, <1>3, Zenon DEF SysInv, Honest
<1>6. QueueTypes'
  BY <1>1 DEF SysInv, QueueTypes
<1>7. Inv' /\ RefsOwn(orders')
  BY <1>1, CoreKeptInv, ZenonT(20)
<1>8. QED
  BY <1>3, <1>4, <1>5, <1>6, <1>7 DEF SysInv

-----------------------------------------------------------------------------
(* Clients                                                                  *)

(* A fresh order: it is rejected on the spot, or pending with its placement *)
(* in the executor queue.                                                   *)
LEMMA NewOrderStep ==
    ASSUME SysInv, NEW o \in ClientIds, o \notin used, Inv', RefsOwn(orders'),
           used' = used \cup {o}, execq' = execq, venue' = venue, held' = held,
           heldMatch' = heldMatch, wire' = wire, fails' = fails,
           \A i \in ClientIds \ {o} :
              orders'.live[i] = orders.live[i] \/ orders'.live[i].status = "Absent",
           \/ /\ sendq' = sendq
              /\ \/ orders'.live[o].status = "Absent"
                 \/ orders'.live[o].status = "Rejected" /\ orders'.live[o].filled = 0
           \/ /\ orders'.live[o].status = "Pending" /\ orders'.live[o].filled = 0
              /\ \E g \in GwReq : /\ g.kind = "place" /\ g.qty = orders'.live[o].qty
                                  /\ sendq' = [sendq EXCEPT ![o] = Append(@, g)]
    PROVE  SysInv'
<1>0. o \in OrderIds /\ ClientIds \subseteq OrderIds
  BY NoIdNoClient, ZenonT(20)
<1>1. InFlight' = InFlight /\ EventTypes'
  BY Zenon DEF InFlight, SysInv, EventTypes
<1>2. /\ sendq[o] = << >> /\ execq[o] = << >> /\ venue[o].status = "none" /\ venue[o].filled = 0
      /\ <<o, "place">> \notin fails /\ \A r \in InFlight : r.oid # o
      /\ venue[o].filled <= venue[o].qty
  BY ZenonT(30) DEF SysInv, Path
<1>3. /\ sendq \in [OrderIds -> Seq(GwReq)] /\ execq \in [OrderIds -> Seq(GwReq)]
      /\ venue \in [OrderIds -> BookEntry] /\ sendq[o] \in Seq(GwReq)
  BY <1>0, Zenon DEF SysInv, QueueTypes
<1>4. /\ sendq' \in [OrderIds -> Seq(GwReq)] /\ \A i \in ClientIds \ {o} : sendq'[i] = sendq[i]
      /\ \A i \in 2 .. Len(sendq'[o]) : sendq'[o][i].kind = "cancel"
      /\ Waits(sendq'[o]) => sendq'[o][1].qty = orders'.live[o].qty
      /\ orders'.live[o].status = "Pending" => Waits(sendq'[o])
  <2>0. ~ Waits(sendq[o]) /\ \A i \in 2 .. Len(sendq[o]) : sendq[o][i].kind = "cancel"
    BY <1>2, Zenon DEF Waits, SysInv, Path
  <2>1. CASE sendq' = sendq /\ orders'.live[o].status # "Pending"
    BY <1>3, <2>0, <2>1, Zenon
  <2>2. CASE ~ (sendq' = sendq /\ orders'.live[o].status # "Pending")
    <3>1. PICK g \in GwReq : /\ g.kind = "place" /\ g.qty = orders'.live[o].qty
                             /\ sendq' = [sendq EXCEPT ![o] = Append(@, g)]
      BY <2>2, Zenon
    <3>2. PICK q : q = Append(sendq[o], g)
      BY Zenon
    <3>3. /\ q \in Seq(GwReq) /\ q[1] = g /\ q # << >>
          /\ \A i \in 2 .. Len(q) : q[i].kind = "cancel"
      <4>1. Pushed(sendq[o], g, q)
        BY <1>3, <2>0, <3>2, ShardPush, Zenon
      <4>2. QED
        BY <1>2, <4>1, Zenon DEF Pushed
    <3>4. /\ sendq' \in [OrderIds -> Seq(GwReq)] /\ sendq'[o] = q
          /\ \A i \in ClientIds \ {o} : sendq'[i] = sendq[i]
      BY <1>0, <1>3, <3>1, <3>2, <3>3, ZenonT(20)
    <3>5. QED
      BY <3>1, <3>3, <3>4, ZenonT(30) DEF Waits
  <2>3. QED
    BY <2>1, <2>2, Zenon
<1>5. QueueTypes'
  BY <1>3, <1>4, Zenon DEF QueueTypes
<1>6. ~ Waits(execq[o])
  BY <1>2, ZenonT(20) DEF Waits
<1>7. orders'.live[o].status # "Absent" => orders'.live[o].filled = 0
  BY Zenon
<1>8. Path(o)'
  <2>1. \A i \in 2 .. Len(execq[o]) : execq[o][i].kind = "cancel"
    BY ZenonT(30) DEF SysInv, Path
  <2>2. o \in used'
    OBVIOUS
  <2>3. Present(orders, o)' <=> orders'.live[o].status # "Absent"
    BY ZenonT(20) DEF Present
  <2>4. Present(orders, o)' => orders'.live[o].filled <= venue'[o].filled
    BY <1>2, <1>7, <2>3, SMT, ZenonT(20), SMTT(30)
  <2>5. QED
    BY <1>2, <1>4, <1>6, <2>1, <2>2, <2>4, Zenon DEF Path
<1>9. ASSUME ~ Ambiguous, ~ LossyFeedback PROVE Told(o)'
  <2>1. ~ Refused(o)'
    BY <1>1, <1>2, ZenonT(30) DEF Refused
  <2>2. Present(orders, o)' => /\ orders'.live[o].status \in {"Pending", "Rejected"}
                               /\ Waits(sendq'[o]) \/ orders'.live[o].status = "Rejected"
    BY <1>4 DEF Present
  <2>3. QED
    BY <1>1, <1>2, <2>1, <2>2, Zenon DEF Told
<1>10. \A r \in InFlight' : Honest(r)'
  BY <1>1, Zenon DEF SysInv, Honest
<1>11. QED
  BY <1>1, <1>4, <1>5, <1>8, <1>9, <1>10, SysInvFrom, Zenon

(* process_cancel() sends the cancel after whatever waits already.          *)
LEMMA CancelSentStep ==
    ASSUME SysInv, NEW o \in ClientIds, o \in used, Inv', RefsOwn(orders'), used' = used,
           execq' = execq, venue' = venue, held' = held,
           heldMatch' = heldMatch, wire' = wire, fails' = fails,
           \A i \in ClientIds \ {o} : orders'.live[i] = orders.live[i],
           /\ orders'.live[o].status = orders.live[o].status
           /\ orders'.live[o].filled = orders.live[o].filled
           /\ orders'.live[o].qty = orders.live[o].qty,
           \/ sendq' = sendq
           \/ \E g \in GwReq : g.kind = "cancel" /\ sendq' = [sendq EXCEPT ![o] = Append(@, g)]
    PROVE  SysInv'
<1>0. o \in OrderIds /\ ClientIds \subseteq OrderIds
  BY NoIdNoClient, Zenon
<1>1. InFlight' = InFlight /\ EventTypes'
  BY DEF InFlight, SysInv, EventTypes
<1>2. /\ sendq \in [OrderIds -> Seq(GwReq)] /\ execq \in [OrderIds -> Seq(GwReq)]
      /\ venue \in [OrderIds -> BookEntry] /\ sendq[o] \in Seq(GwReq)
  BY <1>0 DEF SysInv, QueueTypes
<1>3. Path(o) /\ ((~ Ambiguous /\ ~ LossyFeedback) => Told(o))
  BY ZenonT(20) DEF SysInv
<1>4. /\ sendq' \in [OrderIds -> Seq(GwReq)] /\ \A i \in ClientIds \ {o} : sendq'[i] = sendq[i]
      /\ \A i \in 2 .. Len(sendq'[o]) : sendq'[o][i].kind = "cancel"
      /\ Waits(sendq'[o]) <=> Waits(sendq[o])
      /\ Waits(sendq[o]) => sendq'[o][1] = sendq[o][1]
  <2>0. \A i \in 2 .. Len(sendq[o]) : sendq[o][i].kind = "cancel"
    BY <1>3, Zenon DEF Path
  <2>1. CASE sendq' = sendq
    BY <1>2, <2>0, <2>1, ZenonT(30)
  <2>2. CASE sendq' # sendq
    <3>1. PICK g \in GwReq : g.kind = "cancel" /\ sendq' = [sendq EXCEPT ![o] = Append(@, g)]
      BY <2>2, Zenon
    <3>2. PICK q : q = Append(sendq[o], g)
      BY Zenon
    <3>3. /\ q \in Seq(GwReq) /\ (Waits(q) <=> Waits(sendq[o]))
          /\ Waits(sendq[o]) => q[1] = sendq[o][1]
          /\ \A i \in 2 .. Len(q) : q[i].kind = "cancel"
      <4>1. Pushed(sendq[o], g, q)
        BY <1>2, <2>0, <3>1, <3>2, ShardPush, Zenon
      <4>2. QED
        BY <3>1, <4>1, Zenon DEF Pushed
    <3>4. /\ sendq' \in [OrderIds -> Seq(GwReq)] /\ sendq'[o] = q
          /\ \A i \in ClientIds \ {o} : sendq'[i] = sendq[i]
      BY <1>0, <1>2, <3>1, <3>2, <3>3, Zenon
    <3>5. QED
      BY <3>3, <3>4, Zenon
  <2>3. QED
    BY <2>1, <2>2, Zenon
<1>5. QueueTypes'
  BY <1>2, <1>4, Zenon DEF QueueTypes
<1>6. Present(orders, o)' <=> Present(orders, o)
  BY Zenon DEF Present
<1>7. Path(o)'
  <2>1. \A q \in {sendq'[o], execq'[o]} :
           Waits(q) => /\ venue'[o].status = "none"
                       /\ Present(orders, o)' => q[1].qty = orders'.live[o].qty
    BY <1>3, <1>4, <1>6, Zenon DEF Path
  <2>2. QED
    BY <1>3, <1>4, <1>6, <2>1, Zenon DEF Path
<1>8. ASSUME ~ Ambiguous, ~ LossyFeedback PROVE Told(o)'
  <2>1. Told(o)
    BY <1>3, <1>8, ZenonT(20)
  <2>2. Refused(o)' <=> Refused(o)
    BY <1>1 DEF Refused
  <2>3. QED
    BY <1>1, <1>4, <1>6, <2>1, <2>2, ZenonT(30) DEF Told
<1>9. \A r \in InFlight' : Honest(r)'
  BY <1>1, Zenon DEF SysInv, Honest
<1>10. QED
  BY <1>1, <1>4, <1>5, <1>7, <1>8, <1>9, SysInvFrom, Zenon
=============================================================================
