-------------------------- MODULE OmsSystemProofs ---------------------------
(***************************************************************************)
(* The OMS core with its gateway and venue (OmsSystem): the core's own      *)
(* invariant survives everything a gateway really sends, the OMS never      *)
(* books a fill the venue has not made, and once nothing is in flight for   *)
(* an order the two agree on it.                                            *)
(***************************************************************************)
EXTENDS OmsSystemLemmas, OmsSystemSteps

-----------------------------------------------------------------------------
(* The writer                                                               *)

(* The writer learns that a call to the gateway failed.                     *)
LEMMA FeedbackStep ==
    ASSUME SysInv, ~ ReuseIds, NEW o \in ClientIds, NEW kind \in {"place", "cancel"},
           Feedback(o, kind)
    PROVE  SysInv'
<1>0. o \in OrderIds /\ ClientIds \subseteq OrderIds
  BY NoIdNoClient
<1>1. /\ <<o, kind>> \in fails /\ fails' = fails \ {<<o, kind>>}
      /\ sendq' = sendq /\ execq' = execq /\ venue' = venue
      /\ held' = held /\ heldMatch' = heldMatch /\ wire' = wire
  BY DEF Feedback
<1>2. InFlight' = InFlight /\ EventTypes'
  BY <1>1 DEF InFlight, SysInv, EventTypes
<1>3. \A i \in ClientIds \ {o} : <<i, "place">> \in fails' <=> <<i, "place">> \in fails
  BY <1>1
<1>4. CASE kind = "cancel"
  <2>1. CoreKept
    BY <1>4 DEF Feedback, GatewayCancelSendFailed, CoreKept
  <2>2. ASSUME NEW i \in ClientIds PROVE Path(i)' /\ (Told(i) => Told(i)')
    <3>1. Path(i) /\ (<<i, "place">> \in fails' <=> <<i, "place">> \in fails)
      BY <1>1, <1>4 DEF SysInv
    <3>2. QED
      BY <1>1, <1>2, <2>1, <3>1, OthersKept DEF CoreKept
  <2>3. \A r \in InFlight' : Honest(r)'
    BY <1>1, <1>2 DEF SysInv, Honest
  <2>4. QueueTypes'
    BY <1>1 DEF SysInv, QueueTypes
  <2>5. Inv' /\ RefsOwn(orders')
    BY <2>1, CoreKeptInv, ZenonT(20)
  <2>6. QED
    BY <1>2, <2>2, <2>3, <2>4, <2>5 DEF SysInv
<1>5. CASE kind = "place"
  <2>1. GatewaySendFailed(o)
    BY <1>5 DEF Feedback
  <2>2. Inv' /\ used' = used
    BY <1>0, <2>1, GatewaySendFailedKeepsInv, ZenonT(20) DEF SysInv, GatewaySendFailed
  <2>3. /\ Path(o) /\ o \in used /\ Refused(o)
        /\ (~ Ambiguous /\ ~ LossyFeedback) => Told(o)
    BY <1>1, <1>5, ZenonT(30) DEF SysInv, Path, Refused
  <2>4. /\ RefsOwn(orders')
        /\ \A i \in ClientIds \ {o} :
              orders'.live[i] = orders.live[i] \/ orders'.live[i].status = "Absent"
        /\ \/ orders'.live[o].status = "Absent"
           \/ /\ Present(orders, o) /\ orders'.live[o].qty = orders.live[o].qty
              /\ orders'.live[o].filled = orders.live[o].filled
              /\ \/ orders'.live[o].status = "Rejected"
                 \/ orders'.live[o].status = orders.live[o].status /\ IsTerminal(orders.live[o])
    <3>1. CASE ~ Present(orders, o) \/ IsTerminal(orders.live[o])
      <4>1. orders' = orders
        BY <2>1, <3>1 DEF GatewaySendFailed
      <4>2. QED
        BY <3>1, <4>1 DEF SysInv, Present
    <3>2. CASE ~ (~ Present(orders, o) \/ IsTerminal(orders.live[o]))
      <4>1. PICK s0 : s0 = [orders |-> orders, resv |-> resv, pos |-> pos]
        BY Zenon
      <4>2. orders' = SendFailed(s0, o).orders
        BY <2>1, <3>2, <4>1, Zenon DEF GatewaySendFailed
      <4>3. /\ orders \in Orders /\ resv \in Store /\ pos \in [Keys -> Position]
            /\ TotalsAreSums(resv) /\ Len(orders.lru) <= MaxCachedOrders /\ RefsOwn(orders)
        BY SMT, ZenonT(20), SMTT(30) DEF SysInv, Inv, TypeOK, ReservedTotalsExact, CacheBounded
      <4>4. Changes(orders, orders', o)
        BY <1>0, <4>1, <4>2, <4>3, SendFailedEffect, ZenonT(30)
      <4>5. /\ RefsOwn(orders')
            /\ \/ orders'.live[o].status = "Absent"
               \/ /\ orders'.live[o].status = "Rejected"
                  /\ orders'.live[o].filled = orders.live[o].filled
                  /\ orders'.live[o].qty = orders.live[o].qty
        <5> DEFINE n == SendFailed([orders |-> orders, resv |-> resv, pos |-> pos], o).orders
        <5>1. /\ RefsOwn(n)
              /\ \/ n.live[o].status = "Absent"
                 \/ /\ n.live[o].status = "Rejected" /\ n.live[o].filled = orders.live[o].filled
                    /\ n.live[o].qty = orders.live[o].qty
          BY <1>0, <4>3, SendFailedOwn, ZenonT(30), SMTT(30)
        <5>2. orders' = n
          BY <4>1, <4>2
        <5> HIDE DEF n
        <5>3. QED
          BY <5>1, <5>2, Zenon
      <4>6. QED
        BY <1>0, <3>2, <4>4, <4>5 DEF Changes
    <3>3. QED
      BY <3>1, <3>2, SMT, ZenonT(20), SMTT(30)
  <2>5. \/ orders'.live[o].status = "Absent"
        \/ /\ Present(orders, o) /\ orders'.live[o].qty = orders.live[o].qty
           /\ orders'.live[o].filled <= venue[o].filled
    BY <2>3, <2>4, ZenonT(20) DEF Path
  <2>6. (~ Ambiguous /\ ~ LossyFeedback /\ orders'.live[o].status # "Absent") =>
           venue[o].status = "none" /\ orders'.live[o].status = "Rejected"
    <3>1. SUFFICES ASSUME ~ Ambiguous, ~ LossyFeedback, orders'.live[o].status # "Absent"
                   PROVE  venue[o].status = "none" /\ orders'.live[o].status = "Rejected"
      BY SMT, ZenonT(20), SMTT(30)
    <3>2. venue[o].status = "none"
      BY <2>3, <3>1 DEF Told
    <3>3. Present(orders, o) => orders.live[o].status \in {"Pending", "Rejected"}
      BY <2>3, <3>1, <3>2 DEF Told
    <3>4. QED
      BY <2>4, <3>1, <3>2, <3>3, SMT, ZenonT(20), SMTT(30) DEF IsTerminal
  <2>7. fails' \subseteq fails /\ used \subseteq used'
    BY <1>1, <2>2, ZenonT(20)
  <2>8. QED
    BY <1>1, <1>2, <1>3, <2>2, <2>3, <2>4, <2>5, <2>6, <2>7, WriterStep, Zenon
<1>6. QED
  BY <1>4, <1>5, SMT, ZenonT(20), SMTT(30)

(* The NATS subscriber hands the next report to the writer: what overtook   *)
(* what on the way does not matter.                                         *)
LEMMA DeliverReportStep ==
    ASSUME SysInv, ~ ReuseIds, DeliverReport
    PROVE  SysInv'
<1>1. /\ wire # << >> /\ OrderReport(Head(wire)) /\ wire' = Tail(wire)
      /\ sendq' = sendq /\ execq' = execq /\ venue' = venue
      /\ held' = held /\ heldMatch' = heldMatch /\ fails' = fails
  BY SMT, ZenonT(20), SMTT(30) DEF DeliverReport
<1>2. PICK r : r = Head(wire)
  OBVIOUS
<1>3. r \in Report /\ r \in InFlight /\ InFlight = InFlight' \cup {r} /\ EventTypes'
  <2>1. wire \in Seq(Report)
    BY SMT, ZenonT(20), SMTT(30) DEF SysInv, EventTypes
  <2>2. /\ wire' \in Seq(Report) /\ r \in Report /\ r \in Flights(wire, held, heldMatch)
        /\ Flights(wire, held, heldMatch) = Flights(wire', held, heldMatch) \cup {r}
    BY <1>1, <1>2, <2>1, WirePop
  <2>3. EventTypes'
    BY <1>1, <2>2 DEF SysInv, EventTypes
  <2>4. InFlight' = Flights(wire', held, heldMatch) /\ InFlight = Flights(wire, held, heldMatch)
    BY <1>1 DEF InFlight
  <2>5. QED
    BY <2>2, <2>3, <2>4
<1>4. Honest(r)
  BY <1>3 DEF SysInv
<1>5. PICK o \in ClientIds : o = r.oid
  BY <1>4 DEF Honest
<1>6. o \in OrderIds /\ ClientIds \subseteq OrderIds
  BY NoIdNoClient
<1>7. PICK l, v : l = orders.live[o] /\ v = venue[o]
  BY SMT, ZenonT(20), SMTT(30)
<1>8. l \in LiveOrder /\ v \in BookEntry
  BY <1>6, <1>7 DEF SysInv, Inv, TypeOK, Orders, QueueTypes
<1>9. Path(o) /\ ((~ Ambiguous /\ ~ LossyFeedback) => Told(o))
  BY ZenonT(20) DEF SysInv
<1>10. o \in used
  BY <1>3, <1>5, <1>9, ZenonT(20) DEF Path
<1>11. /\ Inv' /\ RefsOwn(orders')
       /\ \A i \in ClientIds : i \in used' <=> i \in used
       /\ \A i \in ClientIds \ {o} :
             orders'.live[i] = orders.live[i] \/ orders'.live[i].status = "Absent"
       /\ \/ orders'.live[o].status = "Absent"
          \/ /\ Present(orders, o)
             /\ orders'.live[o].status = StatusAfter(l, r)
             /\ orders'.live[o].filled = FilledAfter(l, r)
             /\ orders'.live[o].qty = l.qty
  <2>1. /\ Inv /\ RefsOwn(orders) /\ r.gw /\ r.ref \in {NoRef, RefOf[r.oid]}
        /\ r.link => r.ref # NoRef
    BY <1>4 DEF SysInv, Honest
  <2>2. OrderReport(r)
    BY <1>1, <1>2
  <2>3. QED
    BY <1>3, <1>5, <1>7, <2>1, <2>2, ReportEffect, Zenon
<1>12. used \subseteq used'
  BY <1>1, OrderReportUsed, ZenonT(20)
<1>13. Present(orders, o) =>
          /\ ~ InfersState(l, r)
          /\ FilledAfter(l, r) <= v.filled /\ FilledAfter(l, r) >= l.filled
          /\ (r.state # NoState /\ r.filled = v.filled) => FilledAfter(l, r) = v.filled
          /\ r.state = NoState => FilledAfter(l, r) = l.filled
  <2>1. SUFFICES ASSUME Present(orders, o)
                 PROVE  /\ ~ InfersState(l, r)
                        /\ FilledAfter(l, r) <= v.filled /\ FilledAfter(l, r) >= l.filled
                        /\ (r.state # NoState /\ r.filled = v.filled)
                              => FilledAfter(l, r) = v.filled
                        /\ r.state = NoState => FilledAfter(l, r) = l.filled
    BY ZenonT(20)
  <2>2. l.filled <= v.filled /\ (v.status # "none" => l.qty = v.qty)
    BY <1>7, <1>9, <2>1, ZenonT(20) DEF Path
  <2>3. QED
    BY <1>3, <1>4, <1>5, <1>7, <1>8, <2>2, HonestFill
<1>14. \/ orders'.live[o].status = "Absent"
       \/ /\ Present(orders, o) /\ orders'.live[o].qty = orders.live[o].qty
          /\ orders'.live[o].filled <= venue[o].filled
  BY <1>7, <1>11, <1>13, ZenonT(20)
<1>15. ASSUME ~ Ambiguous, ~ LossyFeedback, orders'.live[o].status # "Absent"
       PROVE  /\ v.status = "none" =>
                    /\ orders'.live[o].status \in {"Pending", "Rejected"}
                    /\ \/ Waits(sendq[o]) \/ Waits(execq[o]) \/ Refused(o)'
                       \/ orders'.live[o].status = "Rejected"
              /\ v.status # "none" =>
                    /\ orders'.live[o].status \in {"Pending", "Rejected", "Booked", StateOf(v)}
                    /\ \/ orders'.live[o].status = StateOf(v)
                       \/ \E x \in InFlight' : x.oid = o /\ x.state = StateOf(v)
                    /\ \/ orders'.live[o].filled = v.filled
                       \/ \E x \in InFlight' : /\ x.oid = o /\ x.state # NoState
                                               /\ x.filled = v.filled
  <2>1. Told(o) /\ Present(orders, o)
    BY <1>9, <1>11, <1>15
  <2>2. /\ orders'.live[o].status = StatusAfter(l, r) /\ orders'.live[o].filled = FilledAfter(l, r)
    BY <1>11, <1>15
  <2>3. ~ InfersState(l, r)
    BY <1>13, <2>1
  <2>4. CASE r.state = NoState /\ r.exec = "Rejected"
    <3>1. StatusAfter(l, r) = "Rejected"
      BY <2>3, <2>4, ZenonT(20) DEF StatusAfter
    <3>2. v.status = "none"
      BY <1>3, <1>5, <1>7, <2>1, <2>4, ZenonT(30) DEF Told, Refused
    <3>3. QED
      BY <2>2, <3>1, <3>2
  <2>5. CASE r.state = NoState /\ r.exec # "Rejected"
    <3>1. ~ r.link
      BY <1>4, <2>5 DEF Honest
    <3>2. StatusAfter(l, r) = l.status
      BY <2>3, <2>5, <3>1 DEF StatusAfter, LinkOnly
    <3>3. FilledAfter(l, r) = l.filled
      BY <1>13, <2>1, <2>5
    <3>4. Refused(o) => Refused(o)'
      BY <1>1, <1>3, <2>5 DEF Refused
    <3>5. StateOf(v) # NoState
      BY ZenonT(20) DEF StateOf, NoState
    <3>6. v.status = "none" =>
             /\ l.status \in {"Pending", "Rejected"}
             /\ Waits(sendq[o]) \/ Waits(execq[o]) \/ Refused(o) \/ l.status = "Rejected"
      BY <1>7, <2>1, ZenonT(20) DEF Told
    <3>7. v.status # "none" =>
             /\ l.status \in {"Pending", "Rejected", "Booked", StateOf(v)}
             /\ l.status = StateOf(v) \/ \E x \in InFlight : x.oid = o /\ x.state = StateOf(v)
             /\ \/ l.filled = v.filled
                \/ \E x \in InFlight : x.oid = o /\ x.state # NoState /\ x.filled = v.filled
      BY <1>7, <2>1 DEF Told
    <3>8. ASSUME NEW x \in InFlight, x.state # NoState PROVE x \in InFlight'
      BY <1>3, <2>5, <3>8, ZenonT(20)
    <3>9. QED
      BY <2>2, <3>2, <3>3, <3>4, <3>5, <3>6, <3>7, <3>8
  <2>6. CASE r.state # NoState
    <3>1. v.status # "none" /\ r.exec = "none"
      BY <1>4, <1>5, <1>7, <2>6 DEF Honest
    <3>2. r.state \in {"Booked", StateOf(v)}
      BY <1>3, <1>5, <1>7, <2>1, <2>6 DEF Told
    <3>3. /\ l.status \in {"Pending", "Rejected", "Booked", StateOf(v)}
          /\ l.status = StateOf(v) \/ \E x \in InFlight : x.oid = o /\ x.state = StateOf(v)
          /\ \/ l.filled = v.filled
             \/ \E x \in InFlight : x.oid = o /\ x.state # NoState /\ x.filled = v.filled
      BY <1>7, <2>1, <3>1 DEF Told
    <3>4. StateOf(v) \in {"Booked", "Filled", "Cancelled"}
      BY SMT, ZenonT(20), SMTT(30) DEF StateOf
    <3>5. MapOrderStatus(r.state) = r.state
      BY <3>2, <3>4, VenueStates
    <3>6. StatusAfter(l, r) = IF l.status \notin {"Cancelled", "Filled"} THEN r.state ELSE l.status
      <4>1. r.state # "Unspecified"
        BY <3>2, <3>4
      <4>2. StatusAfter(l, r) = UpdateStatus(l.status, r.state)
        BY <2>3, <2>6, <3>1, <3>5 DEF StatusAfter, LinkOnly
      <4>3. QED
        BY <4>1, <4>2 DEF UpdateStatus
    <3>7. StatusAfter(l, r) \in {"Booked", StateOf(v)}
      BY <3>2, <3>3, <3>6
    <3>8. StatusAfter(l, r) = StateOf(v) \/ \E x \in InFlight' : x.oid = o /\ x.state = StateOf(v)
      <4>1. SUFFICES ASSUME StatusAfter(l, r) # StateOf(v)
                     PROVE  \E x \in InFlight' : x.oid = o /\ x.state = StateOf(v)
        OBVIOUS
      <4>2. l.status \notin {"Cancelled", "Filled"} /\ r.state # StateOf(v) /\ r.state = "Booked"
        BY <3>2, <3>3, <3>6, <4>1
      <4>3. l.status # StateOf(v)
        BY <3>4, <4>2
      <4>4. PICK x \in InFlight : x.oid = o /\ x.state = StateOf(v)
        BY <3>3, <4>3
      <4>5. x \in InFlight'
        BY <1>3, <4>2, <4>4
      <4>6. QED
        BY <4>4, <4>5
    <3>9. \/ FilledAfter(l, r) = v.filled
          \/ \E x \in InFlight' : x.oid = o /\ x.state # NoState /\ x.filled = v.filled
      <4>1. CASE l.filled = v.filled
        <5>1. FilledAfter(l, r) \in Nat /\ v.filled \in Nat
          BY <1>3, <1>8, FilledAfterGrows DEF BookEntry
        <5>2. QED
          BY <1>13, <2>1, <4>1, <5>1
      <4>2. CASE l.filled # v.filled
        <5>1. PICK x \in InFlight : x.oid = o /\ x.state # NoState /\ x.filled = v.filled
          BY <3>3, <4>2
        <5>2. x = r \/ x \in InFlight'
          BY <1>3
        <5>3. QED
          BY <1>13, <2>1, <2>6, <5>1, <5>2
      <4>3. QED
        BY <4>1, <4>2, SMT, ZenonT(20), SMTT(30)
    <3>10. QED
      BY <2>2, <3>1, <3>7, <3>8, <3>9
  <2>7. QED
    BY <2>4, <2>5, <2>6, ZenonT(20)
<1>16. InFlight' \subseteq InFlight /\ \A x \in InFlight : x.oid # o => x \in InFlight'
  BY <1>3, <1>5
<1>17. QED
  BY <1>1, <1>3, <1>7, <1>10, <1>11, <1>12, <1>14, <1>15, <1>16, WriterStep, Zenon

-----------------------------------------------------------------------------
(* Clients                                                                  *)

(* process_order() in the writer, with its dispatch to the executor.        *)
LEMMA ClientPlacesStep ==
    ASSUME SysInv, ~ ReuseIds, NEW o \in ClientIds, NEW req \in Requests, ClientPlaces(o, req)
    PROVE  SysInv'
<1>0. o \in OrderIds /\ ClientIds \subseteq OrderIds
  BY NoIdNoClient
<1>1. /\ execq' = execq /\ venue' = venue /\ held' = held /\ heldMatch' = heldMatch
      /\ wire' = wire /\ fails' = fails
  BY DEF ClientPlaces
<1>2. Inv /\ RefsOwn(orders)
  BY ZenonT(20) DEF SysInv
<1>3. CASE PlaceDropped(o, req)
  <2>1. /\ Inv' /\ RefsOwn(orders') /\ used' = used \cup {o} /\ o \notin used
        /\ \A i \in ClientIds \ {o} :
              orders'.live[i] = orders.live[i] \/ orders'.live[i].status = "Absent"
        /\ \/ orders'.live[o].status = "Absent"
           \/ orders'.live[o].status = "Rejected" /\ orders'.live[o].filled = 0
    BY <1>2, <1>3, PlaceDroppedEffect
  <2>2. sendq' = sendq
    BY <1>3 DEF PlaceDropped
  <2>3. QED
    BY <1>1, <2>1, <2>2, NewOrderStep, ZenonT(20)
<1>4. CASE PlaceDispatched(o, req)
  <2>1. /\ PlaceOrder(o, req) /\ o \notin used
        /\ sendq' = IF Emits("SendOrderToGw", o)
                    THEN [sendq EXCEPT ![o] = Append(@, GwRequest("place", orders'.live[o]))]
                    ELSE sendq
    BY <1>4 DEF PlaceDispatched, PlaceOrder
  <2>2. Inv' /\ (orders' = orders \/ Changes(orders, orders', o))
    BY <1>2, <2>1, PlaceOrderEffect
  <2>3. \A i \in ClientIds \ {o} :
           orders'.live[i] = orders.live[i] \/ orders'.live[i].status = "Absent"
    BY <1>0, <2>2 DEF Changes
  <2>4. CASE PlaceBlocked(o, req)
    <3>1. orders' = orders /\ used' = used /\ out' = << >>
      BY <2>4 DEF PlaceBlocked
    <3>2. UNCHANGED channels
      BY <1>1, <2>1, <3>1, NoAct, ZenonT(20) DEF channels
    <3>3. QED
      BY <2>2, <3>1, <3>2, ChannelsKept
  <2>5. CASE PlaceRefused(o, req) \/ PlaceUncovered(o, req)
    <3>1. PICK bc \in BOOLEAN, key \in Targets \cup {NoTarget} :
             orders' = CloseAsRejected(o, req, bc, key)
      <4>1. CASE PlaceRefused(o, req)
        <5>1. FALSE \in BOOLEAN /\ NoTarget \in Targets \cup {NoTarget}
          OBVIOUS
        <5>2. orders' = CloseAsRejected(o, req, FALSE, NoTarget)
          BY <4>1 DEF PlaceRefused
        <5>3. QED
          BY <5>1, <5>2, Zenon
      <4>2. CASE PlaceUncovered(o, req)
        <5>1. Meta[req.inst].bc \in BOOLEAN /\ Meta[req.inst].pos \in Targets \cup {NoTarget}
          BY <4>2, RequestType, ZenonT(20) DEF PlaceUncovered
        <5>2. orders' = CloseAsRejected(o, req, Meta[req.inst].bc, Meta[req.inst].pos)
          BY <4>2, ZenonT(20) DEF PlaceUncovered
        <5>3. QED
          BY <5>1, <5>2, Zenon
      <4>3. QED
        BY <2>5, <4>1, <4>2
    <3>2. used' = used \cup {o} /\ out' = <<Publish(o)>>
      BY <2>5, ZenonT(30) DEF PlaceRefused, PlaceUncovered
    <3>3. /\ RefsOwn(orders')
          /\ \/ orders'.live[o].status = "Absent"
             \/ orders'.live[o].status = "Rejected" /\ orders'.live[o].filled = 0
      <4> DEFINE n == CloseAsRejected(o, req, bc, key)
      <4>1. /\ RefsOwn(n)
            /\ n.live[o].status = "Absent" \/ (n.live[o].status = "Rejected" /\ n.live[o].filled = 0)
        BY <1>0, <1>2, RejectedNew, ZenonT(30)
      <4> HIDE DEF n
      <4>2. QED
        BY <3>1, <4>1, Zenon DEF n
    <3>4. sendq' = sendq
      <4>1. PICK x : x = Publish(o)
        BY SMT, ZenonT(20), SMTT(30)
      <4>2. x.act # "SendOrderToGw"
        BY <4>1 DEF Publish, Act
      <4>3. QED
        BY <2>1, <3>2, <4>1, <4>2, OneAct
    <3>5. QED
      BY <1>1, <2>1, <2>2, <2>3, <3>2, <3>3, <3>4, NewOrderStep, Zenon
  <2>6. CASE PlaceAccepted(o, req)
    <3>1. /\ Acceptable(req) /\ orders' = Accepted(o, req).orders /\ used' = used \cup {o}
          /\ out' = <<PersistOrder(o, FALSE), Act("SendOrderToGw", o, FALSE)>>
      BY <2>6 DEF PlaceAccepted
    <3>2. /\ RefsOwn(orders') /\ orders'.live[o] \in LiveOrder
          /\ orders'.live[o].status = "Pending" /\ orders'.live[o].filled = 0
      <4> DEFINE n == Accepted(o, req).orders
      <4>1. /\ RefsOwn(n) /\ n.live[o] \in LiveOrder
            /\ n.live[o].status = "Pending" /\ n.live[o].filled = 0
        BY <1>0, <1>2, <3>1, AcceptedNew, ZenonT(30)
      <4> HIDE DEF n
      <4>2. QED
        BY <3>1, <4>1, Zenon DEF n
    <3>3. Emits("SendOrderToGw", o)
      <4>1. PICK x, y : x = PersistOrder(o, FALSE) /\ y = Act("SendOrderToGw", o, FALSE)
        BY Zenon
      <4>2. y.act = "SendOrderToGw" /\ y.on = o
        BY <4>1 DEF Act
      <4>3. 2 \in DOMAIN out' /\ out'[2] = y
        BY <3>1, <4>1
      <4>4. QED
        BY <4>2, <4>3 DEF Emits
    <3>4. PICK l : l = orders'.live[o]
      OBVIOUS
    <3>5. PICK g : g = GwRequest("place", l)
      BY ZenonT(20)
    <3>6. g \in GwReq /\ g.kind = "place" /\ g.qty = l.qty
      BY <3>2, <3>4, <3>5 DEF GwRequest, GwReq, LiveOrder
    <3>7. sendq' = [sendq EXCEPT ![o] = Append(@, g)]
      BY <2>1, <3>3, <3>4, <3>5
    <3>8. \E x \in GwReq : /\ x.kind = "place" /\ x.qty = orders'.live[o].qty
                           /\ sendq' = [sendq EXCEPT ![o] = Append(@, x)]
      BY <3>4, <3>6, <3>7, Zenon
    <3>9. QED
      BY <1>1, <2>1, <2>2, <2>3, <3>1, <3>2, <3>8, NewOrderStep, Zenon
  <2>7. QED
    BY <2>1, <2>4, <2>5, <2>6 DEF PlaceOrder
<1>5. QED
  BY <1>3, <1>4 DEF ClientPlaces

(* process_cancel() in the writer.                                          *)
LEMMA ClientCancelsStep ==
    ASSUME SysInv, ~ ReuseIds, NEW o \in ClientIds, ClientCancels(o)
    PROVE  SysInv'
<1>0. o \in OrderIds /\ ClientIds \subseteq OrderIds
  BY NoIdNoClient
<1>1. /\ CancelOrder(o) /\ execq' = execq /\ venue' = venue /\ held' = held
      /\ heldMatch' = heldMatch /\ wire' = wire /\ fails' = fails
  BY DEF ClientCancels
<1>2. Inv' /\ used' = used
  BY <1>0, <1>1, CancelOrderKeepsInv DEF SysInv, CancelOrder
<1>3. CASE CancelRefused(o)
  <2>1. orders' = orders /\ (out' = << >> \/ out' = <<Publish(o)>>)
    BY <1>3 DEF CancelRefused
  <2>2. ~ Emits("SendCancelToGw", o)
    <3>1. PICK x : x = Publish(o)
      OBVIOUS
    <3>2. x.act # "SendCancelToGw"
      BY <3>1 DEF Publish, Act
    <3>3. QED
      BY <2>1, <3>1, <3>2, OneAct, NoAct
  <2>3. sendq' = sendq
    BY <2>2 DEF ClientCancels
  <2>4. UNCHANGED channels
    BY <1>1, <2>3, ZenonT(20) DEF channels
  <2>5. QED
    BY <1>2, <2>1, <2>4, ChannelsKept
<1>4. CASE CancelSent(o)
  <2>1. PICK l : l = orders.live[o]
    OBVIOUS
  <2>2. orders \in Orders /\ l \in LiveOrder
    BY <1>0, <2>1, ZenonT(30) DEF SysInv, Inv, TypeOK, Orders
  <2>3. PICK c : c = [l EXCEPT !.cancels = l.cancels + 1]
    BY Zenon
  <2>4. c.status = l.status /\ c.filled = l.filled /\ c.qty = l.qty /\ c \in LiveOrder
    BY <2>2, <2>3 DEF LiveOrder
  <2>5. orders' = [orders EXCEPT !.live = [orders.live EXCEPT ![o] = c]]
    BY <1>4, <2>1, <2>2, <2>3 DEF CancelSent, Orders
  <2>6. PICK lv : lv = [orders.live EXCEPT ![o] = c]
    OBVIOUS
  <2>7. lv[o] = c /\ \A i \in OrderIds \ {o} : lv[i] = orders.live[i]
    BY <1>0, <2>2, <2>6, SMT, ZenonT(20), SMTT(30) DEF Orders
  <2>8. orders'.live = lv /\ orders'.refIdx = orders.refIdx /\ orders'.extIdx = orders.extIdx
    BY <2>2, <2>5, <2>6 DEF Orders
  <2>9. RefsOwn(orders')
    BY <2>8, ZenonT(30) DEF RefsOwn, SysInv
  <2>10. /\ orders'.live[o].status = orders.live[o].status
         /\ orders'.live[o].filled = orders.live[o].filled
         /\ orders'.live[o].qty = orders.live[o].qty
         /\ \A i \in ClientIds \ {o} : orders'.live[i] = orders.live[i]
    BY <1>0, <2>1, <2>4, <2>7, <2>8
  <2>11. o \in used
    BY <1>0, <1>4 DEF CancelSent, SysInv, Inv, Sound, Present
  <2>12. PICK g : g = GwRequest("cancel", l)
    OBVIOUS
  <2>13. g \in GwReq /\ g.kind = "cancel"
    BY <2>2, <2>12 DEF GwRequest, GwReq, LiveOrder
  <2>14. sendq' = sendq \/ sendq' = [sendq EXCEPT ![o] = Append(@, g)]
    BY <2>1, <2>12 DEF ClientCancels
  <2>15. \/ sendq' = sendq
         \/ \E x \in GwReq : x.kind = "cancel" /\ sendq' = [sendq EXCEPT ![o] = Append(@, x)]
    BY <2>13, <2>14, Zenon
  <2>16. QED
    BY <1>1, <1>2, <2>9, <2>10, <2>11, <2>15, CancelSentStep
<1>5. QED
  BY <1>1, <1>3, <1>4 DEF CancelOrder

(* A balance update touches no order.                                       *)
LEMMA FundedStep ==
    ASSUME SysInv, NEW u \in Updates, Funded(u)
    PROVE  SysInv'
<1>1. BalanceUpdate(u) /\ UNCHANGED channels
  BY DEF Funded
<1>2. /\ orders' = orders /\ resv' = resv /\ pending' = pending /\ panic' = panic
      /\ used' = used /\ bal' \in [Keys -> Int] /\ pos' \in [Keys -> Position]
  BY <1>1, BalanceUpdateEffect, ZenonT(20) DEF SysInv, Inv
<1>3. Inv'
  BY <1>2, StoresUnchangedKeepsInv DEF SysInv, Inv, TypeOK
<1>4. QED
  BY <1>1, <1>2, <1>3, ChannelsKept

-----------------------------------------------------------------------------
(* The system                                                               *)

(* Nothing is in flight and nothing is known at the start.                  *)
LEMMA SysInitInv == SysInit => SysInv
<1> SUFFICES ASSUME SysInit PROVE SysInv
  OBVIOUS
<1>1. /\ Init /\ sendq = [o \in OrderIds |-> << >>] /\ execq = [o \in OrderIds |-> << >>]
      /\ venue = [o \in OrderIds |-> NoBookEntry] /\ held = [o \in OrderIds |-> << >>]
      /\ heldMatch = [o \in OrderIds |-> << >>] /\ wire = << >> /\ fails = {}
  BY DEF SysInit
<1>2. Inv /\ ClientIds \subseteq OrderIds
  BY <1>1, InitInv, NoIdNoClient
<1>3. Ids(<< >>) = {} /\ Len(<< >>) = 0
  <2>1. 1 .. 0 = {} /\ Len(<< >>) = 0
    OBVIOUS
  <2>2. QED
    BY <2>1 DEF Ids
<1>4. << >> \in Seq(GwReq) /\ << >> \in Seq(Report)
  OBVIOUS
<1>5. NoBookEntry \in BookEntry /\ NoBookEntry.status = "none"
      /\ NoBookEntry.filled = 0 /\ NoBookEntry.qty = 0
  <2>1. AbsentOrder.acct \in Accounts
    BY AbsentOrderType, ConstantsAssumption, SMTT(30) DEF LiveOrder
  <2>2. QED
    BY <2>1 DEF NoBookEntry, BookEntry, VenueStatus
<1>6. QueueTypes
  BY <1>1, <1>4, <1>5 DEF QueueTypes
<1>7. Window(held) /\ Window(heldMatch) /\ wire \in Seq(Report)
  BY <1>1, <1>2, <1>3, <1>4 DEF Window
<1>8. InFlight = {}
  <2>1. ASSUME NEW r \in InFlight PROVE FALSE
    <3>1. r \in Ids(wire) \/ \E o \in ClientIds : r \in Ids(held[o]) \/ r \in Ids(heldMatch[o])
      BY FlightsIn DEF InFlight
    <3>2. \A o \in ClientIds : held[o] = << >> /\ heldMatch[o] = << >>
      BY <1>1, <1>2
    <3>3. QED
      BY <1>1, <1>3, <3>1, <3>2, Zenon
  <2>2. QED
    BY <2>1
<1>9. \A x \in Refs : orders.refIdx[x] = NoId /\ orders.extIdx[x] = NoId
  BY <1>1, ZenonT(20) DEF Init, EmptyOrders
<1>10. \A o \in ClientIds : ~ Present(orders, o) /\ used = {}
  BY <1>1, <1>2 DEF Init, EmptyOrders, AbsentOrder, Present
<1>11. RefsOwn(orders)
  BY <1>9, NoIdNoClient DEF RefsOwn
<1>12. ASSUME NEW o \in ClientIds PROVE Path(o) /\ Told(o)
  <2>1. /\ sendq[o] = << >> /\ execq[o] = << >> /\ venue[o].status = "none"
        /\ venue[o].filled = 0 /\ venue[o].qty = 0
    BY <1>1, <1>2, <1>5
  <2>2. ~ Waits(sendq[o]) /\ ~ Waits(execq[o])
    BY <2>1, Zenon DEF Waits
  <2>3. \A i \in 2 .. 0 : FALSE
    OBVIOUS
  <2>4. /\ \A i \in 2 .. Len(sendq[o]) : sendq[o][i].kind = "cancel"
        /\ \A i \in 2 .. Len(execq[o]) : execq[o][i].kind = "cancel"
    BY <1>3, <2>1, <2>3, Zenon
  <2>5. Path(o)
    BY <1>1, <1>8, <1>10, <2>1, <2>2, <2>4, SMT, ZenonT(20), SMTT(30) DEF Path
  <2>6. ~ Refused(o)
    BY <1>1, <1>8, ZenonT(20) DEF Refused
  <2>7. Told(o)
    BY <1>8, <1>10, <2>6 DEF Told
  <2>8. QED
    BY <2>5, <2>7
<1>13. QED
  BY <1>2, <1>6, <1>7, <1>8, <1>11, <1>12 DEF SysInv, EventTypes

(* Every step of the system keeps the invariant.                            *)
LEMMA SysNextInv ==
    ASSUME ~ ReuseIds
    PROVE  SysInv /\ [SysNext]_sysVars => SysInv'
<1> SUFFICES ASSUME SysInv, [SysNext]_sysVars PROVE SysInv'
  OBVIOUS
<1>1. CASE UNCHANGED sysVars
  <2>1. CoreKept /\ UNCHANGED channels
    BY <1>1 DEF sysVars, CoreKept, channels
  <2>2. Inv'
    BY <2>1, CoreKeptInv
  <2>3. QED
    BY <2>1, <2>2, ChannelsKept DEF CoreKept
<1>2. ASSUME NEW o \in ClientIds, NEW req \in Requests, ClientPlaces(o, req) PROVE SysInv'
  BY <1>2, ClientPlacesStep
<1>3. ASSUME NEW o \in ClientIds, ClientCancels(o) PROVE SysInv'
  BY <1>3, ClientCancelsStep
<1>4. ASSUME NEW u \in Updates, Funded(u) PROVE SysInv'
  BY <1>4, FundedStep
<1>5. ASSUME NEW o \in ClientIds, GwWorker(o) PROVE SysInv'
  BY <1>5, GwWorkerStep
<1>6. ASSUME NEW o \in ClientIds, NEW kind \in {"place", "cancel"}, Feedback(o, kind) PROVE SysInv'
  BY <1>6, FeedbackStep
<1>7. ASSUME NEW o \in ClientIds, ExecWorker(o) PROVE SysInv'
  BY <1>7, ExecWorkerStep
<1>8. ASSUME NEW o \in ClientIds, NEW q \in 1 .. MaxTraded, VenueMatches(o, q) PROVE SysInv'
  BY <1>8, VenueMatchesStep
<1>9. ASSUME NEW o \in ClientIds, QueueEvents(o) PROVE SysInv'
  BY <1>9, QueueEventsStep
<1>10. CASE DeliverReport
  BY <1>10, DeliverReportStep
<1>11. QED
  BY <1>1, <1>2, <1>3, <1>4, <1>5, <1>6, <1>7, <1>8, <1>9, <1>10 DEF SysNext

(* Behind a gateway and a venue that race each other, the reservation       *)
(* totals stay exact, the closed-order LRU stays bounded, every reservation *)
(* belongs to an open order, and open_order_ids holds only live, unfinished *)
(* orders of the OMS.                                                       *)
THEOREM SystemKeepsCoreSound ==
    ASSUME ~ ReuseIds
    PROVE  SysSpec => [](/\ ReservedTotalsExact /\ CacheBounded
                        /\ ReservationsBacked /\ OpenOrdersLive)
<1>1. SysInv => ReservedTotalsExact /\ CacheBounded /\ ReservationsBacked /\ OpenOrdersLive
  <2> SUFFICES ASSUME SysInv
               PROVE  ReservedTotalsExact /\ CacheBounded /\ ReservationsBacked /\ OpenOrdersLive
    OBVIOUS
  <2>1. ReservedTotalsExact /\ CacheBounded /\ Sound(orders, resv, used)
    BY DEF SysInv, Inv
  <2>2. QED
    BY <2>1 DEF Sound, ReservationsBacked, OpenOrdersLive, Present, Ids
<1>2. QED
  BY <1>1, SysInitInv, SysNextInv, PTL DEF SysSpec

(* The OMS never believes in a fill the venue has not made, whatever        *)
(* overtakes what between the simulator's lock and the writer, and even     *)
(* when failed calls took effect or their failure is lost.                  *)
THEOREM FillsStayBounded ==
    ASSUME ~ ReuseIds
    PROVE  SysSpec => []FillsBoundedByVenue
<1>1. SysInv => FillsBoundedByVenue
  BY Zenon DEF SysInv, Path, FillsBoundedByVenue
<1>2. QED
  BY <1>1, SysInitInv, SysNextInv, PTL DEF SysSpec

(* Once nothing is in flight for an order, the OMS and the venue agree on   *)
(* its status and its fill, if a failed call means that nothing happened.   *)
THEOREM QuietOrdersConverge ==
    ASSUME ~ ReuseIds, ~ Ambiguous
    PROVE  SysSpec => []ConvergesWhenQuiet
<1>1. SysInv => ConvergesWhenQuiet
  <2> SUFFICES ASSUME SysInv, NEW o \in ClientIds,
                      Quiet(o), Present(orders, o), ~ LossyFeedback
               PROVE  /\ orders.live[o].filled = venue[o].filled
                      /\ venue[o].status = "open" => orders.live[o].status = "Booked"
                      /\ venue[o].status = "filled" => orders.live[o].status = "Filled"
                      /\ venue[o].status = "cancelled" => orders.live[o].status = "Cancelled"
                      /\ venue[o].status = "none" => orders.live[o].status = "Rejected"
    BY Zenon DEF ConvergesWhenQuiet
  <2>0. o \in OrderIds /\ Path(o) /\ Told(o)
    BY NoIdNoClient, ZenonT(20) DEF SysInv
  <2>1. /\ sendq[o] = << >> /\ execq[o] = << >> /\ held[o] = << >> /\ heldMatch[o] = << >>
        /\ \A i \in DOMAIN wire : wire[i].oid # o
        /\ <<o, "place">> \notin fails
    BY ZenonT(20) DEF Quiet
  <2>2. ASSUME NEW r \in InFlight PROVE r.oid # o
    <3>1. Window(held) /\ Window(heldMatch) /\ wire \in Seq(Report)
      BY DEF SysInv, EventTypes
    <3>2. CASE r \in Ids(wire)
      <4>1. PICK i \in 1 .. Len(wire) : r = wire[i]
        BY <3>2 DEF Ids
      <4>2. i \in DOMAIN wire
        BY <3>1, LenProperties
      <4>3. QED
        BY <2>1, <4>1, <4>2
    <3>3. CASE \E p \in ClientIds : r \in Ids(held[p]) \/ r \in Ids(heldMatch[p])
      <4>1. PICK p \in ClientIds : r \in Ids(held[p]) \/ r \in Ids(heldMatch[p])
        BY <3>3
      <4>2. r.oid = p
        BY <3>1, <4>1 DEF Window
      <4>3. 1 .. 0 = {} /\ Len(<< >>) = 0
        OBVIOUS
      <4>4. Ids(<< >>) = {}
        BY <4>3, ZenonT(20) DEF Ids
      <4>5. p # o
        BY <2>1, <4>1, <4>4
      <4>6. QED
        BY <4>2, <4>5
    <3>4. QED
      BY <3>2, <3>3, FlightsIn DEF InFlight
  <2>3. ~ Waits(sendq[o]) /\ ~ Waits(execq[o]) /\ ~ Refused(o)
    BY <2>1, <2>2, ZenonT(20) DEF Waits, Refused
  <2>4. CASE venue[o].status = "none"
    <3>1. orders.live[o].status = "Rejected"
      BY <2>0, <2>3, <2>4, ZenonT(30) DEF Told
    <3>2. venue[o].filled = 0 /\ orders.live[o].filled <= venue[o].filled
      BY <2>0, <2>4, ZenonT(20) DEF Path
    <3>3. orders.live[o].filled \in Nat
      BY <2>0 DEF SysInv, Inv, TypeOK, Orders, LiveOrder
    <3>4. QED
      BY <2>4, <3>1, <3>2, <3>3
  <2>5. CASE venue[o].status # "none"
    <3>1. orders.live[o].status = StateOf(venue[o]) /\ orders.live[o].filled = venue[o].filled
      BY <2>0, <2>2, <2>5, Zenon DEF Told
    <3>2. QED
      BY <2>5, <3>1, Zenon DEF StateOf
  <2>6. QED
    BY <2>4, <2>5
<1>2. QED
  BY <1>1, SysInitInv, SysNextInv, PTL DEF SysSpec
=============================================================================
