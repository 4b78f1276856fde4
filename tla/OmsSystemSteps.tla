--------------------------- MODULE OmsSystemSteps ---------------------------
(***************************************************************************)
(* What the core's handlers do to the orders and the exchange references of *)
(* the clients, as the OMS system needs it.                                 *)
(***************************************************************************)
EXTENDS OmsSystemInv, OmsCoreProofs

(* A client's order id is an order id, and the id of no order is none.      *)
LEMMA ClientIdsAreIds == NoId \notin ClientIds /\ ClientIds \subseteq OrderIds
<1>1. ClientIds \subseteq OrderIds
  BY ConstantsAssumption
<1>2. NoId \notin OrderIds
  BY DEF NoId, OrderIds
<1>3. QED
  BY <1>1, <1>2, SMT, ZenonT(20), SMTT(30)

-----------------------------------------------------------------------------
(* Reports                                                                  *)

(* mark_closed() may drop the reference of the order it evicts and touches  *)
(* no other index entry.                                                    *)
LEMMA MarkClosedRefs ==
    ASSUME NEW os \in Orders, NEW o \in OrderIds, RefsOwn(os)
    PROVE  RefsOwn(MarkClosed(os, o))
<1> DEFINE q == Append(os.lru, o)
           c == [os EXCEPT !.open = os.open \ {o}]
           n == MarkClosed(os, o)
<1>1. c.refIdx = os.refIdx /\ c.extIdx = os.extIdx /\ c.live = os.live /\ c \in Orders
  BY DEF Orders
<1>2. CASE Len(q) > MaxCachedOrders
  <2> DEFINE d == [c EXCEPT !.lru = Tail(q)]
             h == Head(q)
             ref == d.live[h].ref
  <2>1. n = CleanupOrder(d, h)
    BY <1>2 DEF MarkClosed
  <2>2. d.refIdx = os.refIdx /\ d.extIdx = os.extIdx
    BY <1>1 DEF Orders
  <2>3. CASE ~ Present(d, h)
    <3>1. n = d
      BY <2>1, <2>3 DEF CleanupOrder
    <3>2. QED
      BY <2>2, <3>1 DEF RefsOwn
  <2>4. CASE Present(d, h)
    <3> DEFINE idx == IF ref = NoRef THEN d.refIdx ELSE [d.refIdx EXCEPT ![ref] = NoId]
    <3>1. n = [d EXCEPT !.live = [d.live EXCEPT ![h] = AbsentOrder], !.refIdx = idx]
      BY <2>1, <2>4, ZenonT(30) DEF CleanupOrder, Orders
    <3>2. n.refIdx = idx /\ n.extIdx = d.extIdx
      <4>1. d = [live |-> os.live, open |-> os.open \ {o}, lru |-> Tail(q),
                 refIdx |-> os.refIdx, extIdx |-> os.extIdx]
        <5>1. os = [live |-> os.live, open |-> os.open, lru |-> os.lru,
                    refIdx |-> os.refIdx, extIdx |-> os.extIdx]
          BY DEF Orders
        <5>2. c = [live |-> os.live, open |-> os.open \ {o}, lru |-> os.lru,
                   refIdx |-> os.refIdx, extIdx |-> os.extIdx]
          BY <5>1
        <5> DEFINE tq == Tail(q)
        <5>3. d = [c EXCEPT !.lru = tq]
          OBVIOUS
        <5> HIDE DEF c, tq, d
        <5>4. d = [live |-> os.live, open |-> os.open \ {o}, lru |-> tq,
                   refIdx |-> os.refIdx, extIdx |-> os.extIdx]
          BY <5>2, <5>3
        <5>5. QED
          BY <5>4 DEF tq
      <4> DEFINE nl == [d.live EXCEPT ![h] = AbsentOrder]
      <4>2. n = [d EXCEPT !.live = nl, !.refIdx = idx]
        BY <3>1
      <4> HIDE DEF n, idx, d, h, q, nl
      <4>3. QED
        BY <4>1, <4>2
    <3>3. \A x \in Refs : idx[x] = os.refIdx[x] \/ idx[x] = NoId
      <4>1. os.refIdx \in [Refs -> OrderIds \cup {NoId}]
        BY DEF Orders
      <4> HIDE DEF ref, d
      <4>2. QED
        BY <2>2, <4>1
    <3> HIDE DEF n, idx, d
    <3>4. QED
      BY <2>2, <3>2, <3>3, ClientIdsAreIds DEF RefsOwn, n
  <2>5. QED
    BY <2>3, <2>4
<1>3. CASE ~ (Len(q) > MaxCachedOrders)
  <2>1. n = [c EXCEPT !.lru = q]
    BY <1>3 DEF MarkClosed
  <2>2. n.refIdx = os.refIdx /\ n.extIdx = os.extIdx
    <3> HIDE DEF n, q
    <3>1. QED
      BY <1>1, <2>1, SMT, ZenonT(20), SMTT(30) DEF Orders
  <2>3. QED
    BY <2>2 DEF RefsOwn
<1>4. QED
  BY <1>2, <1>3

(* process_report_for_order() leaves its order as the entries say, unless   *)
(* closing it evicted it at once; and a client order is only indexed under  *)
(* the reference the report carries for it.                                 *)
LEMMA OrdersAfterOwn ==
    ASSUME NEW m \in Orders, NEW o \in OrderIds, NEW r \in Report,
           r.link => r.ref # NoRef, Len(m.lru) <= MaxCachedOrders, m.live[o].status # "Absent",
           RefsOwn(m), (r.link /\ o \in ClientIds) => r.ref = RefOf[o]
    PROVE  LET n == OrdersAfter(m, o, r)
               l == m.live[o]
           IN  /\ RefsOwn(n)
               /\ \/ n.live[o].status = "Absent"
                  \/ /\ n.live[o].status = StatusAfter(l, r)
                     /\ n.live[o].filled = FilledAfter(l, r)
                     /\ n.live[o].qty = l.qty
<1> DEFINE l == m.live[o]
           a == ApplyEntries(l, r)
           m1 == [m EXCEPT !.live[o] = a]
           m2 == IF r.link THEN RegisterExchRef(m1, o, r.ref) ELSE m1
           n == OrdersAfter(m, o, r)
<1>1. l \in LiveOrder
  BY DEF Orders
<1>2. a \in LiveOrder
  BY <1>1, ApplyEntriesEffect
<1>3. /\ a.status = StatusAfter(l, r) /\ a.filled = FilledAfter(l, r) /\ a.qty = l.qty
  BY <1>1 DEF ApplyEntries, LiveOrder
<1>4. n = IF IsTerminal(a) THEN MarkClosed(m2, o) ELSE m2
  BY DEF OrdersAfter
<1> HIDE DEF a
<1>5. /\ m1 \in Orders /\ m1.live[o] = a /\ m1.lru = m.lru
      /\ m1.refIdx = m.refIdx /\ m1.extIdx = m.extIdx
  BY <1>2, ZenonT(20) DEF Orders
<1> HIDE DEF m1
<1>6. /\ m2 \in Orders /\ m2.lru = m.lru /\ RefsOwn(m2)
      /\ m2.live[o].status = a.status /\ m2.live[o].filled = a.filled /\ m2.live[o].qty = a.qty
  <2>1. CASE ~ r.link
    BY <1>5, <2>1 DEF RefsOwn
  <2>2. CASE r.link
    <3>1. r.ref \in Refs
      BY <2>2 DEF Report
    <3>2. m2 = RegisterExchRef(m1, o, r.ref)
      BY <2>2
    <3>3. m2 \in Orders
      BY <1>5, <3>1, <3>2, RegisterExchRefType
    <3>4. /\ m2.lru = m1.lru /\ m2.extIdx = m1.extIdx
          /\ m2.live = [m1.live EXCEPT ![o] = [m1.live[o] EXCEPT !.ref = r.ref]]
          /\ m2.refIdx = [m1.refIdx EXCEPT ![r.ref] = o]
      BY <1>5, <3>2, ZenonT(30) DEF RegisterExchRef, Orders
    <3>5. m1.live \in [OrderIds -> LiveOrder] /\ m1.refIdx \in [Refs -> OrderIds \cup {NoId}]
      BY <1>5 DEF Orders
    <3> HIDE DEF m2
    <3>6. m2.live[o] = [a EXCEPT !.ref = r.ref]
      BY <1>5, <3>4, <3>5
    <3>7. /\ [a EXCEPT !.ref = r.ref].status = a.status
          /\ [a EXCEPT !.ref = r.ref].filled = a.filled
          /\ [a EXCEPT !.ref = r.ref].qty = a.qty
      BY <1>2 DEF LiveOrder
    <3>8. RefsOwn(m2)
      BY <1>5, <2>2, <3>1, <3>4, <3>5 DEF RefsOwn
    <3>9. QED
      BY <1>5, <3>3, <3>4, <3>6, <3>7, <3>8
  <2>3. QED
    BY <2>1, <2>2, ZenonT(30)
<1> HIDE DEF m2, n
<1>7. CASE ~ IsTerminal(a)
  BY <1>3, <1>4, <1>6, <1>7, SMT, ZenonT(20), SMTT(30) DEF n
<1>8. CASE IsTerminal(a)
  <2>1. n = MarkClosed(m2, o)
    BY <1>4, <1>8
  <2>2. RefsOwn(n)
    BY <1>6, <2>1, MarkClosedRefs
  <2>3. n.live[o] = m2.live[o] \/ n.live[o] = AbsentOrder
    <3>1. Accounts # {}
      BY ConstantsAssumption
    <3>2. \A i \in OrderIds :
             MarkClosed(m2, o).live[i] = m2.live[i] \/ MarkClosed(m2, o).live[i] = AbsentOrder
      BY <1>6, <3>1, MarkClosedEffect, ZenonT(30)
    <3>3. QED
      BY <2>1, <3>2
  <2>4. AbsentOrder.status = "Absent"
    BY SMT, ZenonT(20), SMTT(30) DEF AbsentOrder
  <2>5. QED
    BY <1>3, <1>6, <2>2, <2>3, <2>4 DEF n
<1>9. QED
  BY <1>7, <1>8

(* The same, as a step of the core.                                         *)
LEMMA OneOrderReport ==
    ASSUME Inv, ~ ReuseIds, NEW m \in Orders, NEW o \in OrderIds, NEW r \in Report,
           r.link => r.ref # NoRef,
           m.lru = orders.lru, m.open = orders.open,
           \A i \in OrderIds \ {o} : m.live[i] = orders.live[i],
           m.live[o].status # "Absent", o \in orders.open => ~ m.live[o].ext,
           RefsOwn(m), (r.link /\ o \in ClientIds) => r.ref = RefOf[o],
           ReportForOrder(m, o, r)
    PROVE  /\ RefsOwn(orders') /\ Changes(orders, orders', o)
           /\ \/ orders'.live[o].status = "Absent"
              \/ /\ orders'.live[o].status = StatusAfter(m.live[o], r)
                 /\ orders'.live[o].filled = FilledAfter(m.live[o], r)
                 /\ orders'.live[o].qty = m.live[o].qty
<1>1. Changes(orders, orders', o)
  BY ReportForOrderEffect, ZenonT(30)
<1>2. Len(m.lru) <= MaxCachedOrders
  BY ZenonT(20) DEF Inv, CacheBounded
<1>3. orders' = OrdersAfter(m, o, r)
  BY SMTT(30), ZenonT(20), SMTT(40) DEF ReportForOrder
<1>4. /\ RefsOwn(OrdersAfter(m, o, r))
      /\ \/ OrdersAfter(m, o, r).live[o].status = "Absent"
         \/ /\ OrdersAfter(m, o, r).live[o].status = StatusAfter(m.live[o], r)
            /\ OrdersAfter(m, o, r).live[o].filled = FilledAfter(m.live[o], r)
            /\ OrdersAfter(m, o, r).live[o].qty = m.live[o].qty
  BY <1>2, OrdersAfterOwn, ZenonT(30)
<1>5. QED
  BY <1>1, <1>3, <1>4

(* create_external_order() indexes no client order.                         *)
LEMMA ExternalRefs ==
    ASSUME NEW os \in Orders, NEW e \in OrderIds \ ClientIds, NEW ref \in Refs, NEW acct \in Accounts,
           RefsOwn(os)
    PROVE  /\ RefsOwn(CreateExternalOrder(os, e, ref, acct))
           /\ CreateExternalOrder(os, e, ref, acct) \in Orders
           /\ CreateExternalOrder(os, e, ref, acct).lru = os.lru
           /\ CreateExternalOrder(os, e, ref, acct).open = os.open
           /\ \A i \in OrderIds \ {e} : CreateExternalOrder(os, e, ref, acct).live[i] = os.live[i]
           /\ CreateExternalOrder(os, e, ref, acct).live[e].status = "Pending"
<1> DEFINE n == CreateExternalOrder(os, e, ref, acct)
<1>1. n \in Orders
  BY ConstantsAssumption, CreateExternalOrderType, SMTT(30)
<1>2. /\ n.lru = os.lru /\ n.open = os.open
      /\ \A i \in OrderIds \ {e} : n.live[i] = os.live[i]
      /\ n.live[e].status = "Pending"
  BY SMTT(30) DEF CreateExternalOrder, Orders, AbsentOrder
<1>3. /\ n.refIdx = [os.refIdx EXCEPT ![ref] = e]
      /\ n.extIdx = [os.extIdx EXCEPT ![ref] = e]
  BY SMTT(30) DEF CreateExternalOrder, Orders
<1>4. os.refIdx \in [Refs -> OrderIds \cup {NoId}] /\ os.extIdx \in [Refs -> OrderIds \cup {NoId}]
  BY DEF Orders
<1> HIDE DEF n
<1>5. RefsOwn(n)
  BY <1>3, <1>4, SMTT(30) DEF RefsOwn
<1>6. QED
  BY <1>1, <1>2, <1>5 DEF n

(* process_order_report() of what a venue or a gateway sends about a client *)
(* order: applied to that order when the core has it; no other client order *)
(* changes, unless it is evicted.                                           *)
LEMMA ReportEffect ==
    ASSUME Inv, ~ ReuseIds, RefsOwn(orders), NEW r \in Report, r.oid \in ClientIds, r.gw,
           r.ref \in {NoRef, RefOf[r.oid]}, r.link => r.ref # NoRef, OrderReport(r)
    PROVE  /\ Inv' /\ RefsOwn(orders')
           /\ \A i \in ClientIds : i \in used' <=> i \in used
           /\ \A i \in ClientIds \ {r.oid} :
                 orders'.live[i] = orders.live[i] \/ orders'.live[i].status = "Absent"
           /\ \/ orders'.live[r.oid].status = "Absent"
              \/ /\ Present(orders, r.oid)
                 /\ orders'.live[r.oid].status = StatusAfter(orders.live[r.oid], r)
                 /\ orders'.live[r.oid].filled = FilledAfter(orders.live[r.oid], r)
                 /\ orders'.live[r.oid].qty = orders.live[r.oid].qty
<1>0. PICK o : o = r.oid
  BY SMT, ZenonT(20), SMTT(30)
<1>1. /\ o \in ClientIds /\ o \in OrderIds /\ o # NoId /\ ClientIds \subseteq OrderIds
      /\ r.ref \in Refs \cup {NoRef} /\ r.acct \in Accounts
  BY <1>0, ClientIdsAreIds, SMTT(30) DEF Report
<1>2. Inv'
  BY OrderReportKeepsInv
<1>3. /\ orders \in Orders /\ Sound(orders, resv, used)
      /\ orders.refIdx \in [Refs -> OrderIds \cup {NoId}]
      /\ orders.extIdx \in [Refs -> OrderIds \cup {NoId}]
  BY ZenonT(20) DEF Inv, TypeOK, Orders
<1>4. CASE Present(orders, o)
  <2>1. ResolveOrderId(orders, r.oid, r.ref) = o
    BY <1>0, <1>1, <1>4 DEF ResolveOrderId
  <2>2. ReportKnown(r)
    BY <1>1, <2>1, SMTT(30) DEF OrderReport, ReportDropped, ReportBuffered, ReportExternal
  <2>3. ReportForOrder(orders, o, r) /\ used' = used
    BY <1>4, <2>1, <2>2, ZenonT(20) DEF ReportKnown
  <2>4. /\ RefsOwn(orders') /\ Changes(orders, orders', o)
        /\ \/ orders'.live[o].status = "Absent"
           \/ /\ orders'.live[o].status = StatusAfter(orders.live[o], r)
              /\ orders'.live[o].filled = FilledAfter(orders.live[o], r)
              /\ orders'.live[o].qty = orders.live[o].qty
    <3>1. o \in orders.open => ~ orders.live[o].ext
      BY <1>3 DEF Sound
    <3>2. orders.live[o].status # "Absent" /\ (r.link => r.ref = RefOf[o])
      BY <1>0, <1>4, SMT, ZenonT(20), SMTT(30) DEF Present
    <3>3. QED
      BY <1>1, <1>3, <2>3, <3>1, <3>2, OneOrderReport, SMTT(30), ZenonT(20), SMTT(40)
  <2>5. QED
    BY <1>0, <1>1, <1>2, <1>4, <2>3, <2>4, Zenon DEF Changes
<1>5. CASE ~ Present(orders, o)
  <2>1. ASSUME NEW m \in Orders, NEW e \in OrderIds \ ClientIds,
               m.lru = orders.lru, m.open = orders.open,
               \A i \in OrderIds \ {e} : m.live[i] = orders.live[i],
               m.live[e].status # "Absent", e \in orders.open => ~ m.live[e].ext,
               RefsOwn(m), ReportForOrder(m, e, r), used' \ {e} = used \ {e}
        PROVE  /\ RefsOwn(orders') /\ \A i \in ClientIds : i \in used' <=> i \in used
               /\ \A i \in ClientIds :
                     orders'.live[i] = orders.live[i] \/ orders'.live[i].status = "Absent"
    <3>1. RefsOwn(orders') /\ Changes(orders, orders', e)
      BY <2>1, OneOrderReport, SMTT(30)
    <3>2. QED
      BY <1>1, <2>1, <3>1, SMT, ZenonT(20), SMTT(30) DEF Changes
  <2>2. ASSUME orders' = orders, used' = used
        PROVE  /\ RefsOwn(orders') /\ \A i \in ClientIds : i \in used' <=> i \in used
               /\ \A i \in ClientIds :
                     orders'.live[i] = orders.live[i] \/ orders'.live[i].status = "Absent"
    BY <2>2, SMT, ZenonT(20), SMTT(30)
  <2>3. ASSUME NEW e \in OrderIds \ ClientIds, Present(orders, e), ReportForOrder(orders, e, r),
               used' = used
        PROVE  /\ RefsOwn(orders') /\ \A i \in ClientIds : i \in used' <=> i \in used
               /\ \A i \in ClientIds :
                     orders'.live[i] = orders.live[i] \/ orders'.live[i].status = "Absent"
    <3>1. e \in orders.open => ~ orders.live[e].ext
      BY <1>3, SMT, ZenonT(20), SMTT(30) DEF Sound
    <3>2. QED
      BY <1>3, <2>1, <2>3, <3>1, SMTT(30) DEF Present
  <2>4. /\ RefsOwn(orders') /\ \A i \in ClientIds : i \in used' <=> i \in used
        /\ \A i \in ClientIds :
              orders'.live[i] = orders.live[i] \/ orders'.live[i].status = "Absent"
    <3>1. CASE ReportDropped(r) \/ ReportBuffered(r)
      BY <2>2, <3>1 DEF ReportDropped, ReportBuffered, Ignored
    <3>2. CASE ReportKnown(r)
      <4> DEFINE e == ResolveOrderId(orders, r.oid, r.ref)
      <4>1. e # NoId /\ e \in OrderIds /\ r.ref # NoRef /\ e = orders.refIdx[r.ref] /\ r.ref \in Refs
        BY <1>0, <1>1, <1>3, <1>5, <3>2, ZenonT(20) DEF ReportKnown, ResolveOrderId
      <4>2. CASE Present(orders, e)
        <5>1. e \notin ClientIds
          <6>1. e \in ClientIds => RefOf[e] = r.ref
            BY <4>1 DEF RefsOwn
          <6>2. r.ref = RefOf[o]
            BY <1>0, <4>1
          <6>3. e # o
            BY <1>5, <4>2, SMT, ZenonT(20), SMTT(30)
          <6> HIDE DEF e
          <6>4. QED
            BY <1>1, <6>1, <6>2, <6>3, SystemAssumption
        <5>2. ReportForOrder(orders, e, r) /\ used' = used
          BY <3>2, <4>2, SMTT(30) DEF ReportKnown
        <5> HIDE DEF e
        <5>3. QED
          BY <2>3, <4>1, <4>2, <5>1, <5>2
      <4>3. CASE ~ Present(orders, e)
        BY <2>2, <3>2, <4>3, ZenonT(20) DEF ReportKnown, Ignored
      <4>4. QED
        BY <4>2, <4>3, ZenonT(20)
    <3>3. CASE ReportExternal(r)
      <4>1. r.ref \in Refs
        BY <1>1, <3>3, SMT, ZenonT(20), SMTT(30) DEF ReportExternal
      <4>2. CASE /\ orders.extIdx[r.ref] # NoId
                 /\ Present(orders, orders.extIdx[r.ref])
                 /\ ReportForOrder(orders, orders.extIdx[r.ref], r)
                 /\ UNCHANGED used
        <5>1. PICK e : e = orders.extIdx[r.ref]
          BY SMT, ZenonT(20), SMTT(30)
        <5>2. e \in OrderIds \ ClientIds
          BY <1>3, <4>1, <4>2, <5>1 DEF RefsOwn
        <5>3. QED
          BY <2>3, <4>2, <5>1, <5>2
      <4>3. ASSUME NEW e \in OrderIds \ (ClientIds \cup used),
                   ReportForOrder(CreateExternalOrder(orders, e, r.ref, r.acct), e, r),
                   used' = used \cup {e}
            PROVE  /\ RefsOwn(orders') /\ \A i \in ClientIds : i \in used' <=> i \in used
                   /\ \A i \in ClientIds :
                         orders'.live[i] = orders.live[i] \/ orders'.live[i].status = "Absent"
        <5>1. PICK m : m = CreateExternalOrder(orders, e, r.ref, r.acct)
          BY ZenonT(20)
        <5>2. /\ m \in Orders /\ m.lru = orders.lru /\ m.open = orders.open /\ RefsOwn(m)
              /\ \A i \in OrderIds \ {e} : m.live[i] = orders.live[i]
              /\ m.live[e].status = "Pending"
          BY <1>1, <1>3, <4>1, <5>1, ExternalRefs, SMT, ZenonT(20), SMTT(30)
        <5>3. e \notin orders.open /\ used' \ {e} = used \ {e}
          BY <1>3, <4>3, SMT, ZenonT(20), SMTT(30) DEF Sound
        <5>4. ReportForOrder(m, e, r)
          BY <4>3, <5>1
        <5>5. QED
          BY <2>1, <5>2, <5>3, <5>4
      <4>4. QED
        BY <3>3, <4>2, <4>3, ZenonT(20) DEF ReportExternal
    <3>4. QED
      BY <3>1, <3>2, <3>3, SMT, ZenonT(20), SMTT(30) DEF OrderReport
  <2>5. orders'.live[o].status = "Absent"
    BY <1>1, <1>5, <2>4, ZenonT(20) DEF Present
  <2>6. QED
    BY <1>0, <1>2, <2>4, <2>5
<1>6. QED
  BY <1>4, <1>5, ZenonT(30)

(* No report makes the core forget an id.                                   *)
LEMMA OrderReportUsed ==
    ASSUME NEW r, OrderReport(r)
    PROVE  used \subseteq used'
BY ZenonT(30) DEF OrderReport, ReportDropped, ReportBuffered, ReportKnown, ReportExternal, Ignored

-----------------------------------------------------------------------------
(* Failed sends                                                             *)

(* mark_closed() leaves its order as it was, or evicts it at once, and adds *)
(* no index entry.                                                          *)
LEMMA ClosedOwn ==
    ASSUME NEW os \in Orders, NEW m \in Orders, NEW o \in OrderIds, RefsOwn(os),
           m.refIdx = os.refIdx, m.extIdx = os.extIdx, Len(m.lru) <= MaxCachedOrders
    PROVE  /\ RefsOwn(MarkClosed(m, o))
           /\ \/ MarkClosed(m, o).live[o] = m.live[o]
              \/ MarkClosed(m, o).live[o].status = "Absent"
<1>1. RefsOwn(m)
  BY SMT, ZenonT(20), SMTT(30) DEF RefsOwn
<1>2. AbsentOrder.status = "Absent" /\ Accounts # {}
  BY ConstantsAssumption DEF AbsentOrder
<1>3. MarkClosed(m, o).live[o] = m.live[o] \/ MarkClosed(m, o).live[o] = AbsentOrder
  <2>1. \A i \in OrderIds :
           MarkClosed(m, o).live[i] = m.live[i] \/ MarkClosed(m, o).live[i] = AbsentOrder
    BY <1>2, MarkClosedEffect, ZenonT(30)
  <2>2. QED
    BY <2>1
<1>4. RefsOwn(MarkClosed(m, o))
  BY <1>1, MarkClosedRefs
<1>5. QED
  BY <1>2, <1>3, <1>4, Zenon

(* process_gateway_send_failed() rejects the order and nothing else.        *)
LEMMA SendFailedOwn ==
    ASSUME NEW os \in Orders, NEW rs, NEW ps, NEW o \in OrderIds, RefsOwn(os),
           Len(os.lru) <= MaxCachedOrders
    PROVE  LET n == SendFailed([orders |-> os, resv |-> rs, pos |-> ps], o).orders
           IN  /\ RefsOwn(n)
               /\ \/ n.live[o].status = "Absent"
                  \/ /\ n.live[o].status = "Rejected" /\ n.live[o].filled = os.live[o].filled
                     /\ n.live[o].qty = os.live[o].qty
<1> DEFINE l == os.live[o]
           c == [l EXCEPT !.status = "Rejected"]
           lv == [os.live EXCEPT ![o] = c]
           m == [os EXCEPT !.live = lv]
           n == MarkClosed(m, o)
<1>1. l \in LiveOrder
  BY SMT, ZenonT(20), SMTT(30) DEF Orders
<1>2. c \in LiveOrder /\ c.status = "Rejected" /\ c.filled = l.filled /\ c.qty = l.qty
  BY <1>1, SMTT(30) DEF LiveOrder, OrderStatus
<1>3. [os EXCEPT !.live[o].status = "Rejected"] = m
  BY DEF Orders
<1>4. SendFailed([orders |-> os, resv |-> rs, pos |-> ps], o).orders = n
  BY <1>3 DEF SendFailed
<1> HIDE DEF c
<1>5. lv \in [OrderIds -> LiveOrder] /\ lv[o] = c
  BY <1>2 DEF Orders
<1> HIDE DEF lv
<1>6. /\ m \in Orders /\ m.lru = os.lru /\ m.live = lv
      /\ m.refIdx = os.refIdx /\ m.extIdx = os.extIdx
  BY <1>5 DEF Orders
<1> HIDE DEF m, n
<1>7. RefsOwn(n) /\ (n.live[o] = m.live[o] \/ n.live[o].status = "Absent")
  BY <1>6, ClosedOwn DEF n
<1>8. RefsOwn(n) /\ (n.live[o] = c \/ n.live[o].status = "Absent")
  BY <1>5, <1>6, <1>7, SMT, ZenonT(20), SMTT(30)
<1>9. QED
  BY <1>2, <1>4, <1>8, Zenon

-----------------------------------------------------------------------------
(* Placements                                                               *)

(* create_order() adds no index entry.                                      *)
LEMMA CreatedOwn ==
    ASSUME Inv, RefsOwn(orders), NEW o \in OrderIds, NEW l \in LiveOrder
    PROVE  LET n == CreateOrder(orders, o, l)
           IN  /\ n \in Orders /\ RefsOwn(n) /\ n.lru = orders.lru /\ n.live[o] = l
               /\ n.refIdx = orders.refIdx /\ n.extIdx = orders.extIdx
               /\ n.open = orders.open \cup {o}
               /\ \A i \in OrderIds \ {o} : n.live[i] = orders.live[i]
<1> DEFINE n == CreateOrder(orders, o, l)
<1>1. orders \in Orders
  BY DEF Inv, TypeOK
<1>2. n \in Orders
  BY <1>1, CreateOrderType
<1>3. /\ n.lru = orders.lru /\ n.live[o] = l /\ n.refIdx = orders.refIdx
      /\ n.extIdx = orders.extIdx /\ n.open = orders.open \cup {o}
      /\ \A i \in OrderIds \ {o} : n.live[i] = orders.live[i]
  BY <1>1, SMTT(30), ZenonT(20), SMTT(40) DEF CreateOrder, Orders
<1> HIDE DEF n
<1>4. RefsOwn(n)
  BY <1>3 DEF RefsOwn
<1>5. QED
  BY <1>2, <1>3, <1>4 DEF n

(* A request refused by the core leaves a rejected order, without fills.    *)
LEMMA RejectedNew ==
    ASSUME Inv, RefsOwn(orders), NEW o \in OrderIds, NEW req \in Requests,
           NEW bc \in BOOLEAN, NEW key \in Targets \cup {NoTarget}
    PROVE  LET n == CloseAsRejected(o, req, bc, key)
           IN  /\ RefsOwn(n)
               /\ \/ n.live[o].status = "Absent"
                  \/ n.live[o].status = "Rejected" /\ n.live[o].filled = 0
<1> DEFINE l == NewOrder(req, "Rejected", req.qty, bc, key)
           m == CreateOrder(orders, o, l)
           n == MarkClosed(m, o)
<1>1. l \in LiveOrder /\ l.status = "Rejected" /\ l.filled = 0
  <2>1. req.qty \in Nat /\ "Rejected" \in OrderStatus
    BY InputsAssumption DEF Request, OrderStatus
  <2>2. QED
    BY <2>1, NewOrderType
<1>2. CloseAsRejected(o, req, bc, key) = n
  BY DEF CloseAsRejected
<1>3. orders \in Orders /\ Len(orders.lru) <= MaxCachedOrders
  BY DEF Inv, TypeOK, CacheBounded
<1> HIDE DEF l
<1>4. /\ m \in Orders /\ m.lru = orders.lru /\ m.live[o] = l
      /\ m.refIdx = orders.refIdx /\ m.extIdx = orders.extIdx
  BY <1>1, CreatedOwn, ZenonT(30)
<1> HIDE DEF m
<1>5. RefsOwn(n) /\ (n.live[o] = m.live[o] \/ n.live[o].status = "Absent")
  BY <1>3, <1>4, ClosedOwn
<1> HIDE DEF n
<1>6. QED
  BY <1>1, <1>2, <1>4, <1>5, Zenon

(* An accepted one is pending, without fills.                               *)
LEMMA AcceptedNew ==
    ASSUME Inv, RefsOwn(orders), NEW o \in OrderIds, NEW req \in Requests, Acceptable(req)
    PROVE  LET n == Accepted(o, req).orders
           IN  /\ n \in Orders /\ RefsOwn(n) /\ n.lru = orders.lru
               /\ n.live[o] \in LiveOrder /\ n.live[o].status = "Pending" /\ n.live[o].filled = 0
               /\ n.open = orders.open \cup {o}
               /\ \A i \in OrderIds \ {o} : n.live[i] = orders.live[i]
<1> DEFINE m == Meta[req.inst]
           q == RoundDown(req.qty, m.lot)
           bc == m.bc
           key == m.pos
           st == "Pending"
           l == NewOrder(req, st, q, bc, key)
           n == CreateOrder(orders, o, l)
<1>1. Accepted(o, req).orders = n
  BY SMT, ZenonT(20), SMTT(30) DEF Accepted
<1>2. q \in Nat /\ bc \in BOOLEAN /\ key \in Targets \cup {NoTarget}
  BY RequestType, RoundDownNat, ZenonT(30) DEF Acceptable
<1>3. st \in OrderStatus
  BY SMT, ZenonT(20), SMTT(30) DEF OrderStatus
<1> HIDE DEF m, q, bc, key, st
<1>4. l \in LiveOrder /\ l.status = st /\ l.filled = 0
  BY <1>2, <1>3, NewOrderType, SMTT(30)
<1> HIDE DEF l
<1>5. /\ n \in Orders /\ RefsOwn(n) /\ n.lru = orders.lru /\ n.live[o] = l
      /\ n.open = orders.open \cup {o}
      /\ \A i \in OrderIds \ {o} : n.live[i] = orders.live[i]
  BY <1>4, CreatedOwn, ZenonT(30)
<1> HIDE DEF n
<1>6. QED
  BY <1>1, <1>4, <1>5, Zenon DEF st

(* The executor queue is full: the order is created, covered, rejected and  *)
(* uncovered in one step.                                                   *)
LEMMA PlaceDroppedEffect ==
    ASSUME Inv, ~ ReuseIds, RefsOwn(orders), NEW o \in ClientIds, NEW req \in Requests,
           PlaceDropped(o, req)
    PROVE  /\ Inv' /\ RefsOwn(orders') /\ used' = used \cup {o} /\ o \notin used
           /\ \A i \in ClientIds \ {o} :
                 orders'.live[i] = orders.live[i] \/ orders'.live[i].status = "Absent"
           /\ \/ orders'.live[o].status = "Absent"
              \/ orders'.live[o].status = "Rejected" /\ orders'.live[o].filled = 0
<1> DEFINE a == Accepted(o, req).orders
           rs == Accepted(o, req).resv
           ps == Accepted(o, req).pos
           st == SendFailed([orders |-> a, resv |-> rs, pos |-> ps], o)
<1>0. o \in OrderIds /\ ClientIds \subseteq OrderIds
  BY ClientIdsAreIds
<1>1. /\ o \notin used /\ Acceptable(req) /\ used' = used \cup {o}
      /\ bal' = bal /\ pending' = pending /\ panic' = panic
      /\ orders' = SendFailed(Accepted(o, req), o).orders
      /\ resv' = SendFailed(Accepted(o, req), o).resv
      /\ pos' = SendFailed(Accepted(o, req), o).pos
  BY DEF PlaceDropped
<1>2. Accepted(o, req) = [orders |-> a, resv |-> rs, pos |-> ps]
  BY Zenon DEF Accepted
<1>3. orders' = st.orders /\ resv' = st.resv /\ pos' = st.pos
  BY <1>1, <1>2, Zenon
<1>4. /\ a \in Orders /\ RefsOwn(a) /\ a.lru = orders.lru
      /\ a.live[o] \in LiveOrder /\ a.live[o].status = "Pending" /\ a.live[o].filled = 0
      /\ a.open = orders.open \cup {o}
      /\ \A i \in OrderIds \ {o} : a.live[i] = orders.live[i]
  BY <1>0, <1>1, AcceptedNew, ZenonT(30)
<1>5. /\ rs \in Store /\ TotalsAreSums(rs) /\ ps \in [Keys -> Position]
      /\ \A i \in OrderIds \ {o} : rs.res[i] = resv.res[i]
  BY <1>0, <1>1, CoverEffect, ZenonT(30) DEF Inv
<1> HIDE DEF a, rs, ps
<1>6. /\ a \in Orders /\ RefsOwn(a) /\ Len(a.lru) <= MaxCachedOrders
      /\ rs \in Store /\ TotalsAreSums(rs) /\ ps \in [Keys -> Position]
  BY <1>4, <1>5, Zenon DEF Inv, CacheBounded
<1>7. /\ st.orders \in Orders /\ Len(st.orders.lru) <= MaxCachedOrders
      /\ Changes(a, st.orders, o)
      /\ st.resv \in Store /\ TotalsAreSums(st.resv) /\ Shrinks(rs, st.resv, o)
      /\ st.resv.res[o] = NoRes /\ st.pos \in [Keys -> Position]
  BY <1>0, <1>6, SendFailedEffect, ZenonT(30)
<1>8. /\ RefsOwn(st.orders)
      /\ \/ st.orders.live[o].status = "Absent"
         \/ /\ st.orders.live[o].status = "Rejected"
            /\ st.orders.live[o].filled = a.live[o].filled
            /\ st.orders.live[o].qty = a.live[o].qty
  <2> DEFINE n == SendFailed([orders |-> a, resv |-> rs, pos |-> ps], o).orders
  <2>1. a \in Orders /\ RefsOwn(a) /\ Len(a.lru) <= MaxCachedOrders /\ o \in OrderIds
    BY <1>0, <1>6
  <2>2. /\ RefsOwn(n)
        /\ \/ n.live[o].status = "Absent"
           \/ /\ n.live[o].status = "Rejected" /\ n.live[o].filled = a.live[o].filled
              /\ n.live[o].qty = a.live[o].qty
    BY <2>1, SendFailedOwn, ZenonT(30)
  <2>3. QED
    BY <2>2, Zenon
<1> HIDE DEF st
<1>9. Changes(orders, orders', o)
  BY <1>3, <1>4, <1>7, Zenon DEF Changes
<1>10. Inv'
  <2>1. Sound(orders, resv, used) /\ orders \in Orders
    BY ZenonT(20) DEF Inv, TypeOK
  <2>2. \A i \in OrderIds \ {o} : resv'.res[i] = resv.res[i]
    BY <1>3, <1>5, <1>7, ZenonT(20) DEF Shrinks
  <2>3. Sound(orders', resv', used \cup {o})
    BY <1>0, <1>3, <1>7, <1>9, <2>1, <2>2, ChangesKeepSound, ZenonT(20)
  <2>4. QED
    BY <1>0, <1>1, <1>3, <1>7, <2>3, Zenon DEF Inv, TypeOK, ReservedTotalsExact, CacheBounded
<1>11. \A i \in ClientIds \ {o} :
          orders'.live[i] = orders.live[i] \/ orders'.live[i].status = "Absent"
  BY <1>0, <1>9 DEF Changes
<1>12. QED
  BY <1>1, <1>3, <1>4, <1>8, <1>10, <1>11, Zenon
=============================================================================
