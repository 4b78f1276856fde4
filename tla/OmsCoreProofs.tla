--------------------------- MODULE OmsCoreProofs ---------------------------
(***************************************************************************)
(* Theorems about OmsCore, for every set of accounts, instruments, order    *)
(* ids, references and inputs and for every size of the closed-order cache. *)
(*                                                                          *)
(* The inductive invariant is Inv.  Its conjuncts beyond the properties of  *)
(* OmsCore say that everything the order store still remembers about an id  *)
(* comes from an earlier message about it (Remembered), which is what makes *)
(* a fresh id safe to create.                                               *)
(***************************************************************************)
EXTENDS OmsCoreLemmas

-----------------------------------------------------------------------------
(* One lemma for each action: what it does to the stores, and that it keeps *)
(* the invariant.                                                           *)


(* process_order() keeps the invariant: an order that is not accepted is    *)
(* closed at once, an accepted one opens with what covers it.               *)
LEMMA PlaceOrderEffect ==
    ASSUME Inv, NEW o \in ClientIds, NEW req \in Requests, PlaceOrder(o, req)
    PROVE  Inv' /\ (~ ReuseIds => orders' = orders \/ Changes(orders, orders', o))
<1>1. /\ o \in OrderIds /\ (~ ReuseIds => o \notin used)
      /\ bal' = bal /\ pending' = pending /\ panic' = panic
  BY ConstantsAssumption DEF PlaceOrder
<1>2. /\ orders \in Orders /\ resv \in Store /\ TotalsAreSums(resv)
      /\ Len(orders.lru) <= MaxCachedOrders /\ used \subseteq OrderIds
  BY SMTT(30) DEF Inv, TypeOK, ReservedTotalsExact, CacheBounded
<1>3. ~ ReuseIds => /\ resv.res[o] = NoRes /\ o \notin orders.open /\ o \notin Ids(orders.lru)
                    /\ Sound(orders, resv, used)
  BY <1>1 DEF Inv, Sound
<1>4. CASE PlaceBlocked(o, req)
  <2>1. orders' = orders /\ resv' = resv /\ pos' = pos /\ used' = used
    BY <1>4 DEF PlaceBlocked
  <2>2. QED
    BY <1>1, <2>1 DEF Inv, TypeOK, ReservedTotalsExact, CacheBounded
<1>5. ASSUME NEW bc \in BOOLEAN, NEW key \in Targets \cup {NoTarget},
             orders' = CloseAsRejected(o, req, bc, key),
             used' = used \cup {o}, resv' = resv, pos' = pos
      PROVE  Inv' /\ Changes(orders, orders', o)
  <2> DEFINE l == NewOrder(req, "Rejected", req.qty, bc, key)
             m == CreateOrder(orders, o, l)
             n == MarkClosed(m, o)
  <2>1. l \in LiveOrder
    <3>1. req.qty \in Nat /\ "Rejected" \in OrderStatus
      BY InputsAssumption DEF Request, OrderStatus
    <3>2. QED
      BY <3>1, NewOrderType
  <2>2. orders' = n
    BY <1>5 DEF CloseAsRejected
  <2> HIDE DEF l
  <2>3. /\ m \in Orders /\ m.lru = orders.lru /\ m.open \ {o} = orders.open \ {o}
        /\ \A i \in OrderIds \ {o} : m.live[i] = orders.live[i]
    <3>1. m \in Orders
      BY <1>1, <1>2, <2>1, CreateOrderType, SMTT(30)
    <3>2. QED
      BY <1>1, <1>2, <3>1, SMTT(30) DEF CreateOrder, Orders
  <2> HIDE DEF m
  <2>4. n \in Orders /\ Len(n.lru) <= MaxCachedOrders /\ Changes(orders, n, o)
    BY <1>1, <1>2, <2>3, ClosingChanges, SMTT(30)
  <2> HIDE DEF n
  <2>5. ~ ReuseIds => Sound(n, resv, used \cup {o})
    BY <1>1, <1>2, <1>3, <2>4, ChangesKeepSound, SMTT(30)
  <2>6. QED
    BY <1>1, <1>2, <1>5, <2>2, <2>4, <2>5, SMTT(30)
       DEF Inv, TypeOK, ReservedTotalsExact, CacheBounded
<1>6. CASE PlaceRefused(o, req)
  <2>1. FALSE \in BOOLEAN /\ NoTarget \in Targets \cup {NoTarget}
    OBVIOUS
  <2>2. QED
    BY <1>5, <1>6, <2>1, ZenonT(30) DEF PlaceRefused
<1>7. CASE PlaceUncovered(o, req)
  <2>1. Meta[req.inst].bc \in BOOLEAN /\ Meta[req.inst].pos \in Targets \cup {NoTarget}
    BY <1>7, RequestType DEF PlaceUncovered
  <2>2. QED
    BY <1>5, <1>7, <2>1 DEF PlaceUncovered
<1>8. CASE PlaceAccepted(o, req)
  <2> DEFINE m == Meta[req.inst]
             q == RoundDown(req.qty, m.lot)
             l == NewOrder(req, "Pending", q, m.bc, m.pos)
             n == CreateOrder(orders, o, l)
             rs == Accepted(o, req).resv
             ps == Accepted(o, req).pos
  <2>1. Acceptable(req) /\ used' = used \cup {o} /\ resv' = rs /\ pos' = ps /\ orders' = n
    BY <1>8, ZenonT(30) DEF PlaceAccepted, Accepted
  <2>2. q \in Nat /\ m.bc \in BOOLEAN /\ m.pos \in Targets \cup {NoTarget}
    BY <2>1, RequestType, RoundDownNat, ZenonT(30) DEF Acceptable
  <2>3. l \in LiveOrder /\ l.status = "Pending" /\ ~ l.ext
    <3> DEFINE st == "Pending"
               bc == m.bc
               key == m.pos
    <3>1. st \in OrderStatus /\ bc \in BOOLEAN /\ key \in Targets \cup {NoTarget} /\ q \in Nat
      BY <2>2, SMTT(30) DEF OrderStatus
    <3>2. l = NewOrder(req, st, q, bc, key)
      OBVIOUS
    <3> HIDE DEF st, q, bc, key, l
    <3>3. /\ l \in LiveOrder /\ l.status = st /\ ~ l.ext
          /\ l.buy = req.buy /\ l.filled = 0
      BY <3>1, <3>2, NewOrderType, SMTT(60)
    <3>4. QED
      BY <3>3, SMTT(30) DEF st
  <2> HIDE DEF l
  <2>4. n \in Orders
    BY <1>1, <1>2, <2>3, CreateOrderType, SMTT(30)
  <2>5. /\ n.lru = orders.lru /\ n.open = orders.open \cup {o} /\ n.live[o] = l
        /\ \A i \in OrderIds \ {o} : n.live[i] = orders.live[i]
    BY <1>1, <1>2, SMTT(30) DEF CreateOrder, Orders
  <2> HIDE DEF n
  <2>6. ~ ReuseIds => Changes(orders, n, o)
    BY <1>3, <2>3, <2>5, SMTT(30) DEF Changes, IsTerminal
  <2>7. /\ rs \in Store /\ TotalsAreSums(rs) /\ ps \in [Keys -> Position]
        /\ \A i \in OrderIds \ {o} : rs.res[i] = resv.res[i]
    BY <1>1, <2>1, CoverEffect, SMTT(30) DEF Inv
  <2> HIDE DEF rs, ps
  <2>8. ~ ReuseIds => Sound(n, rs, used \cup {o})
    BY <1>1, <1>2, <1>3, <2>4, <2>5, <2>6, <2>7, ChangesKeepSound, SMTT(30)
  <2>9. QED
    BY <1>1, <1>2, <2>1, <2>4, <2>5, <2>6, <2>7, <2>8, SMTT(30)
       DEF Inv, TypeOK, ReservedTotalsExact, CacheBounded
<1>9. QED
  BY <1>4, <1>6, <1>7, <1>8, SMTT(30) DEF PlaceOrder

(* A message that leaves the three stores alone keeps the invariant.        *)
LEMMA StoresUnchangedKeepsInv ==
    ASSUME Inv, orders' = orders, resv' = resv, used' = used,
           pos' \in [Keys -> Position], bal' \in [Keys -> Int], pending' \in [Refs -> Nat],
           panic' \subseteq Accounts
    PROVE  Inv'
BY DEF Inv, TypeOK, ReservedTotalsExact, CacheBounded

(* process_cancel() counts the attempt and changes nothing else.            *)
LEMMA CancelOrderKeepsInv ==
    ASSUME Inv, NEW o \in OrderIds, CancelOrder(o)
    PROVE  Inv'
<1>1. /\ resv' = resv /\ pos' = pos /\ bal' = bal /\ pending' = pending /\ panic' = panic
      /\ used' = used
  BY SMTT(30) DEF CancelOrder
<1>2. CASE CancelRefused(o)
  <2>1. orders' = orders
    BY <1>2, SMTT(30) DEF CancelRefused
  <2>2. QED
    BY <1>1, <2>1, StoresUnchangedKeepsInv, SMTT(30) DEF Inv, TypeOK
<1>3. CASE CancelSent(o)
  <2> DEFINE l == orders.live[o]
             x == l.cancels + 1
             c == [l EXCEPT !.cancels = x]
             n == [orders EXCEPT !.live = [orders.live EXCEPT ![o] = c]]
  <2>1. orders \in Orders /\ Len(orders.lru) <= MaxCachedOrders /\ l \in LiveOrder
    BY DEF Inv, TypeOK, CacheBounded, Orders
  <2>2. l.status # "Absent" /\ orders' = n
    BY <1>3, <2>1 DEF CancelSent, Present, Orders
  <2>3. c \in LiveOrder /\ c.status = l.status /\ c.ext = l.ext /\ c.filled = l.filled
    <3>1. x \in Nat
      <4>1. l.cancels \in Nat
        BY <2>1 DEF LiveOrder
      <4> HIDE DEF l
      <4>2. QED
        BY <4>1
    <3> HIDE DEF x
    <3>2. QED
      BY <2>1, <3>1, SMTT(30), ZenonT(20), SMTT(40) DEF LiveOrder
  <2> HIDE DEF c
  <2>4. /\ n \in Orders /\ n.lru = orders.lru /\ n.open = orders.open /\ n.live[o] = c
        /\ \A i \in OrderIds \ {o} : n.live[i] = orders.live[i]
    BY <2>1, <2>3, ZenonT(30) DEF Orders
  <2> HIDE DEF n
  <2>5. ~ ReuseIds => Sound(n, resv, used)
    <3>1. SUFFICES ASSUME ~ ReuseIds PROVE Sound(n, resv, used)
      OBVIOUS
    <3>2. Sound(orders, resv, used)
      BY <3>1 DEF Inv
    <3>3. Changes(orders, n, o)
      BY <2>3, <2>4, <3>2 DEF Changes, Sound, IsTerminal
    <3>4. Sound(n, resv, used \cup {o})
      <4>1. resv.res[o] # NoRes => o \in n.open
        BY <2>4, <3>2, SMTT(30) DEF Sound
      <4>2. QED
        BY <2>1, <2>4, <3>2, <3>3, <4>1, ChangesKeepSound
    <3>5. o \in used
      BY <2>2, <3>2 DEF Sound
    <3>6. used \cup {o} = used
      BY <3>5, SMTT(30)
    <3>7. QED
      BY <3>4, <3>6
  <2>6. QED
    BY <1>1, <2>1, <2>2, <2>4, <2>5, SMTT(30) DEF Inv, TypeOK, ReservedTotalsExact, CacheBounded
<1>4. QED
  BY <1>2, <1>3 DEF CancelOrder

(* Rejecting an order that was not sent: it closes and its reservation and  *)
(* frozen inventory are given back.                                         *)
LEMMA SendFailedEffect ==
    ASSUME NEW os \in Orders, NEW rs \in Store, NEW ps \in [Keys -> Position],
           TotalsAreSums(rs), Len(os.lru) <= MaxCachedOrders, NEW o \in OrderIds
    PROVE  LET st == SendFailed([orders |-> os, resv |-> rs, pos |-> ps], o)
           IN  /\ st.orders \in Orders /\ Len(st.orders.lru) <= MaxCachedOrders
               /\ Changes(os, st.orders, o)
               /\ st.orders.live[o].status # "Absent" => st.orders.live[o].filled = os.live[o].filled
               /\ st.resv \in Store /\ TotalsAreSums(st.resv) /\ Shrinks(rs, st.resv, o)
               /\ st.resv.res[o] = NoRes
               /\ st.pos \in [Keys -> Position]
               /\ (\A k \in Keys : NonNegative(ps[k])) => \A k \in Keys : NonNegative(st.pos[k])
<1> DEFINE s0 == [orders |-> os, resv |-> rs, pos |-> ps]
           l == os.live[o]
           c == [l EXCEPT !.status = "Rejected"]
           m == [os EXCEPT !.live = [os.live EXCEPT ![o] = c]]
           n == MarkClosed(m, o)
           left == IF Present(n, o) THEN l.qty - l.filled ELSE 0
           k0 == <<l.acct, l.pos>>
           st == SendFailed(s0, o)
<1>1. l \in LiveOrder
  BY DEF Orders
<1>2. c \in LiveOrder /\ c.filled = l.filled
  BY <1>1, SMTT(30) DEF LiveOrder, OrderStatus
<1>3. [os EXCEPT !.live[o].status = "Rejected"] = m
  BY DEF Orders
<1>4. /\ st.orders = n /\ st.resv = Release(rs, o)
      /\ st.pos = IF l.pos # NoTarget /\ ~ l.buy /\ left > 0
                  THEN [ps EXCEPT ![k0] = Unfreeze(@, left)] ELSE ps
  BY <1>3 DEF SendFailed
<1> HIDE DEF c, st
<1>5. /\ m \in Orders /\ m.lru = os.lru /\ m.open = os.open /\ m.live[o] = c
      /\ \A i \in OrderIds \ {o} : m.live[i] = os.live[i]
  BY <1>2, SMTT(30), ZenonT(20), SMTT(40) DEF Orders
<1> HIDE DEF m
<1>6. /\ n \in Orders /\ Len(n.lru) <= MaxCachedOrders /\ Changes(os, n, o)
      /\ n.live[o] = m.live[o] \/ n.live[o] = AbsentOrder
  BY <1>5, ClosingChanges
<1>7. n.live[o].status # "Absent" => n.live[o].filled = l.filled
  <2>1. AbsentOrder.status = "Absent"
    BY DEF AbsentOrder
  <2> HIDE DEF n
  <2>2. QED
    BY <1>2, <1>5, <1>6, <2>1, SMTT(30)
<1>8. /\ Release(rs, o) \in Store /\ TotalsAreSums(Release(rs, o))
      /\ Shrinks(rs, Release(rs, o), o) /\ Release(rs, o).res[o] = NoRes
  BY ReleaseKeepsSums, ReleaseShrinks, SMTT(30)
<1>9. /\ st.pos \in [Keys -> Position]
      /\ (\A k \in Keys : NonNegative(ps[k])) => \A k \in Keys : NonNegative(st.pos[k])
  <2>1. CASE l.pos # NoTarget /\ ~ l.buy /\ left > 0
    <3> DEFINE p == ps[k0]
               u == Unfreeze(p, left)
    <3>1. k0 \in Keys /\ left \in Nat /\ p \in Position
      <4>1. /\ l.acct \in Accounts /\ l.pos \in Targets \cup {NoTarget}
            /\ l.qty \in Nat /\ l.filled \in Nat
        BY <1>1, SMTT(30), ZenonT(20), SMTT(40) DEF LiveOrder
      <4>2. k0 \in Keys
        BY <2>1, <4>1, KeyOf, SMTT(30)
      <4>3. left \in Int
        BY <4>1, SMTT(30), ZenonT(20), SMTT(40)
      <4> HIDE DEF left, k0
      <4>4. QED
        BY <2>1, <4>2, <4>3, SMTT(30)
    <3>2. st.pos = [ps EXCEPT ![k0] = u]
      BY <1>4, <2>1, SMTT(30)
    <3> HIDE DEF k0, left, p
    <3>3. u \in Position /\ (NonNegative(p) => NonNegative(u))
      BY <3>1, UnfreezeEffect, SMTT(30)
    <3> HIDE DEF u
    <3>4. QED
      BY <3>1, <3>2, <3>3, SMTT(30) DEF p
  <2>2. CASE ~ (l.pos # NoTarget /\ ~ l.buy /\ left > 0)
    BY <1>4, <2>2, ZenonT(30)
  <2>3. QED
    BY <2>1, <2>2, SMTT(30)
<1>10. QED
  BY <1>4, <1>6, <1>7, <1>8, <1>9, ZenonT(30) DEF st, s0

(* process_gateway_send_failed() keeps the invariant.                       *)
LEMMA GatewaySendFailedKeepsInv ==
    ASSUME Inv, NEW o \in OrderIds, GatewaySendFailed(o)
    PROVE  Inv'
<1>1. bal' = bal /\ pending' = pending /\ panic' = panic /\ used' = used
  BY SMTT(30) DEF GatewaySendFailed
<1>2. CASE ~ Present(orders, o) \/ IsTerminal(orders.live[o])
  <2>1. orders' = orders /\ resv' = resv /\ pos' = pos
    BY <1>2, SMTT(30), ZenonT(20), SMTT(40) DEF GatewaySendFailed
  <2>2. QED
    BY <1>1, <2>1, StoresUnchangedKeepsInv, SMTT(30) DEF Inv, TypeOK
<1>3. CASE ~ (~ Present(orders, o) \/ IsTerminal(orders.live[o]))
  <2> DEFINE st == SendFailed([orders |-> orders, resv |-> resv, pos |-> pos], o)
  <2>1. orders' = st.orders /\ resv' = st.resv /\ pos' = st.pos
    BY <1>3 DEF GatewaySendFailed
  <2>2. /\ orders \in Orders /\ resv \in Store /\ pos \in [Keys -> Position]
        /\ TotalsAreSums(resv) /\ Len(orders.lru) <= MaxCachedOrders
    BY SMTT(30) DEF Inv, TypeOK, ReservedTotalsExact, CacheBounded
  <2>3. /\ st.orders \in Orders /\ Len(st.orders.lru) <= MaxCachedOrders
        /\ Changes(orders, st.orders, o)
        /\ st.resv \in Store /\ TotalsAreSums(st.resv) /\ Shrinks(resv, st.resv, o)
        /\ st.resv.res[o] = NoRes
        /\ st.pos \in [Keys -> Position]
    BY <2>2, SendFailedEffect, ZenonT(30)
  <2> HIDE DEF st
  <2>4. ~ ReuseIds => Sound(st.orders, st.resv, used)
    <3>1. SUFFICES ASSUME ~ ReuseIds PROVE Sound(st.orders, st.resv, used)
      OBVIOUS
    <3>2. Sound(orders, resv, used)
      BY <3>1 DEF Inv
    <3>3. \A i \in OrderIds \ {o} : st.resv.res[i] = resv.res[i]
      BY <2>3, SMTT(30), ZenonT(20), SMTT(40) DEF Shrinks
    <3>4. Sound(st.orders, st.resv, used \cup {o})
      BY <2>2, <2>3, <3>2, <3>3, ChangesKeepSound, SMTT(30)
    <3>5. used \cup {o} = used
      BY <1>3, <3>2, SMTT(30) DEF Sound, Present
    <3>6. QED
      BY <3>4, <3>5
  <2>5. QED
    BY <1>1, <2>1, <2>3, <2>4, SMTT(30) DEF Inv, TypeOK, ReservedTotalsExact, CacheBounded
<1>4. QED
  BY <1>2, <1>3, SMTT(30)

(* The position after a report on an order that has one.                    *)
LEMMA PositionAfterEffect ==
    ASSUME NEW p \in Position, NEW l \in LiveOrder, l.status # "Absent", NEW r \in Report
    PROVE  /\ PositionAfter(p, l, r) \in Position
           /\ NonNegative(p) => NonNegative(PositionAfter(p, l, r))
<1> DEFINE a == ApplyEntries(l, r)
           f1 == r.trade
           f2 == InferredTrade(l, r)
           p1 == ApplyFill(p, l.buy, l.bc, f1)
           p2 == ApplyFill(p1, l.buy, l.bc, f2)
           left == a.qty - a.filled
           n == PositionAfter(p, l, r)
<1>1. n = IF IsTerminal(a) /\ ~ l.buy /\ left > 0 THEN Unfreeze(p2, left) ELSE p2
  BY DEF PositionAfter
<1>2. f1 \in Nat /\ f2 \in Nat
  BY FilledAfterGrows, SMTT(30) DEF Report
<1>3. left \in Int
  BY ApplyEntriesEffect, SMTT(30) DEF LiveOrder
<1>4. l.buy \in BOOLEAN /\ l.bc \in BOOLEAN
  BY DEF LiveOrder
<1> HIDE DEF a, f1, f2, left, n
<1>5. p1 \in Position /\ (NonNegative(p) => NonNegative(p1))
  BY <1>2, <1>4, ApplyFillEffect, SMTT(30)
<1> HIDE DEF p1
<1>6. p2 \in Position /\ (NonNegative(p1) => NonNegative(p2))
  BY <1>2, <1>4, <1>5, ApplyFillEffect, SMTT(30)
<1> HIDE DEF p2
<1>7. CASE left > 0
  <2>1. left \in Nat
    BY <1>3, <1>7, SMTT(30)
  <2>2. Unfreeze(p2, left) \in Position /\ (NonNegative(p2) => NonNegative(Unfreeze(p2, left)))
    BY <1>6, <2>1, UnfreezeEffect, SMTT(30)
  <2>3. QED
    BY <1>1, <1>5, <1>6, <2>2 DEF n
<1>8. CASE ~ (left > 0)
  BY <1>1, <1>5, <1>6, <1>8, SMTT(30) DEF n
<1>9. QED
  BY <1>7, <1>8, SMTT(30)

(* What a message of Reports looks like.                                    *)
LEMMA ReportInput ==
    ASSUME NEW r \in Reports
    PROVE  r \in Report /\ (r.link => r.ref # NoRef)
BY InputsAssumption, SMTT(30)

(* process_report_for_order() from a store m that differs from the current  *)
(* one in o alone: what the step leaves.                                    *)
LEMMA ReportForOrderEffect ==
    ASSUME Inv, NEW m \in Orders, NEW o \in OrderIds, NEW r \in Report, r.link => r.ref # NoRef,
           m.lru = orders.lru, m.open = orders.open,
           \A i \in OrderIds \ {o} : m.live[i] = orders.live[i],
           m.live[o].status # "Absent",
           ReportForOrder(m, o, r)
    PROVE  /\ orders' \in Orders /\ Len(orders'.lru) <= MaxCachedOrders
           /\ resv' \in Store /\ TotalsAreSums(resv') /\ Shrinks(resv, resv', o)
           /\ pos' \in [Keys -> Position]
           /\ PositionNeverNegative => \A k \in Keys : NonNegative(pos'[k])
           /\ orders'.live[o].status # "Absent" => orders'.live[o].filled >= m.live[o].filled
           /\ (~ ReuseIds /\ (o \in orders.open => ~ m.live[o].ext))
                 => Changes(orders, orders', o) /\ Sound(orders', resv', used \cup {o})
<1> DEFINE l == m.live[o]
           k0 == <<l.acct, l.pos>>
<1>1. /\ r \in Report /\ (r.link => r.ref # NoRef) /\ l \in LiveOrder
      /\ orders \in Orders /\ Len(orders.lru) <= MaxCachedOrders
      /\ resv \in Store /\ TotalsAreSums(resv) /\ pos \in [Keys -> Position]
  BY ZenonT(20) DEF Inv, TypeOK, ReservedTotalsExact, CacheBounded, Orders
<1>2. /\ orders' = OrdersAfter(m, o, r)
      /\ resv' = ReservationsAfter(o, l, r)
      /\ pos' = IF l.pos # NoTarget THEN [pos EXCEPT ![k0] = PositionAfter(@, l, r)] ELSE pos
  BY SMTT(30), ZenonT(20), SMTT(40) DEF ReportForOrder
<1>3. /\ orders' \in Orders /\ Len(orders'.lru) <= MaxCachedOrders
      /\ (o \in orders.open => o \notin Ids(orders.lru) /\ ~ l.ext) => Changes(orders, orders', o)
      /\ ~ IsTerminal(ApplyEntries(l, r)) => orders'.open = orders.open
      /\ orders'.live[o].status # "Absent" => orders'.live[o].filled >= l.filled
  BY <1>1, <1>2, OrdersAfterChanges, ZenonT(30)
<1>4. /\ resv' \in Store /\ TotalsAreSums(resv') /\ Shrinks(resv, resv', o)
      /\ IsTerminal(ApplyEntries(l, r)) => resv'.res[o] = NoRes
  <2> HIDE DEF l
  <2>1. QED
    BY <1>1, <1>2, ReservationsAfterEffect, ZenonT(30)
<1>5. /\ pos' \in [Keys -> Position]
      /\ PositionNeverNegative => \A k \in Keys : NonNegative(pos'[k])
  <2>0. PositionNeverNegative => \A k \in Keys : NonNegative(pos[k])
    BY SMTT(30) DEF PositionNeverNegative, NonNegative
  <2>1. CASE l.pos # NoTarget
    <3> DEFINE p == pos[k0]
               n == PositionAfter(p, l, r)
    <3>1. k0 \in Keys
      BY <1>1, <2>1, KeyOf, SMTT(30), ZenonT(20), SMTT(40) DEF LiveOrder
    <3>2. p \in Position /\ pos' = [pos EXCEPT ![k0] = n]
      BY <1>1, <1>2, <2>1, <3>1, SMTT(30)
    <3> HIDE DEF k0, l, p
    <3>3. l.status # "Absent"
      BY SMTT(30), ZenonT(20), SMTT(40) DEF l
    <3>4. n \in Position /\ (NonNegative(p) => NonNegative(n))
      BY <1>1, <3>2, <3>3, PositionAfterEffect, SMTT(30), ZenonT(20), SMTT(40)
    <3> HIDE DEF n
    <3>5. QED
      BY <1>1, <2>0, <3>1, <3>2, <3>4, SMTT(30), ZenonT(20), SMTT(40) DEF p
  <2>2. CASE ~ (l.pos # NoTarget)
    BY <1>1, <1>2, <2>0, <2>2, SMTT(30)
  <2>3. QED
    BY <2>1, <2>2, SMTT(30)
<1>6. ASSUME ~ ReuseIds, o \in orders.open => ~ l.ext
      PROVE  Changes(orders, orders', o) /\ Sound(orders', resv', used \cup {o})
  <2>1. Sound(orders, resv, used)
    BY <1>6, SMTT(30), ZenonT(20), SMTT(40) DEF Inv
  <2>2. Changes(orders, orders', o)
    BY <1>3, <1>6, <2>1, SMTT(30), ZenonT(20), SMTT(40) DEF Sound
  <2>3. /\ \A i \in OrderIds \ {o} : resv'.res[i] = resv.res[i]
        /\ resv'.res[o] # NoRes => o \in orders'.open
    BY <1>3, <1>4, <2>1, SMTT(30) DEF Shrinks, Sound
  <2>4. QED
    BY <1>1, <1>3, <2>1, <2>2, <2>3, ChangesKeepSound, ZenonT(30)
<1>7. QED
  BY <1>3, <1>4, <1>5, <1>6, ZenonT(30)

(* process_order_report(): it is ignored, it is buffered, or one order is   *)
(* processed: a known one, or an external one created for it.               *)
LEMMA OrderReportCases ==
    ASSUME TypeOK, NEW r \in Report, OrderReport(r)
    PROVE  /\ pending' \in [Refs -> Nat] /\ bal' = bal /\ panic' = panic
           /\ \/ orders' = orders /\ resv' = resv /\ pos' = pos /\ used' = used
              \/ \E m \in Orders, o \in OrderIds :
                    /\ m.lru = orders.lru /\ m.open = orders.open
                    /\ \A i \in OrderIds \ {o} : m.live[i] = orders.live[i]
                    /\ m.live[o].status # "Absent"
                    /\ ReportForOrder(m, o, r)
                    /\ (m = orders /\ used' = used) \/ (o \notin used /\ used' = used \cup {o})
<1>1. /\ r \in Report /\ orders \in Orders /\ pending \in [Refs -> Nat]
      /\ bal' = bal /\ panic' = panic
  BY SMTT(30) DEF TypeOK, OrderReport
<1>2. /\ r.oid \in OrderIds \cup {NoId} /\ r.ref \in Refs \cup {NoRef} /\ r.acct \in Accounts
      /\ orders.refIdx \in [Refs -> OrderIds \cup {NoId}]
      /\ orders.extIdx \in [Refs -> OrderIds \cup {NoId}]
  BY <1>1, SMTT(30) DEF Report, Orders
<1>3. ASSUME NEW o \in OrderIds, Present(orders, o), ReportForOrder(orders, o, r),
             pending' = pending, used' = used
      PROVE  \E m \in Orders, i \in OrderIds :
                /\ m.lru = orders.lru /\ m.open = orders.open
                /\ \A j \in OrderIds \ {i} : m.live[j] = orders.live[j]
                /\ m.live[i].status # "Absent"
                /\ ReportForOrder(m, i, r)
                /\ (m = orders /\ used' = used) \/ (i \notin used /\ used' = used \cup {i})
  <2>1. orders.live[o].status # "Absent"
    BY <1>3 DEF Present
  <2> orders \in Orders
    BY <1>1, SMTT(30)
  <2> HIDE DEF ReportForOrder
  <2>2. WITNESS orders \in Orders, o \in OrderIds
  <2>3. QED
    BY <1>3, <2>1, SMTT(30)
<1>4. CASE ReportDropped(r) \/ ReportBuffered(r)
  <2>1. CASE ReportDropped(r)
    BY <1>1, <2>1, ZenonT(30) DEF ReportDropped, Ignored
  <2>2. CASE ReportBuffered(r)
    <3>1. /\ r.ref \in Refs /\ pending' = [pending EXCEPT ![r.ref] = pending[r.ref] + 1]
          /\ orders' = orders /\ resv' = resv /\ pos' = pos /\ used' = used
      BY <1>2, <2>2, SMTT(30) DEF ReportBuffered
    <3>2. pending' \in [Refs -> Nat]
      BY <1>1, <3>1, SMTT(30)
    <3>3. QED
      BY <1>1, <3>1, <3>2, SMTT(30)
  <2>3. QED
    BY <1>4, <2>1, <2>2, ZenonT(30)
<1>5. CASE ReportKnown(r)
  <2> DEFINE o == ResolveOrderId(orders, r.oid, r.ref)
  <2>1. o # NoId /\ o \in OrderIds
    BY <1>2, <1>5, SMTT(30), ZenonT(20), SMTT(40) DEF ReportKnown, ResolveOrderId
  <2>2. CASE Present(orders, o)
    <3>1. ReportForOrder(orders, o, r) /\ pending' = pending /\ used' = used
      BY <1>5, <2>2, ZenonT(20) DEF ReportKnown
    <3> HIDE DEF o
    <3>2. QED
      BY <1>1, <1>3, <2>1, <2>2, <3>1, SMTT(30)
  <2>3. CASE ~ Present(orders, o)
    BY <1>1, <1>5, <2>3, SMTT(30) DEF ReportKnown, Ignored
  <2>4. QED
    BY <2>2, <2>3, ZenonT(30)
<1>6. CASE ReportExternal(r)
  <2>1. r.ref \in Refs /\ pending' = pending
    BY <1>2, <1>6, ZenonT(20) DEF ReportExternal
  <2>2. CASE /\ orders.extIdx[r.ref] # NoId
             /\ Present(orders, orders.extIdx[r.ref])
             /\ ReportForOrder(orders, orders.extIdx[r.ref], r)
             /\ UNCHANGED used
    <3> DEFINE o == orders.extIdx[r.ref]
    <3>1. o \in OrderIds
      BY <1>2, <2>1, <2>2, SMTT(30), ZenonT(20), SMTT(40)
    <3>2. Present(orders, o) /\ ReportForOrder(orders, o, r) /\ used' = used
      BY <2>2, SMTT(30)
    <3> HIDE DEF o
    <3>3. QED
      BY <1>1, <1>3, <2>1, <3>1, <3>2, SMTT(30), ZenonT(20), SMTT(40)
  <2>3. ASSUME NEW e \in OrderIds \ (ClientIds \cup used),
               ReportForOrder(CreateExternalOrder(orders, e, r.ref, r.acct), e, r),
               used' = used \cup {e}
        PROVE  \E m \in Orders, o \in OrderIds :
                  /\ m.lru = orders.lru /\ m.open = orders.open
                  /\ \A i \in OrderIds \ {o} : m.live[i] = orders.live[i]
                  /\ m.live[o].status # "Absent"
                  /\ ReportForOrder(m, o, r)
                  /\ (m = orders /\ used' = used) \/ (o \notin used /\ used' = used \cup {o})
    <3> DEFINE n == CreateExternalOrder(orders, e, r.ref, r.acct)
    <3>1. n \in Orders
      BY <1>1, <1>2, <2>1, CreateExternalOrderType, SMTT(30)
    <3>2. /\ n.lru = orders.lru /\ n.open = orders.open
          /\ \A i \in OrderIds \ {e} : n.live[i] = orders.live[i]
          /\ n.live[e].status = "Pending"
      BY <1>1, <2>1, SMTT(30) DEF CreateExternalOrder, Orders, AbsentOrder
    <3>3. ReportForOrder(n, e, r)
      BY <2>3, SMTT(30)
    <3> HIDE DEF n, ReportForOrder
    <3>4. WITNESS n \in Orders, e \in OrderIds
    <3>5. QED
      BY <2>3, <3>2, <3>3, SMTT(30)
  <2>4. QED
    BY <1>1, <1>6, <2>1, <2>2, <2>3, ZenonT(30) DEF ReportExternal
<1>7. QED
  BY <1>4, <1>5, <1>6, ZenonT(30) DEF OrderReport

(* Every report keeps the invariant.                                        *)
LEMMA OrderReportKeepsInv ==
    ASSUME Inv, NEW r \in Report, r.link => r.ref # NoRef, OrderReport(r)
    PROVE  Inv'
<1>1. TypeOK /\ pending' \in [Refs -> Nat] /\ bal' = bal /\ panic' = panic
  BY OrderReportCases, SMTT(30) DEF Inv
<1>2. CASE orders' = orders /\ resv' = resv /\ pos' = pos /\ used' = used
  BY <1>1, <1>2, StoresUnchangedKeepsInv, SMTT(30), ZenonT(20), SMTT(40) DEF TypeOK
<1>3. ASSUME NEW m \in Orders, NEW o \in OrderIds,
             m.lru = orders.lru, m.open = orders.open,
             \A i \in OrderIds \ {o} : m.live[i] = orders.live[i],
             m.live[o].status # "Absent",
             ReportForOrder(m, o, r),
             (m = orders /\ used' = used) \/ (o \notin used /\ used' = used \cup {o})
      PROVE  Inv'
  <2>1. /\ orders' \in Orders /\ Len(orders'.lru) <= MaxCachedOrders
        /\ resv' \in Store /\ TotalsAreSums(resv') /\ pos' \in [Keys -> Position]
        /\ (~ ReuseIds /\ (o \in orders.open => ~ m.live[o].ext))
              => Sound(orders', resv', used \cup {o})
    BY <1>3, ReportForOrderEffect, ZenonT(30)
  <2>2. ASSUME ~ ReuseIds
        PROVE  Sound(orders', resv', used')
    <3>1. Sound(orders, resv, used)
      BY <2>2, SMTT(30), ZenonT(20), SMTT(40) DEF Inv
    <3>2. o \in orders.open => ~ m.live[o].ext
      BY <1>3, <3>1, SMTT(30), ZenonT(20), SMTT(40) DEF Sound
    <3>3. used' = used \cup {o}
      BY <1>3, <3>1, SMTT(30) DEF Sound
    <3>4. QED
      BY <2>1, <2>2, <3>2, <3>3, SMTT(30)
  <2>3. used' \subseteq OrderIds
    BY <1>1, <1>3, SMTT(30) DEF TypeOK
  <2>4. QED
    BY <1>1, <2>1, <2>2, <2>3, SMTT(30) DEF Inv, TypeOK, ReservedTotalsExact, CacheBounded
<1>4. QED
  BY <1>1, <1>2, <1>3, OrderReportCases, SMTT(30)

(* A position entry as a venue reports it: what is available is between     *)
(* zero and the total.                                                      *)
Plausible(u) == ~ u.spot => 0 <= u.avail /\ u.avail <= u.qty

(* A balance entry touches balances and positions only.                     *)
LEMMA BalanceUpdateEffect ==
    ASSUME TypeOK, NEW u \in Updates, BalanceUpdate(u)
    PROVE  /\ orders' = orders /\ resv' = resv /\ pending' = pending /\ panic' = panic
           /\ used' = used
           /\ bal' \in [Keys -> Int] /\ pos' \in [Keys -> Position]
           /\ (PositionNeverNegative /\ Plausible(u))
                 => \A k \in Keys : NonNegative(pos'[k])
<1> DEFINE k0 == <<u.acct, u.target>>
<1>1. /\ u.acct \in Accounts /\ u.target \in Targets \cup {NoTarget}
      /\ u.qty \in Int /\ u.avail \in Int /\ u.short \in BOOLEAN
  BY InputsAssumption, SMTT(30) DEF BalanceEntry
<1>2. /\ pos \in [Keys -> Position] /\ bal \in [Keys -> Int]
      /\ PositionNeverNegative => \A k \in Keys : NonNegative(pos[k])
  BY DEF TypeOK, PositionNeverNegative, NonNegative
<1>3. u.target # NoTarget => k0 \in Keys
  BY <1>1, KeyOf, SMTT(30)
<1>4. /\ orders' = orders /\ resv' = resv /\ pending' = pending /\ panic' = panic
      /\ used' = used
  BY DEF BalanceUpdate
<1>5. CASE u.acct \notin Routed \/ u.spot
  <2>1. pos' = pos /\ bal' \in [Keys -> Int]
    BY <1>1, <1>2, <1>3, <1>5, ZenonT(30) DEF BalanceUpdate
  <2>2. QED
    BY <1>2, <1>4, <2>1, SMTT(30)
<1>6. CASE ~ (u.acct \notin Routed \/ u.spot)
  <2> DEFINE p == pos[k0]
             s == Seed(p, u.qty, u.avail, u.short)
             n == UpdateReconcileStatus(s, u.qty)
  <2>1. bal' = bal /\ pos' = IF u.target # NoTarget THEN [pos EXCEPT ![k0] = n] ELSE pos
    BY <1>6 DEF BalanceUpdate
  <2>2. CASE u.target # NoTarget
    <3>1. k0 \in Keys /\ p \in Position /\ pos' = [pos EXCEPT ![k0] = n]
      BY <1>2, <1>3, <2>1, <2>2, SMTT(30)
    <3> HIDE DEF k0, p
    <3>2. /\ s \in Position
          /\ (NonNegative(p) /\ 0 <= u.avail /\ u.avail <= u.qty) => NonNegative(s)
      BY <1>1, <3>1, SeedEffect, SMTT(30)
    <3> HIDE DEF s
    <3>3. n \in Position /\ (NonNegative(s) => NonNegative(n))
      BY <1>1, <3>2, UpdateReconcileStatusEffect, SMTT(30)
    <3> HIDE DEF n
    <3>4. pos' \in [Keys -> Position]
      BY <1>2, <3>1, <3>3, SMTT(30)
    <3>5. (PositionNeverNegative /\ Plausible(u))
             => \A k \in Keys : NonNegative(pos'[k])
      BY <1>2, <1>6, <3>1, <3>2, <3>3, SMTT(30) DEF p, Plausible
    <3>6. QED
      BY <1>2, <1>4, <2>1, <3>4, <3>5
  <2>3. CASE ~ (u.target # NoTarget)
    BY <1>2, <1>4, <2>1, <2>3, SMTT(30)
  <2>4. QED
    BY <2>2, <2>3
<1>7. QED
  BY <1>5, <1>6, SMTT(30)

(* The empty stores satisfy the invariant.                                  *)
LEMMA InitInv == Init => Inv
<1> SUFFICES ASSUME Init PROVE Inv
  OBVIOUS
<1>1. AbsentOrder \in LiveOrder
  BY AbsentOrderType, ConstantsAssumption, SMTT(30), ZenonT(20), SMTT(40)
<1>2. EmptyOrders \in Orders /\ EmptyOrders.lru = << >> /\ EmptyOrders.open = {}
  <2> DEFINE nl == [i \in OrderIds |-> AbsentOrder]
             ni == [i \in Refs |-> NoId]
  <2>1. EmptyOrders = [live |-> nl, open |-> {}, lru |-> << >>, refIdx |-> ni, extIdx |-> ni]
    BY DEF EmptyOrders
  <2>2. /\ nl \in [OrderIds -> LiveOrder] /\ ni \in [Refs -> OrderIds \cup {NoId}]
        /\ << >> \in Seq(OrderIds)
    BY <1>1
  <2> HIDE DEF nl, ni
  <2>3. QED
    BY <2>1, <2>2, SMTT(30), ZenonT(20), SMTT(40) DEF Orders
<1>3. NoPosition \in Position
  BY DEF NoPosition, Position, ReconcileStatus, RECONCILE_PERSISTENT_THRESHOLD
<1>4. TypeOK /\ ReservedTotalsExact
  BY <1>2, <1>3, EmptySums, SMTT(30), ZenonT(20), SMTT(40) DEF Init, TypeOK, ReservedTotalsExact
<1>5. Len(orders.lru) = 0 /\ CacheBounded
  BY <1>2, MaxCachedAssumption, SMT, ZenonT(20), SMTT(30) DEF Init, CacheBounded
<1>6. Sound(orders, resv, used)
  <2>1. Ids(orders.lru) = {}
    BY <1>5, SMTT(30) DEF Ids
  <2>2. \A i \in OrderIds : resv.res[i] = NoRes /\ orders.live[i].status = "Absent"
    BY ZenonT(20) DEF Init, EmptyStore, EmptyOrders, AbsentOrder
  <2>3. orders.open = {}
    BY <1>2, ZenonT(30) DEF Init
  <2>4. QED
    BY <2>1, <2>2, <2>3, SMTT(30) DEF Sound
<1>7. QED
  BY <1>4, <1>5, <1>6 DEF Inv

-----------------------------------------------------------------------------
(* The theorems                                                             *)


(* Every step of the core keeps the invariant.                              *)
LEMMA NextInv == Inv /\ [Next]_vars => Inv'
<1> SUFFICES ASSUME Inv, [Next]_vars PROVE Inv'
  OBVIOUS
<1>0. TypeOK
  BY DEF Inv
<1>1. CASE UNCHANGED vars
  BY <1>0, <1>1, StoresUnchangedKeepsInv, SMTT(30) DEF vars, TypeOK
<1>2. ASSUME NEW o \in ClientIds, NEW req \in Requests, PlaceOrder(o, req) PROVE Inv'
  BY <1>2, PlaceOrderEffect
<1>3. ASSUME NEW o \in OrderIds, CancelOrder(o) PROVE Inv'
  BY <1>3, CancelOrderKeepsInv
<1>4. ASSUME NEW o \in OrderIds, GatewaySendFailed(o) PROVE Inv'
  BY <1>4, GatewaySendFailedKeepsInv, SMTT(30)
<1>5. ASSUME NEW o \in OrderIds, GatewayCancelSendFailed(o) PROVE Inv'
  BY <1>0, <1>5, StoresUnchangedKeepsInv, SMTT(30) DEF GatewayCancelSendFailed, TypeOK
<1>6. ASSUME NEW r \in Reports, OrderReport(r) PROVE Inv'
  BY <1>6, ReportInput, OrderReportKeepsInv, SMTT(30)
<1>7. ASSUME NEW u \in Updates, BalanceUpdate(u) PROVE Inv'
  BY <1>0, <1>7, BalanceUpdateEffect, StoresUnchangedKeepsInv, SMTT(30) DEF TypeOK
<1>8. ASSUME NEW a \in Accounts, Panic(a) \/ DontPanic(a) PROVE Inv'
  BY <1>0, <1>8, StoresUnchangedKeepsInv DEF Panic, DontPanic, TypeOK
<1>9. QED
  BY <1>1, <1>2, <1>3, <1>4, <1>5, <1>6, <1>7, <1>8, SMTT(30) DEF Next

(* The state of every store stays well-formed.                              *)
THEOREM TypeCorrect == Spec => []TypeOK
<1>1. Inv => TypeOK
  BY SMTT(30) DEF Inv
<1>2. QED
  BY <1>1, InitInv, NextInv, PTL DEF Spec

(* The per-key totals that check_available() reads are, after any history   *)
(* of messages, the sum of the live reservations.                           *)
THEOREM TotalsExact == Spec => []ReservedTotalsExact
<1>1. Inv => ReservedTotalsExact
  BY SMTT(30) DEF Inv
<1>2. QED
  BY <1>1, InitInv, NextInv, PTL DEF Spec

(* The closed-order LRU never exceeds max_cached_orders.                    *)
THEOREM CacheStaysBounded == Spec => []CacheBounded
<1>1. Inv => CacheBounded
  BY DEF Inv
<1>2. QED
  BY <1>1, InitInv, NextInv, PTL DEF Spec

(* When ids are not reused, no reservation outlives its order.              *)
THEOREM ReservationsStayBacked ==
    ASSUME ~ ReuseIds
    PROVE  Spec => []ReservationsBacked
<1>1. Inv => ReservationsBacked
  BY SMTT(30), ZenonT(20), SMTT(40) DEF Inv, Sound, ReservationsBacked
<1>2. QED
  BY <1>1, InitInv, NextInv, PTL DEF Spec

(* When ids are not reused, open_order_ids holds only live, unfinished      *)
(* orders of the OMS, none of which the LRU can evict.                      *)
THEOREM OpenOrdersStayLive ==
    ASSUME ~ ReuseIds
    PROVE  Spec => []OpenOrdersLive
<1>1. Inv => OpenOrdersLive
  BY DEF Inv, Sound, OpenOrdersLive, Present, Ids
<1>2. QED
  BY <1>1, InitInv, NextInv, PTL DEF Spec

-----------------------------------------------------------------------------
(* A step that creates no reservation.                                      *)
NothingReserved ==
    \A o \in OrderIds : resv.res[o] = NoRes => resv'.res[o] = NoRes

(* No step but process_order() creates a reservation.                       *)
LEMMA OnlyPlacementReserves ==
    ASSUME Inv, [Next]_vars,
           ~ \E o \in ClientIds, req \in Requests : PlaceOrder(o, req) /\ PlaceAccepted(o, req)
    PROVE  NothingReserved
<1>0. TypeOK /\ resv \in Store /\ TotalsAreSums(resv)
  BY DEF Inv, TypeOK, ReservedTotalsExact
<1>1. ASSUME NEW o \in ClientIds, NEW req \in Requests, PlaceOrder(o, req) PROVE NothingReserved
  <2>1. resv' = resv
    BY <1>1, ZenonT(30) DEF PlaceOrder, PlaceBlocked, PlaceRefused, PlaceUncovered
  <2>2. QED
    BY <2>1 DEF NothingReserved
<1>2. ASSUME NEW o \in OrderIds, GatewaySendFailed(o) PROVE NothingReserved
  <2>1. CASE resv' = resv
    BY <2>1 DEF NothingReserved
  <2>2. CASE resv' = Release(resv, o)
    BY <1>0, <2>2, ReleaseShrinks, ZenonT(30) DEF NothingReserved, Shrinks
  <2>3. QED
    BY <1>2, <2>1, <2>2, SMTT(30) DEF GatewaySendFailed, SendFailed
<1>3. ASSUME NEW r \in Reports, OrderReport(r) PROVE NothingReserved
  <2>0. r \in Report /\ (r.link => r.ref # NoRef)
    BY ReportInput
  <2>1. CASE resv' = resv
    BY <2>1 DEF NothingReserved
  <2>2. ASSUME NEW m \in Orders, NEW o \in OrderIds,
               m.lru = orders.lru, m.open = orders.open,
               \A i \in OrderIds \ {o} : m.live[i] = orders.live[i],
               m.live[o].status # "Absent",
               ReportForOrder(m, o, r)
        PROVE  NothingReserved
    <3>1. Shrinks(resv, resv', o)
      BY <2>0, <2>2, ReportForOrderEffect, ZenonT(30)
    <3>2. QED
      BY <3>1 DEF NothingReserved, Shrinks
  <2>3. QED
    BY <1>0, <1>3, <2>0, <2>1, <2>2, OrderReportCases
<1>4. ASSUME resv' = resv PROVE NothingReserved
  BY <1>4, ZenonT(20) DEF NothingReserved
<1>5. QED
  BY <1>1, <1>2, <1>3, <1>4, ZenonT(30)
     DEF Next, vars, CancelOrder, GatewayCancelSendFailed, BalanceUpdate,
     Panic, DontPanic

(* An accepted buy leaves its fund covered by the balance last reported.    *)
LEMMA AcceptedBuyCovered ==
    ASSUME TypeOK, NEW o \in OrderIds, NEW req \in Requests, PlaceAccepted(o, req),
           NEW i \in OrderIds, resv.res[i] = NoRes, resv'.res[i] # NoRes, orders'.live[i].buy
    PROVE  resv'.tot[resv'.res[i].key] <= bal[resv'.res[i].key]
<1> DEFINE k == FundKey(req)
           cash == req.qty * req.price
<1>1. /\ orders \in Orders /\ resv \in Store /\ bal \in [Keys -> Int]
  BY DEF TypeOK
<1>2. /\ Resolves(req) /\ req.acct \in Accounts /\ req.qty \in Nat /\ req.price \in Nat
      /\ Meta[req.inst].fund \in Targets \cup {NoTarget}
      /\ HasCash(req) /\ resv' = ReserveFor(o, req)
  BY RequestType, ZenonT(30) DEF PlaceAccepted, Acceptable, Accepted
<1>3. cash \in Nat
  BY <1>2, ProductNat, ZenonT(30)
<1>4. i = o
  BY <1>1, <1>2, ZenonT(30) DEF ReserveFor, Reserve, Store
<1>5. orders'.live[o].buy = req.buy
  BY <1>1, ZenonT(30) DEF PlaceAccepted, Accepted, CreateOrder, NewOrder, Orders
<1>6. ReservesCash(req) /\ k \in Keys
  <2>1. ~ FreezesPosition(req)
    BY <1>4, <1>5, SMTT(30) DEF FreezesPosition
  <2>2. ReservesCash(req)
    BY <1>2, <2>1, ZenonT(30) DEF ReserveFor
  <2>3. QED
    BY <1>2, <2>2, KeyOf, ZenonT(20) DEF ReservesCash, FundKey
<1>7. bal[k] - resv.tot[k] >= cash
  BY <1>2, <1>6, SMTT(30), ZenonT(20), SMTT(40) DEF HasCash, CheckAvailable
<1>8. resv' = Reserve(resv, o, k, cash)
  BY <1>2, <1>6, ZenonT(30) DEF ReserveFor
<1> HIDE DEF k, cash
<1>9. resv'.res[o].key = k /\ resv'.tot[k] = resv.tot[k] + cash
  BY <1>1, <1>4, <1>6, <1>8, SMTT(30) DEF Reserve, Store
<1>10. resv.tot[k] \in Nat /\ bal[k] \in Int
  BY <1>1, <1>6, SMTT(30), ZenonT(20), SMTT(40) DEF Store
<1>11. resv'.tot[k] <= bal[k]
  BY <1>3, <1>7, <1>9, <1>10, SMTT(60)
<1>12. QED
  BY <1>4, <1>9, <1>11, SMTT(30)

(* A buy is accepted only within what the venue last reported available,    *)
(* net of everything already reserved on that fund.                         *)
THEOREM CashStaysCovered == Spec => CashNeverOvercommitted
<1> DEFINE Covered ==
      \A o \in OrderIds :
         (resv.res[o] = NoRes /\ resv'.res[o] # NoRes /\ orders'.live[o].buy)
            => resv'.tot[resv'.res[o].key] <= bal[resv'.res[o].key]
<1>1. Inv /\ [Next]_vars => Covered
  <2> SUFFICES ASSUME Inv, [Next]_vars PROVE Covered
    OBVIOUS
  <2>1. CASE \E o \in ClientIds, req \in Requests : PlaceOrder(o, req) /\ PlaceAccepted(o, req)
    <3>1. PICK o \in ClientIds, req \in Requests : PlaceAccepted(o, req)
      BY <2>1
    <3>2. TypeOK /\ o \in OrderIds
      BY ConstantsAssumption, SMTT(30) DEF Inv
    <3>3. QED
      BY <3>1, <3>2, AcceptedBuyCovered
  <2>2. CASE ~ \E o \in ClientIds, req \in Requests : PlaceOrder(o, req) /\ PlaceAccepted(o, req)
    BY <2>2, OnlyPlacementReserves, SMTT(30) DEF NothingReserved
  <2>3. QED
    BY <2>1, <2>2, ZenonT(20)
<1>2. Inv /\ [Next]_vars => [Covered]_vars
  BY <1>1
<1>3. QED
  BY <1>2, InitInv, NextInv, PTL DEF Spec, CashNeverOvercommitted

-----------------------------------------------------------------------------
(* When venues report plausible positions, no order, fill, reject or        *)
(* release takes any part of a managed position below zero.                 *)
THEOREM PositionsStayNonNegative ==
    ASSUME \A u \in Updates : Plausible(u)
    PROVE  Spec => []PositionNeverNegative
<1>1. Init => PositionNeverNegative
  <2>1. NoPosition.total = 0 /\ NoPosition.avail = 0 /\ NoPosition.frozen = 0
    BY DEF NoPosition
  <2>2. QED
    BY <2>1, SMTT(30) DEF Init, PositionNeverNegative
<1>2. Inv /\ PositionNeverNegative /\ [Next]_vars => PositionNeverNegative'
  <2> SUFFICES ASSUME Inv, PositionNeverNegative, [Next]_vars
               PROVE  \A k \in Keys : NonNegative(pos'[k])
    BY SMT, ZenonT(20), SMTT(30) DEF PositionNeverNegative, NonNegative
  <2>0. /\ TypeOK /\ ReservedTotalsExact /\ CacheBounded
        /\ orders \in Orders /\ resv \in Store /\ pos \in [Keys -> Position]
        /\ TotalsAreSums(resv) /\ Len(orders.lru) <= MaxCachedOrders
        /\ \A k \in Keys : NonNegative(pos[k])
    BY DEF Inv, TypeOK, ReservedTotalsExact, CacheBounded, PositionNeverNegative, NonNegative
  <2>1. CASE pos' = pos
    BY <2>0, <2>1, SMTT(30)
  <2>2. ASSUME NEW o \in ClientIds, NEW req \in Requests, PlaceOrder(o, req)
        PROVE  \A k \in Keys : NonNegative(pos'[k])
    <3>1. CASE PlaceAccepted(o, req)
      <4>1. o \in OrderIds /\ Acceptable(req) /\ pos' = Accepted(o, req).pos
        BY <3>1, ConstantsAssumption, SMTT(30) DEF PlaceAccepted
      <4>2. QED
        BY <2>0, <4>1, CoverEffect, ZenonT(30)
    <3>2. CASE ~ PlaceAccepted(o, req)
      BY <2>1, <2>2, <3>2, ZenonT(30) DEF PlaceOrder, PlaceBlocked, PlaceRefused, PlaceUncovered
    <3>3. QED
      BY <3>1, <3>2, SMTT(30)
  <2>3. ASSUME NEW o \in OrderIds, GatewaySendFailed(o)
        PROVE  \A k \in Keys : NonNegative(pos'[k])
    <3> DEFINE st == SendFailed([orders |-> orders, resv |-> resv, pos |-> pos], o)
    <3>1. CASE pos' = st.pos
      BY <2>0, <3>1, SendFailedEffect, ZenonT(30)
    <3>2. pos' = pos \/ pos' = st.pos
      BY <2>3, SMTT(30) DEF GatewaySendFailed
    <3>3. QED
      BY <2>1, <3>1, <3>2, SMTT(30)
  <2>4. ASSUME NEW r \in Reports, OrderReport(r)
        PROVE  \A k \in Keys : NonNegative(pos'[k])
    <3>0. r \in Report /\ (r.link => r.ref # NoRef)
      BY ReportInput
    <3>1. ASSUME NEW m \in Orders, NEW o \in OrderIds,
                 m.lru = orders.lru, m.open = orders.open,
                 \A i \in OrderIds \ {o} : m.live[i] = orders.live[i],
                 m.live[o].status # "Absent",
                 ReportForOrder(m, o, r)
          PROVE  \A k \in Keys : NonNegative(pos'[k])
      BY <3>0, <3>1, ReportForOrderEffect, ZenonT(30)
    <3>2. QED
      BY <2>0, <2>1, <2>4, <3>0, <3>1, OrderReportCases, ZenonT(30)
  <2>5. ASSUME NEW u \in Updates, BalanceUpdate(u)
        PROVE  \A k \in Keys : NonNegative(pos'[k])
    BY <2>0, <2>5, BalanceUpdateEffect, ZenonT(20)
  <2>6. QED
    BY <2>1, <2>2, <2>3, <2>4, <2>5, ZenonT(30)
       DEF Next, vars, CancelOrder, GatewayCancelSendFailed,
       Panic, DontPanic
<1>3. QED
  BY <1>1, <1>2, InitInv, NextInv, PTL DEF Spec

-----------------------------------------------------------------------------
(* One order is touched, the others keep their record or are evicted: no    *)
(* fill goes back.                                                          *)
LEMMA TouchedFillsGrow ==
    ASSUME NEW os \in Orders, NEW n \in Orders, NEW o \in OrderIds, Changes(os, n, o),
           (os.live[o].status # "Absent" /\ n.live[o].status # "Absent")
              => n.live[o].filled >= os.live[o].filled
    PROVE  \A i \in OrderIds : (Present(os, i) /\ Present(n, i))
              => n.live[i].filled >= os.live[i].filled
<1>1. \A i \in OrderIds : os.live[i].filled \in Nat
  BY DEF Orders, LiveOrder
<1>2. ASSUME NEW i \in OrderIds, i # o, Present(os, i), Present(n, i)
      PROVE  n.live[i] = os.live[i]
  BY <1>2, ZenonT(30) DEF Changes, Present
<1>3. ASSUME NEW i \in OrderIds, Present(os, i), Present(n, i)
      PROVE  n.live[i].filled >= os.live[i].filled
  <2>1. CASE i = o
    BY <1>3, <2>1, SMTT(30), ZenonT(20), SMTT(40) DEF Present
  <2>2. CASE i # o
    BY <1>1, <1>2, <1>3, <2>2, SMTT(60)
  <2>3. QED
    BY <2>1, <2>2, SMTT(30)
<1>4. QED
  BY <1>3, SMTT(30)

(* Reports that arrive late, twice or out of order, and every other         *)
(* message, never lower the cumulative fill of an order.                    *)
THEOREM FillsStayMonotone == Spec => FillsNeverRegress
<1> DEFINE Grow ==
      \A o \in OrderIds :
         (Present(orders, o) /\ Present(orders, o)' /\ ~ ReuseIds)
            => orders'.live[o].filled >= orders.live[o].filled
<1>1. Inv /\ Inv' /\ [Next]_vars => Grow
  <2> SUFFICES ASSUME Inv, Inv', [Next]_vars, ~ ReuseIds PROVE Grow
    BY SMT, ZenonT(20), SMTT(30)
  <2>0. /\ TypeOK /\ Sound(orders, resv, used) /\ orders \in Orders /\ orders' \in Orders
        /\ resv \in Store /\ pos \in [Keys -> Position]
        /\ TotalsAreSums(resv) /\ Len(orders.lru) <= MaxCachedOrders
    BY SMTT(30) DEF Inv, TypeOK, ReservedTotalsExact, CacheBounded
  <2>1. CASE orders' = orders
    <3>1. \A i \in OrderIds : orders.live[i].filled \in Nat
      BY <2>0, SMTT(30), ZenonT(20), SMTT(40) DEF Orders, LiveOrder
    <3>2. QED
      BY <2>1, <3>1, SMTT(30) DEF Grow
  <2>2. ASSUME NEW o \in OrderIds, Changes(orders, orders', o),
               (orders.live[o].status # "Absent" /\ orders'.live[o].status # "Absent")
                  => orders'.live[o].filled >= orders.live[o].filled
        PROVE  Grow
    <3>1. \A i \in OrderIds : (Present(orders, i) /\ Present(orders', i))
              => orders'.live[i].filled >= orders.live[i].filled
      BY <2>0, <2>2, TouchedFillsGrow, ZenonT(30)
    <3>2. QED
      BY <3>1 DEF Grow, Present
  <2>3. ASSUME NEW o \in ClientIds, NEW req \in Requests, PlaceOrder(o, req)
        PROVE  Grow
    <3>1. orders' = orders \/ Changes(orders, orders', o)
      BY <2>3, PlaceOrderEffect, SMTT(30)
    <3>2. o \in OrderIds /\ o \notin used
      BY <2>3, ConstantsAssumption, ZenonT(20) DEF PlaceOrder
    <3>3. orders.live[o].status = "Absent"
      BY <2>0, <3>2, SMTT(30), ZenonT(20), SMTT(40) DEF Sound
    <3>4. QED
      BY <2>1, <2>2, <3>1, <3>2, <3>3, SMTT(30)
  <2>4. ASSUME NEW o \in OrderIds, CancelOrder(o)
        PROVE  Grow
    <3>1. CASE CancelRefused(o)
      BY <2>1, <3>1, SMTT(30) DEF CancelRefused
    <3>2. CASE CancelSent(o)
      <4>1. \A i \in OrderIds : orders.live[i] \in LiveOrder
        BY <2>0, SMTT(30) DEF Orders
      <4>2. orders'.live = [orders.live EXCEPT ![o].cancels = orders.live[o].cancels + 1]
        BY <2>0, <3>2, SMTT(30) DEF CancelSent, Orders
      <4>3. \A i \in OrderIds : orders'.live[i].filled = orders.live[i].filled
        BY <2>0, <4>1, <4>2, SMTT(30) DEF Orders, LiveOrder
      <4>4. \A i \in OrderIds : orders.live[i].filled \in Nat
        BY <4>1, SMTT(30) DEF LiveOrder
      <4>5. QED
        BY <4>3, <4>4, SMTT(60) DEF Grow
    <3>3. QED
      BY <2>4, <3>1, <3>2, SMTT(30), ZenonT(20), SMTT(40) DEF CancelOrder
  <2>5. ASSUME NEW o \in OrderIds, GatewaySendFailed(o)
        PROVE  Grow
    <3> DEFINE st == SendFailed([orders |-> orders, resv |-> resv, pos |-> pos], o)
    <3>1. orders' = orders \/ orders' = st.orders
      BY <2>5 DEF GatewaySendFailed
    <3>2. /\ Changes(orders, st.orders, o)
          /\ st.orders.live[o].status # "Absent"
                => st.orders.live[o].filled = orders.live[o].filled
      BY <2>0, SendFailedEffect, ZenonT(30)
    <3>3. orders.live[o].filled \in Nat
      BY <2>0, ZenonT(20) DEF Orders, LiveOrder
    <3> HIDE DEF st
    <3>4. CASE orders' = st.orders
      <4>1. /\ Changes(orders, orders', o)
            /\ orders'.live[o].status # "Absent" => orders'.live[o].filled = orders.live[o].filled
        BY <3>2, <3>4, SMTT(30)
      <4>2. orders'.live[o].status # "Absent" => orders'.live[o].filled >= orders.live[o].filled
        BY <3>3, <4>1, SMTT(60)
      <4>3. QED
        BY <2>2, <4>1, <4>2, SMTT(30)
    <3>5. QED
      BY <2>1, <3>1, <3>4, SMTT(30), ZenonT(20), SMTT(40)
  <2>6. ASSUME NEW r \in Reports, OrderReport(r)
        PROVE  Grow
    <3>0. r \in Report /\ (r.link => r.ref # NoRef)
      BY ReportInput, ZenonT(20)
    <3>1. ASSUME NEW m \in Orders, NEW o \in OrderIds,
                 m.lru = orders.lru, m.open = orders.open,
                 \A i \in OrderIds \ {o} : m.live[i] = orders.live[i],
                 m.live[o].status # "Absent",
                 ReportForOrder(m, o, r),
                 (m = orders /\ used' = used) \/ (o \notin used /\ used' = used \cup {o})
          PROVE  Grow
      <4>1. o \in orders.open => ~ m.live[o].ext
        BY <2>0, <3>1, ZenonT(30) DEF Sound
      <4>2. /\ Changes(orders, orders', o)
            /\ orders'.live[o].status # "Absent" => orders'.live[o].filled >= m.live[o].filled
        BY <3>0, <3>1, <4>1, ReportForOrderEffect, ZenonT(30)
      <4>3. m = orders \/ orders.live[o].status = "Absent"
        BY <2>0, <3>1, ZenonT(30) DEF Sound
      <4>4. QED
        BY <2>2, <4>2, <4>3, SMTT(30)
    <3>2. QED
      BY <2>0, <2>1, <2>6, <3>0, <3>1, OrderReportCases, ZenonT(30)
  <2>7. QED
    BY <2>1, <2>3, <2>4, <2>5, <2>6, ZenonT(30)
       DEF Next, vars, GatewayCancelSendFailed, BalanceUpdate,
       Panic, DontPanic
<1>2. Inv /\ Inv' /\ [Next]_vars => [Grow]_vars
  BY <1>1
<1>3. QED
  BY <1>2, InitInv, NextInv, PTL DEF Spec, FillsNeverRegress
=============================================================================
