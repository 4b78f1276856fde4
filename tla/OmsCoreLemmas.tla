--------------------------- MODULE OmsCoreLemmas ----------------------------
(***************************************************************************)
(* What the reservation, position and order stores promise the core, and    *)
(* what the core's own helpers make of it.                                  *)
(***************************************************************************)
EXTENDS OmsCoreInv, SequenceTheorems, TLAPS

(* HeldFor is a quantity.                                                   *)
LEMMA HeldForNat ==
    ASSUME NEW s \in Store, NEW k \in Keys, NEW o \in OrderIds
    PROVE  HeldFor(s, k, o) \in Nat
<1>1. s.res[o] \in Reservation \cup {NoRes}
  BY DEF Store
<1>2. s.res[o] # NoRes => s.res[o].qty \in Nat
  BY <1>1, Zenon DEF Reservation
<1>3. QED
  BY <1>2 DEF HeldFor

(* No single reservation exceeds the total of its key, so the floor at zero *)
(* in release() and release_partial() never cuts anything off.              *)
LEMMA HeldBounded ==
    ASSUME NEW s \in Store, TotalsAreSums(s), NEW k \in Keys, NEW o \in OrderIds
    PROVE  HeldFor(s, k, o) <= s.tot[k]
<1>1. PICK g \in [0 .. NumOrders -> 0 .. s.tot[k]] : IsRunningSum(g, s, k)
  BY DEF TotalsAreSums
<1>2. NumOrders \in Nat /\ o \in 1 .. NumOrders /\ s.tot[k] \in Nat
  BY NumOrdersAssumption DEF OrderIds, Store
<1>3. o - 1 \in 0 .. NumOrders /\ o \in 0 .. NumOrders
  BY <1>2
<1>4. g[o - 1] \in 0 .. s.tot[k] /\ g[o] \in 0 .. s.tot[k]
  BY <1>3
<1>5. g[o] = g[o - 1] + HeldFor(s, k, o)
  BY <1>1, <1>2 DEF IsRunningSum
<1>6. QED
  BY <1>2, <1>4, <1>5, HeldForNat

(* Between a running sum before the changed summand (a, b) and one from it  *)
(* on (c, e), a change d that leaves the summand y natural keeps the order. *)
LEMMA RunningSumShift ==
    ASSUME NEW a \in Nat, NEW b \in Nat, NEW c \in Nat, NEW e \in Nat,
           NEW x \in Nat, NEW y \in Nat, NEW d \in Int,
           a <= b, c = b + x, c <= e, y = x + d
    PROVE  a <= e + d
OBVIOUS

(* A change of one order's holding by d together with the same change of    *)
(* the total keeps the total equal to the sum.                              *)
LEMMA ShiftedSum ==
    ASSUME NEW s \in Store, NEW t \in Store, NEW k \in Keys, NEW o \in OrderIds, NEW d \in Int,
           \E g \in [0 .. NumOrders -> 0 .. s.tot[k]] : IsRunningSum(g, s, k),
           \A i \in OrderIds \ {o} : HeldFor(t, k, i) = HeldFor(s, k, i),
           HeldFor(t, k, o) = HeldFor(s, k, o) + d,
           t.tot[k] = s.tot[k] + d
    PROVE  \E g \in [0 .. NumOrders -> 0 .. t.tot[k]] : IsRunningSum(g, t, k)
<1>1. PICK g \in [0 .. NumOrders -> 0 .. s.tot[k]] : IsRunningSum(g, s, k)
  OBVIOUS
<1> DEFINE h == [i \in 0 .. NumOrders |-> IF i >= o THEN g[i] + d ELSE g[i]]
<1>2. NumOrders \in Nat /\ o \in 1 .. NumOrders /\ s.tot[k] \in Nat /\ t.tot[k] \in Nat
  BY NumOrdersAssumption DEF OrderIds, Store
<1>3. \A i \in 0 .. NumOrders : g[i] \in Nat
  BY <1>2
<1>4. g[0] = 0 /\ g[NumOrders] = s.tot[k]
  BY <1>1 DEF IsRunningSum
<1>5. \A i \in 1 .. NumOrders : g[i] = g[i - 1] + HeldFor(s, k, i)
  BY <1>1 DEF IsRunningSum
<1>6. \A i, j \in 0 .. NumOrders : i <= j => g[i] <= g[j]
  BY <1>1 DEF IsRunningSum
<1>7. h[0] = 0 /\ h[NumOrders] = t.tot[k]
  BY <1>2, <1>3, <1>4
<1>8. ASSUME NEW i \in 1 .. NumOrders
      PROVE  h[i] = h[i - 1] + HeldFor(t, k, i)
  <2>1. i \in OrderIds /\ i \in 0 .. NumOrders /\ i - 1 \in 0 .. NumOrders
    BY <1>2 DEF OrderIds
  <2>2. HeldFor(s, k, i) \in Nat /\ HeldFor(t, k, i) \in Nat
    BY <2>1, HeldForNat
  <2>3. g[i] = g[i - 1] + HeldFor(s, k, i) /\ g[i] \in Nat /\ g[i - 1] \in Nat
    BY <1>3, <1>5, <2>1
  <2>4. CASE i = o
    <3>1. h[i] = g[i] + d /\ h[i - 1] = g[i - 1]
      BY <1>2, <2>1, <2>4
    <3>2. QED
      BY <2>2, <2>3, <2>4, <3>1
  <2>5. CASE i # o
    <3>1. HeldFor(t, k, i) = HeldFor(s, k, i)
      BY <2>1, <2>5
    <3>2. (i >= o) <=> (i - 1 >= o)
      BY <1>2, <2>5
    <3>3. CASE i >= o
      <4>1. h[i] = g[i] + d /\ h[i - 1] = g[i - 1] + d
        BY <2>1, <3>2, <3>3
      <4>2. QED
        BY <2>2, <2>3, <3>1, <4>1
    <3>4. CASE ~ (i >= o)
      <4>1. h[i] = g[i] /\ h[i - 1] = g[i - 1]
        BY <2>1, <3>2, <3>4
      <4>2. QED
        BY <2>2, <2>3, <3>1, <4>1
    <3>5. QED
      BY <3>3, <3>4
  <2>6. QED
    BY <2>4, <2>5
<1>9. ASSUME NEW i \in 0 .. NumOrders, NEW j \in 0 .. NumOrders, i <= j
      PROVE  h[i] <= h[j]
  <2>1. g[i] <= g[j] /\ g[i] \in Nat /\ g[j] \in Nat
    BY <1>3, <1>6, <1>9
  <2>2. CASE i < o /\ j >= o
    <3>1. o - 1 \in 0 .. NumOrders /\ o \in 0 .. NumOrders /\ i <= o - 1
      BY <1>2, <2>2
    <3>2. g[i] <= g[o - 1] /\ g[o] <= g[j] /\ g[o - 1] \in Nat /\ g[o] \in Nat
      BY <1>3, <1>6, <2>2, <3>1
    <3>3. g[o] = g[o - 1] + HeldFor(s, k, o)
      BY <1>2, <1>5
    <3>4. HeldFor(s, k, o) \in Nat /\ HeldFor(t, k, o) \in Nat
      BY HeldForNat
    <3>5. HeldFor(t, k, o) = HeldFor(s, k, o) + d
      OBVIOUS
    <3>6. h[i] = g[i] /\ h[j] = g[j] + d
      BY <1>2, <2>2
    <3> HIDE DEF h
    <3>7. g[i] <= g[j] + d
      BY <2>1, <3>2, <3>3, <3>4, <3>5, RunningSumShift, ZenonT(30)
    <3>8. QED
      BY <3>6, <3>7, Zenon
  <2>3. CASE j < o
    <3>1. h[i] = g[i] /\ h[j] = g[j]
      BY <1>2, <1>9, <2>3
    <3>2. QED
      BY <2>1, <3>1
  <2>4. CASE i >= o
    <3>1. h[i] = g[i] + d /\ h[j] = g[j] + d
      BY <1>2, <1>9, <2>4
    <3>2. QED
      BY <2>1, <3>1
  <2>5. QED
    BY <1>2, <2>2, <2>3, <2>4
<1>10. h \in [0 .. NumOrders -> 0 .. t.tot[k]]
  <2>1. ASSUME NEW i \in 0 .. NumOrders
        PROVE  h[i] \in 0 .. t.tot[k]
    <3>1. 0 \in 0 .. NumOrders /\ NumOrders \in 0 .. NumOrders /\ 0 <= i /\ i <= NumOrders
      BY <1>2
    <3>2. h[0] <= h[i] /\ h[i] <= h[NumOrders]
      BY <1>9, <3>1
    <3>3. h[i] \in Int
      BY <1>3
    <3>4. QED
      BY <1>2, <1>7, <3>2, <3>3
  <2>2. QED
    BY <2>1
<1>11. IsRunningSum(h, t, k)
  BY <1>7, <1>8, <1>9, Zenon DEF IsRunningSum
<1>12. QED
  BY <1>10, <1>11

(* reserve() keeps every total equal to the sum of the reservations.        *)
LEMMA ReserveKeepsSums ==
    ASSUME NEW s \in Store, TotalsAreSums(s), NEW o \in OrderIds, NEW k \in Keys, NEW q \in Nat
    PROVE  Reserve(s, o, k, q) \in Store /\ TotalsAreSums(Reserve(s, o, k, q))
<1> DEFINE t == Reserve(s, o, k, q)
<1>1. CASE s.res[o] # NoRes
  BY <1>1 DEF Reserve
<1>2. CASE s.res[o] = NoRes
  <2> DEFINE r == [held |-> TRUE, key |-> k, qty |-> q]
  <2>1. r \in Reservation /\ r # NoRes
    BY DEF Reservation, NoRes
  <2>2. t = [res |-> [s.res EXCEPT ![o] = r], tot |-> [s.tot EXCEPT ![k] = @ + q]]
    BY <1>2 DEF Reserve
  <2>3. t \in Store
    BY <2>1, <2>2 DEF Store
  <2>4. ASSUME NEW j \in Keys
        PROVE  \E g \in [0 .. NumOrders -> 0 .. t.tot[j]] : IsRunningSum(g, t, j)
    <3> DEFINE d == IF j = k THEN q ELSE 0
    <3>1. d \in Int
      OBVIOUS
    <3>2. \E g \in [0 .. NumOrders -> 0 .. s.tot[j]] : IsRunningSum(g, s, j)
      BY DEF TotalsAreSums
    <3>3. \A i \in OrderIds \ {o} : HeldFor(t, j, i) = HeldFor(s, j, i)
      <4>1. \A i \in OrderIds \ {o} : t.res[i] = s.res[i]
        BY <2>2 DEF Store
      <4>2. QED
        BY <4>1 DEF HeldFor
    <3>4. t.res[o] = r /\ HeldFor(s, j, o) = 0
      BY <1>2, <2>2 DEF Store, HeldFor
    <3>5. HeldFor(t, j, o) = d
      BY <2>1, <3>4 DEF HeldFor
    <3>6. t.tot[j] = s.tot[j] + d
      BY <2>2 DEF Store
    <3>7. HeldFor(t, j, o) = HeldFor(s, j, o) + d
      BY <3>1, <3>4, <3>5
    <3> HIDE DEF t, d
    <3>8. QED
      BY <2>3, <3>1, <3>2, <3>3, <3>6, <3>7, ShiftedSum
  <2>5. QED
    BY <2>3, <2>4 DEF TotalsAreSums
<1>3. QED
  BY <1>1, <1>2

(* Giving back x of what order o holds, with r as its record afterwards:    *)
(* the common part of release() and release_partial().                      *)
GaveBack(s, o, x, r) ==
    [res |-> [s.res EXCEPT ![o] = r],
     tot |-> [s.tot EXCEPT ![s.res[o].key] = Floor0(@ - x)]]

(* Giving back no more than an order holds keeps the totals equal to the    *)
(* sum of the reservations.                                                 *)
LEMMA GiveBackKeepsSums ==
    ASSUME NEW s \in Store, TotalsAreSums(s), NEW o \in OrderIds, s.res[o] # NoRes,
           NEW x \in Nat, x <= s.res[o].qty,
           NEW r \in Reservation \cup {NoRes},
           r = NoRes => x = s.res[o].qty,
           r # NoRes => r.key = s.res[o].key /\ r.qty = s.res[o].qty - x
    PROVE  GaveBack(s, o, x, r) \in Store /\ TotalsAreSums(GaveBack(s, o, x, r))
<1>1. s.res[o] \in Reservation
  BY DEF Store
<1>2. s.res[o].key \in Keys /\ s.res[o].qty \in Nat
  BY <1>1, Zenon DEF Reservation
<1>3. HeldFor(s, s.res[o].key, o) = s.res[o].qty
  BY DEF HeldFor
<1>4. s.res[o].qty <= s.tot[s.res[o].key]
  BY <1>2, <1>3, HeldBounded
<1>5. s.tot[s.res[o].key] \in Nat
  BY <1>2, SMT, ZenonT(20), SMTT(30) DEF Store
<1>6. Floor0(s.tot[s.res[o].key] - x) = s.tot[s.res[o].key] - x
  BY <1>2, <1>4, <1>5, SMTT(30) DEF Floor0
<1>7. s.tot[s.res[o].key] - x \in Nat
  BY <1>2, <1>4, <1>5, SMTT(30)
<1> DEFINE t == GaveBack(s, o, x, r)
<1>8. t = [res |-> [s.res EXCEPT ![o] = r],
           tot |-> [s.tot EXCEPT ![s.res[o].key] = s.tot[s.res[o].key] - x]]
  BY <1>2, <1>6, SMT, ZenonT(20), SMTT(30) DEF Store, GaveBack
<1>9. t \in Store
  BY <1>2, <1>7, <1>8 DEF Store
<1>10. ASSUME NEW j \in Keys
       PROVE  \E g \in [0 .. NumOrders -> 0 .. t.tot[j]] : IsRunningSum(g, t, j)
  <2> DEFINE d == IF j = s.res[o].key THEN -x ELSE 0
  <2>1. d \in Int
    OBVIOUS
  <2>2. \E g \in [0 .. NumOrders -> 0 .. s.tot[j]] : IsRunningSum(g, s, j)
    BY SMT, ZenonT(20), SMTT(30) DEF TotalsAreSums
  <2>3. \A i \in OrderIds \ {o} : HeldFor(t, j, i) = HeldFor(s, j, i)
    <3>1. \A i \in OrderIds \ {o} : t.res[i] = s.res[i]
      BY <1>8 DEF Store
    <3>2. QED
      BY <3>1 DEF HeldFor
  <2>4. t.res[o] = r
    BY <1>8 DEF Store
  <2>5. HeldFor(t, j, o) = HeldFor(s, j, o) + d
    BY <1>2, <2>4 DEF HeldFor
  <2>6. t.tot[j] = s.tot[j] + d
    <3>1. s.tot[j] \in Nat
      BY DEF Store
    <3>2. t.tot[j] = IF j = s.res[o].key THEN s.tot[j] - x ELSE s.tot[j]
      BY <1>2, <1>8 DEF Store
    <3> HIDE DEF t
    <3>3. QED
      BY <3>1, <3>2
  <2> HIDE DEF d, t
  <2>7. QED
    BY <1>9, <2>1, <2>2, <2>3, <2>5, <2>6, ShiftedSum, ZenonT(30)
<1>11. QED
  BY <1>9, <1>10 DEF TotalsAreSums

(* release() keeps every total equal to the sum of the reservations.        *)
LEMMA ReleaseKeepsSums ==
    ASSUME NEW s \in Store, TotalsAreSums(s), NEW o \in OrderIds
    PROVE  Release(s, o) \in Store /\ TotalsAreSums(Release(s, o))
<1>1. CASE s.res[o] = NoRes
  BY <1>1 DEF Release
<1>2. CASE s.res[o] # NoRes
  <2>1. s.res[o] \in Reservation
    BY <1>2 DEF Store
  <2>2. s.res[o].qty \in Nat
    BY <2>1, Zenon DEF Reservation
  <2> DEFINE x == s.res[o].qty
             r == NoRes
  <2>3. Release(s, o) = GaveBack(s, o, x, r)
    BY <1>2 DEF Release, GaveBack
  <2>4. /\ x \in Nat /\ x <= s.res[o].qty
        /\ r \in Reservation \cup {NoRes}
        /\ r = NoRes => x = s.res[o].qty
        /\ r # NoRes => r.key = s.res[o].key /\ r.qty = s.res[o].qty - x
    BY <2>2
  <2> HIDE DEF x, r
  <2>5. QED
    BY <1>2, <2>3, <2>4, GiveBackKeepsSums, ZenonT(30)
<1>3. QED
  BY <1>1, <1>2

(* release_partial() keeps every total equal to the sum of the              *)
(* reservations, however large the reported fill.                           *)
LEMMA ReleasePartialKeepsSums ==
    ASSUME NEW s \in Store, TotalsAreSums(s), NEW o \in OrderIds, NEW f \in Nat
    PROVE  ReleasePartial(s, o, f) \in Store /\ TotalsAreSums(ReleasePartial(s, o, f))
<1>1. CASE s.res[o] = NoRes
  BY <1>1 DEF ReleasePartial
<1>2. CASE s.res[o] # NoRes
  <2> DEFINE x == AtMost(f, s.res[o].qty)
             r == IF s.res[o].qty - x <= 0 THEN NoRes
                  ELSE [held |-> TRUE, key |-> s.res[o].key, qty |-> s.res[o].qty - x]
  <2>1. s.res[o] \in Reservation
    BY <1>2 DEF Store
  <2>2. s.res[o].qty \in Nat /\ s.res[o].key \in Keys
    BY <2>1, Zenon DEF Reservation
  <2>3. x \in Nat /\ x <= s.res[o].qty
    BY <2>2, SMT, ZenonT(20), SMTT(30) DEF AtMost
  <2>4. r \in Reservation \cup {NoRes}
    BY <2>2, <2>3 DEF Reservation
  <2>5. r = NoRes => x = s.res[o].qty
    BY <2>2, <2>3, SMT, ZenonT(20), SMTT(30) DEF NoRes
  <2>6. r # NoRes => r.key = s.res[o].key /\ r.qty = s.res[o].qty - x
    BY <2>2, <2>3
  <2>7. ReleasePartial(s, o, f) = GaveBack(s, o, x, r)
    BY <1>2 DEF ReleasePartial, GaveBack
  <2> HIDE DEF x, r
  <2>8. QED
    BY <1>2, <2>3, <2>4, <2>5, <2>6, <2>7, GiveBackKeepsSums, ZenonT(30)
<1>3. QED
  BY <1>1, <1>2

(* Nothing is reserved at start-up, and every total is zero.                *)
LEMMA EmptySums == EmptyStore \in Store /\ TotalsAreSums(EmptyStore)
<1>1. EmptyStore \in Store
  BY DEF EmptyStore, Store
<1>2. ASSUME NEW k \in Keys
      PROVE  \E g \in [0 .. NumOrders -> 0 .. EmptyStore.tot[k]] : IsRunningSum(g, EmptyStore, k)
  <2> DEFINE z == [i \in 0 .. NumOrders |-> 0]
  <2>1. EmptyStore.tot[k] = 0 /\ \A i \in OrderIds : HeldFor(EmptyStore, k, i) = 0
    BY DEF EmptyStore, HeldFor
  <2>2. z \in [0 .. NumOrders -> 0 .. EmptyStore.tot[k]]
    BY <2>1
  <2>3. NumOrders \in Nat
    BY NumOrdersAssumption
  <2>4. \A i \in 1 .. NumOrders : z[i] = z[i - 1] + HeldFor(EmptyStore, k, i)
    BY <2>1, <2>3 DEF OrderIds
  <2>5. IsRunningSum(z, EmptyStore, k)
    BY <2>1, <2>3, <2>4 DEF IsRunningSum
  <2>6. QED
    BY <2>2, <2>5
<1>3. QED
  BY <1>1, <1>2 DEF TotalsAreSums

-----------------------------------------------------------------------------
(* The record an absent id maps to is a LiveOrder.                          *)
LEMMA AbsentOrderType ==
    ASSUME Accounts # {}
    PROVE  AbsentOrder \in LiveOrder
<1>1. (CHOOSE a \in Accounts : TRUE) \in Accounts
  OBVIOUS
<1>2. QED
  BY <1>1 DEF AbsentOrder, LiveOrder

(* create_order() keeps the shape of the store.                             *)
LEMMA CreateOrderType ==
    ASSUME NEW os \in Orders, NEW o \in OrderIds, NEW l \in LiveOrder
    PROVE  CreateOrder(os, o, l) \in Orders
BY Zenon DEF CreateOrder, Orders

(* register_exch_ref() keeps the shape of the store.                        *)
LEMMA RegisterExchRefType ==
    ASSUME NEW os \in Orders, NEW o \in OrderIds, NEW ref \in Refs
    PROVE  RegisterExchRef(os, o, ref) \in Orders
<1> DEFINE l == [os.live[o] EXCEPT !.ref = ref]
<1>1. os.live[o] \in LiveOrder
  BY DEF Orders
<1>2. l \in LiveOrder
  BY <1>1 DEF LiveOrder
<1>3. RegisterExchRef(os, o, ref)
        = [os EXCEPT !.refIdx = [os.refIdx EXCEPT ![ref] = o], !.live = [os.live EXCEPT ![o] = l]]
  BY DEF RegisterExchRef, Orders
<1>4. /\ [os.live EXCEPT ![o] = l] \in [OrderIds -> LiveOrder]
      /\ [os.refIdx EXCEPT ![ref] = o] \in [Refs -> OrderIds \cup {NoId}]
  <2> HIDE DEF l
  <2> QED
    BY <1>2 DEF Orders
<1> DEFINE nl == [os.live EXCEPT ![o] = l]
           ni == [os.refIdx EXCEPT ![ref] = o]
<1>5. RegisterExchRef(os, o, ref) = [os EXCEPT !.refIdx = ni, !.live = nl]
  BY <1>3
<1> HIDE DEF l, nl, ni
<1>6. nl \in [OrderIds -> LiveOrder] /\ ni \in [Refs -> OrderIds \cup {NoId}]
  BY <1>4 DEF nl, ni
<1>7. QED
  BY <1>5, <1>6, Zenon DEF Orders

(* create_external_order() keeps the shape of the store.                    *)
LEMMA CreateExternalOrderType ==
    ASSUME NEW os \in Orders, NEW e \in OrderIds, NEW ref \in Refs, NEW acct \in Accounts
    PROVE  CreateExternalOrder(os, e, ref, acct) \in Orders
<1> DEFINE l == [AbsentOrder EXCEPT !.status = "Pending", !.acct = acct, !.ref = ref, !.ext = TRUE]
<1>1. l \in LiveOrder
  BY AbsentOrderType, Zenon DEF LiveOrder, OrderStatus
<1>2. CreateExternalOrder(os, e, ref, acct)
        = [os EXCEPT !.live = [os.live EXCEPT ![e] = l],
                     !.refIdx = [os.refIdx EXCEPT ![ref] = e],
                     !.extIdx = [os.extIdx EXCEPT ![ref] = e]]
  BY DEF CreateExternalOrder, Orders
<1> DEFINE nl == [os.live EXCEPT ![e] = l]
           ni == [os.refIdx EXCEPT ![ref] = e]
           nx == [os.extIdx EXCEPT ![ref] = e]
<1>3. CreateExternalOrder(os, e, ref, acct) = [os EXCEPT !.live = nl, !.refIdx = ni, !.extIdx = nx]
  BY <1>2
<1> HIDE DEF l
<1>4. /\ nl \in [OrderIds -> LiveOrder]
      /\ ni \in [Refs -> OrderIds \cup {NoId}] /\ nx \in [Refs -> OrderIds \cup {NoId}]
  BY <1>1 DEF Orders
<1> HIDE DEF nl, ni, nx
<1>5. QED
  BY <1>3, <1>4, Zenon DEF Orders

(* cleanup_order() keeps the shape of the store, the open set and the LRU,  *)
(* and every order but the one it drops.                                    *)
LEMMA CleanupOrderEffect ==
    ASSUME NEW os \in Orders, NEW o \in OrderIds, Accounts # {}
    PROVE  LET c == CleanupOrder(os, o)
           IN  /\ c \in Orders /\ c.open = os.open /\ c.lru = os.lru
               /\ c.live[o] = os.live[o] \/ c.live[o] = AbsentOrder
               /\ \A i \in OrderIds \ {o} : c.live[i] = os.live[i]
<1> DEFINE c == CleanupOrder(os, o)
<1>1. CASE ~ Present(os, o)
  BY <1>1 DEF CleanupOrder
<1>2. CASE Present(os, o)
  <2> DEFINE ref == os.live[o].ref
             idx == IF ref = NoRef THEN os.refIdx ELSE [os.refIdx EXCEPT ![ref] = NoId]
  <2>1. AbsentOrder \in LiveOrder
    BY AbsentOrderType
  <2>2. c = [os EXCEPT !.live = [os.live EXCEPT ![o] = AbsentOrder], !.refIdx = idx]
    BY <1>2 DEF CleanupOrder, Orders
  <2>3. idx \in [Refs -> OrderIds \cup {NoId}]
    BY Zenon DEF Orders
  <2> HIDE DEF c, idx
  <2>4. c \in Orders /\ c.open = os.open /\ c.lru = os.lru
    BY <2>1, <2>2, <2>3, Zenon DEF Orders
  <2>5. c.live = [os.live EXCEPT ![o] = AbsentOrder] /\ os.live \in [OrderIds -> LiveOrder]
    BY <2>2 DEF Orders
  <2>6. QED
    BY <2>4, <2>5 DEF c
<1>3. QED
  BY <1>1, <1>2

(* Pushing an id on the LRU adds at most that id.                           *)
LEMMA PushIds ==
    ASSUME NEW q \in Seq(OrderIds), NEW o \in OrderIds
    PROVE  /\ Append(q, o) \in Seq(OrderIds) /\ Len(Append(q, o)) = Len(q) + 1
           /\ Ids(Append(q, o)) \subseteq Ids(q) \cup {o}
<1> DEFINE a == Append(q, o)
<1>1. /\ a \in Seq(OrderIds) /\ Len(a) = Len(q) + 1 /\ Len(q) \in Nat
      /\ \A i \in 1 .. Len(q) : a[i] = q[i]
      /\ a[Len(q) + 1] = o
  BY AppendProperties
<1> HIDE DEF a
<1>2. ASSUME NEW i \in 1 .. Len(a)
      PROVE  a[i] \in Ids(q) \cup {o}
  <2>1. i \in 1 .. Len(q) \/ i = Len(q) + 1
    BY <1>1
  <2>2. CASE i \in 1 .. Len(q)
    BY <1>1, <2>2 DEF Ids
  <2>3. CASE i = Len(q) + 1
    BY <1>1, <2>3
  <2>4. QED
    BY <2>1, <2>2, <2>3
<1>3. Ids(a) \subseteq Ids(q) \cup {o}
  BY <1>2 DEF Ids
<1>4. QED
  BY <1>1, <1>3 DEF a

(* Popping the oldest id of a non-empty LRU.                                *)
LEMMA PopIds ==
    ASSUME NEW q \in Seq(OrderIds), q # << >>
    PROVE  /\ Head(q) \in OrderIds /\ Head(q) \in Ids(q)
           /\ Tail(q) \in Seq(OrderIds) /\ Len(Tail(q)) = Len(q) - 1
           /\ Ids(Tail(q)) \subseteq Ids(q)
<1> DEFINE t == Tail(q)
<1>1. /\ t \in Seq(OrderIds) /\ Len(t) = Len(q) - 1 /\ Len(q) \in Nat
      /\ \A i \in 1 .. Len(t) : t[i] = q[i + 1]
  BY HeadTailProperties
<1>2. Head(q) = q[1] /\ 1 \in 1 .. Len(q)
  BY EmptySeq
<1>3. Head(q) \in OrderIds
  BY <1>2, ElementOfSeq
<1> HIDE DEF t
<1>4. ASSUME NEW i \in 1 .. Len(t)
      PROVE  t[i] \in Ids(q)
  <2>1. i + 1 \in 1 .. Len(q) /\ t[i] = q[i + 1]
    BY <1>1
  <2>2. QED
    BY <2>1 DEF Ids
<1>5. Ids(t) \subseteq Ids(q)
  BY <1>4 DEF Ids
<1>6. Head(q) \in Ids(q)
  BY <1>2, SMT, ZenonT(20), SMTT(30) DEF Ids
<1>7. QED
  BY <1>1, <1>3, <1>5, <1>6 DEF t

(* mark_closed(): the order leaves the open set, the LRU keeps within its   *)
(* bound and gains at most this order, and only ids of the LRU, or the      *)
(* order itself, may lose their record.                                     *)
LEMMA MarkClosedEffect ==
    ASSUME NEW os \in Orders, NEW o \in OrderIds, Accounts # {}, Len(os.lru) <= MaxCachedOrders
    PROVE  LET m == MarkClosed(os, o)
           IN  /\ m \in Orders
               /\ m.open = os.open \ {o}
               /\ Len(m.lru) <= MaxCachedOrders
               /\ Ids(m.lru) \subseteq Ids(os.lru) \cup {o}
               /\ \A i \in OrderIds : m.live[i] = os.live[i] \/ m.live[i] = AbsentOrder
               /\ \A i \in OrderIds : i \notin Ids(os.lru) \cup {o} => m.live[i] = os.live[i]
<1> DEFINE m == MarkClosed(os, o)
           q == Append(os.lru, o)
           c == [os EXCEPT !.open = os.open \ {o}]
<1>1. os.lru \in Seq(OrderIds) /\ MaxCachedOrders \in Nat \ {0}
  BY MaxCachedAssumption DEF Orders
<1>2. q \in Seq(OrderIds) /\ Len(q) = Len(os.lru) + 1 /\ Len(os.lru) \in Nat
  BY <1>1, PushIds, LenProperties
<1>3. Ids(q) \subseteq Ids(os.lru) \cup {o}
  BY <1>1, PushIds
<1>4. c \in Orders /\ c.open = os.open \ {o} /\ c.live = os.live
  BY SMT, ZenonT(20), SMTT(30) DEF Orders
<1>5. CASE Len(q) > MaxCachedOrders
  <2> DEFINE d == [c EXCEPT !.lru = Tail(q)]
  <2>1. Len(q) = MaxCachedOrders + 1 /\ q # << >>
    BY <1>1, <1>2, <1>5
  <2>2. /\ Head(q) \in OrderIds /\ Head(q) \in Ids(q)
        /\ Tail(q) \in Seq(OrderIds) /\ Len(Tail(q)) = Len(q) - 1
        /\ Ids(Tail(q)) \subseteq Ids(q)
    <3> HIDE DEF q
    <3> QED
      BY <1>2, <2>1, PopIds
  <2>3. Ids(Tail(q)) \subseteq Ids(q) /\ Len(Tail(q)) <= MaxCachedOrders
    BY <1>1, <2>1, <2>2
  <2>4. d \in Orders /\ d.open = os.open \ {o} /\ d.lru = Tail(q) /\ d.live = os.live
    BY <1>4, <2>2, Zenon DEF Orders
  <2>5. m = CleanupOrder(d, Head(q))
    BY <1>5 DEF MarkClosed
  <2> HIDE DEF m, q, c, d
  <2>6. LET h == Head(q)
        IN  /\ m \in Orders /\ m.open = d.open /\ m.lru = d.lru
            /\ m.live[h] = d.live[h] \/ m.live[h] = AbsentOrder
            /\ \A i \in OrderIds \ {h} : m.live[i] = d.live[i]
    <3> DEFINE h == Head(q)
    <3>1. h \in OrderIds /\ d \in Orders /\ m = CleanupOrder(d, h)
      BY <2>2, <2>4, <2>5
    <3> HIDE DEF h
    <3>2. /\ m \in Orders /\ m.open = d.open /\ m.lru = d.lru
          /\ m.live[h] = d.live[h] \/ m.live[h] = AbsentOrder
          /\ \A i \in OrderIds \ {h} : m.live[i] = d.live[i]
      BY <3>1, CleanupOrderEffect, Zenon
    <3>3. QED
      BY <3>2 DEF h
  <2>7. QED
    BY <1>3, <2>2, <2>3, <2>4, <2>6 DEF m
<1>6. CASE ~ (Len(q) > MaxCachedOrders)
  <2>1. m = [c EXCEPT !.lru = q]
    BY <1>6 DEF MarkClosed
  <2>2. Len(q) <= MaxCachedOrders
    BY <1>1, <1>2, <1>6
  <2> HIDE DEF m, q, c
  <2>3. m \in Orders /\ m.open = os.open \ {o} /\ m.lru = q /\ m.live = os.live
    BY <1>2, <1>4, <2>1, Zenon DEF Orders
  <2>4. QED
    BY <1>3, <2>2, <2>3 DEF m
<1>7. QED
  BY <1>5, <1>6

-----------------------------------------------------------------------------
(* Every part of a position is at least zero.                               *)
NonNegative(p) == p.total >= 0 /\ p.avail >= 0 /\ p.frozen >= 0

(* check_and_freeze() after its check.                                      *)
LEMMA FreezeEffect ==
    ASSUME NEW p \in Position, NEW q \in Nat, CanFreeze(p, q)
    PROVE  /\ Freeze(p, q) \in Position
           /\ NonNegative(p) => NonNegative(Freeze(p, q))
<1> DEFINE n == Freeze(p, q)
           na == p.avail - q
           nf == p.frozen + q
<1>1. n = [p EXCEPT !.known = TRUE, !.avail = na, !.frozen = nf]
  BY DEF Freeze, Position
<1>2. na \in Int /\ nf \in Int /\ na >= 0 /\ (p.frozen >= 0 => nf >= 0)
  BY DEF CanFreeze, Position
<1> HIDE DEF n, na, nf
<1>3. n \in Position /\ n.total = p.total /\ n.avail = na /\ n.frozen = nf
  BY <1>1, <1>2, Zenon DEF Position
<1>4. QED
  BY <1>2, <1>3 DEF n, NonNegative

(* unfreeze() gives back at most what is frozen.                            *)
LEMMA UnfreezeEffect ==
    ASSUME NEW p \in Position, NEW q \in Nat
    PROVE  /\ Unfreeze(p, q) \in Position
           /\ NonNegative(p) => NonNegative(Unfreeze(p, q))
<1> DEFINE n == Unfreeze(p, q)
           x == Smaller(q, p.frozen)
           na == p.avail + x
           nf == p.frozen - x
<1>1. p.avail \in Int /\ p.frozen \in Int
  BY DEF Position
<1>2. x \in Int /\ x <= p.frozen /\ (p.frozen >= 0 => x >= 0)
  BY <1>1 DEF Smaller
<1>3. n = [p EXCEPT !.frozen = nf, !.avail = na]
  BY DEF Unfreeze, Position
<1> HIDE DEF n, x
<1>4. na \in Int /\ nf \in Int /\ nf >= 0 /\ (p.frozen >= 0 /\ p.avail >= 0 => na >= 0)
  BY <1>1, <1>2
<1> HIDE DEF na, nf
<1>5. n \in Position /\ n.total = p.total /\ n.avail = na /\ n.frozen = nf
  BY <1>3, <1>4, Zenon DEF Position
<1>6. QED
  BY <1>4, <1>5 DEF n, NonNegative

(* apply_delta() for one fill: a total or an available quantity below zero  *)
(* comes back as its absolute value on the other side.                      *)
LEMMA ApplyDeltaEffect ==
    ASSUME NEW p \in Position, NEW side \in BOOLEAN,
           NEW ac \in Nat, NEW fc \in Int, NEW tc \in Int
    PROVE  /\ ApplyDelta(p, side, ac, fc, tc) \in Position
           /\ NonNegative(p) => NonNegative(ApplyDelta(p, side, ac, fc, tc))
<1> DEFINE total == p.total + tc
           frozen == Larger(p.frozen + fc, 0)
           avail == Smaller(p.avail + ac, total)
           sd == IF p.known THEN p.short ELSE side
           q == [p EXCEPT !.known = TRUE, !.frozen = frozen]
           d == ApplyDelta(p, side, ac, fc, tc)
<1>1. p.total \in Int /\ p.avail \in Int /\ p.frozen \in Int
  BY DEF Position
<1>2. /\ total \in Int /\ frozen \in Nat /\ avail \in Int /\ sd \in BOOLEAN
      /\ (p.avail >= 0 /\ total >= 0) => avail >= 0
  BY <1>1 DEF Larger, Smaller, Position
<1>3. Abs(total) \in Nat /\ Abs(avail) \in Nat
  BY <1>2 DEF Abs
<1>4. d = IF total < 0
          THEN [q EXCEPT !.total = Abs(total), !.avail = Abs(avail), !.short = ~ sd]
          ELSE [q EXCEPT !.total = total, !.avail = avail, !.short = sd]
  BY DEF ApplyDelta
<1> HIDE DEF total, frozen, avail, sd, d
<1>5. q \in Position /\ q.frozen = frozen
  <2>1. frozen \in Int
    BY <1>2
  <2>2. QED
    BY <2>1 DEF Position
<1> HIDE DEF q
<1>6. CASE total < 0
  <2> DEFINE nt == Abs(total)
             na == Abs(avail)
             ns == ~ sd
  <2>1. d = [q EXCEPT !.total = nt, !.avail = na, !.short = ns]
    BY <1>4, <1>6
  <2>2. nt \in Nat /\ na \in Nat /\ ns \in BOOLEAN
    BY <1>2, <1>3
  <2> HIDE DEF nt, na, ns
  <2>3. nt \in Int /\ na \in Int /\ nt >= 0 /\ na >= 0 /\ frozen >= 0
    BY <1>2, <2>2
  <2>4. d \in Position /\ d.total = nt /\ d.avail = na /\ d.frozen = frozen
    BY <1>5, <2>1, <2>2, <2>3, Zenon DEF Position
  <2>5. NonNegative(d)
    BY <2>3, <2>4 DEF NonNegative
  <2>6. QED
    BY <2>4, <2>5 DEF d
<1>7. CASE ~ (total < 0)
  <2>1. d = [q EXCEPT !.total = total, !.avail = avail, !.short = sd]
    BY <1>4, <1>7
  <2>2. total \in Int /\ avail \in Int /\ sd \in BOOLEAN
    BY <1>2
  <2>3. d \in Position /\ d.total = total /\ d.avail = avail /\ d.frozen = frozen
    BY <1>5, <2>1, <2>2, Zenon DEF Position
  <2>4. NonNegative(p) => NonNegative(d)
    BY <1>2, <1>7, <2>3 DEF NonNegative
  <2>5. QED
    BY <2>3, <2>4 DEF d
<1>8. QED
  BY <1>6, <1>7

(* One fill of a report.                                                    *)
LEMMA ApplyFillEffect ==
    ASSUME NEW p \in Position, NEW buy \in BOOLEAN, NEW bc \in BOOLEAN, NEW f \in Nat
    PROVE  /\ ApplyFill(p, buy, bc, f) \in Position
           /\ NonNegative(p) => NonNegative(ApplyFill(p, buy, bc, f))
<1>1. CASE f <= 0
  BY <1>1 DEF ApplyFill
<1>2. CASE ~ (f <= 0) /\ buy
  <2>1. ApplyFill(p, buy, bc, f) = ApplyDelta(p, FALSE, f, 0, f)
    BY <1>2 DEF ApplyFill
  <2>2. FALSE \in BOOLEAN /\ 0 \in Int /\ f \in Int
    OBVIOUS
  <2>3. QED
    BY <2>1, <2>2, ApplyDeltaEffect, Zenon
<1>3. CASE ~ (f <= 0) /\ ~ buy
  <2> DEFINE fc == IF bc THEN -f ELSE 0
             tc == -f
  <2>1. fc \in Int /\ tc \in Int /\ 0 \in Nat
    OBVIOUS
  <2>2. ApplyFill(p, buy, bc, f) = ApplyDelta(p, TRUE, 0, fc, tc)
    BY <1>3 DEF ApplyFill
  <2> HIDE DEF fc, tc
  <2>3. QED
    BY <2>1, <2>2, ApplyDeltaEffect, Zenon
<1>4. QED
  BY <1>1, <1>2, <1>3

(* The first sync seeds the position; what the venue reports available is   *)
(* between zero and its total.                                              *)
LEMMA SeedEffect ==
    ASSUME NEW p \in Position, NEW qty \in Int, NEW avail \in Int, NEW side \in BOOLEAN
    PROVE  /\ Seed(p, qty, avail, side) \in Position
           /\ (NonNegative(p) /\ 0 <= avail /\ avail <= qty) => NonNegative(Seed(p, qty, avail, side))
<1>1. CASE p.synced
  BY <1>1 DEF Seed
<1>2. CASE ~ p.synced
  <2> DEFINE n == Seed(p, qty, avail, side)
             fr == qty - avail
  <2>1. n = [p EXCEPT !.known = TRUE, !.total = qty, !.avail = avail, !.frozen = fr,
                      !.short = side, !.synced = TRUE]
    BY <1>2 DEF Seed
  <2>2. fr \in Int /\ (avail <= qty => fr >= 0) /\ (0 <= avail /\ avail <= qty => qty >= 0)
    OBVIOUS
  <2> HIDE DEF n, fr
  <2>3. n \in Position /\ n.total = qty /\ n.avail = avail /\ n.frozen = fr
    BY <2>1, <2>2, Zenon DEF Position
  <2>4. QED
    BY <2>2, <2>3 DEF n, NonNegative
<1>3. QED
  BY <1>1, <1>2

(* update_reconcile_status() leaves the quantities alone.                   *)
LEMMA UpdateReconcileStatusEffect ==
    ASSUME NEW p \in Position, NEW qty \in Int
    PROVE  /\ UpdateReconcileStatus(p, qty) \in Position
           /\ NonNegative(p) => NonNegative(UpdateReconcileStatus(p, qty))
<1> DEFINE n == Smaller(p.div + 1, RECONCILE_PERSISTENT_THRESHOLD)
           rc == IF n >= RECONCILE_PERSISTENT_THRESHOLD THEN "DivergedPersistent" ELSE p.rec
<1>1. n \in 0 .. RECONCILE_PERSISTENT_THRESHOLD /\ rc \in ReconcileStatus
  BY DEF Smaller, Position, RECONCILE_PERSISTENT_THRESHOLD, ReconcileStatus
<1>2. ASSUME NEW x \in ReconcileStatus, NEW y \in 0 .. RECONCILE_PERSISTENT_THRESHOLD
      PROVE  LET u == [p EXCEPT !.rec = x, !.div = y]
             IN  u \in Position /\ (NonNegative(p) => NonNegative(u))
  BY Zenon DEF Position, NonNegative
<1>3. {"InSync", "DivergedTransient"} \subseteq ReconcileStatus
  BY DEF ReconcileStatus
<1>4. 0 \in 0 .. RECONCILE_PERSISTENT_THRESHOLD /\ 1 \in 0 .. RECONCILE_PERSISTENT_THRESHOLD
  BY DEF RECONCILE_PERSISTENT_THRESHOLD
<1>5. PICK x \in ReconcileStatus, y \in 0 .. RECONCILE_PERSISTENT_THRESHOLD :
         UpdateReconcileStatus(p, qty) = [p EXCEPT !.rec = x, !.div = y]
  <2>1. CASE p.total = qty
    BY <1>3, <1>4, <2>1, Zenon DEF UpdateReconcileStatus
  <2>2. CASE p.total # qty /\ p.rec \in {"InSync", "Unknown"}
    BY <1>3, <1>4, <2>2, Zenon DEF UpdateReconcileStatus
  <2>3. CASE p.total # qty /\ p.rec \notin {"InSync", "Unknown"}
    <3>1. UpdateReconcileStatus(p, qty) = [p EXCEPT !.rec = rc, !.div = n]
      BY <2>3, Zenon DEF UpdateReconcileStatus, Position
    <3> HIDE DEF n, rc
    <3>2. QED
      BY <1>1, <3>1, Zenon
  <2>4. QED
    BY <2>1, <2>2, <2>3, Zenon
<1>6. QED
  BY <1>2, <1>5, Zenon

(* Products and rounding stay in the naturals.                              *)
LEMMA ProductNat ==
    ASSUME NEW a \in Nat, NEW b \in Nat
    PROVE  a * b \in Nat
OBVIOUS

(* round_to_precision() of a quantity is a quantity.                        *)
LEMMA RoundDownNat ==
    ASSUME NEW q \in Nat, NEW lot \in Nat \ {0}
    PROVE  RoundDown(q, lot) \in Nat
<1>1. q \div lot \in Nat
  OBVIOUS
<1>2. QED
  BY <1>1, ProductNat DEF RoundDown

(* Keys are pairs of an account and a target.                               *)
LEMMA KeyOf ==
    ASSUME NEW a \in Accounts, NEW t \in Targets \cup {NoTarget}, t # NoTarget
    PROVE  <<a, t>> \in Keys
BY DEF Keys

-----------------------------------------------------------------------------
(* apply_state_report(): the cumulative fill is a quantity and never less   *)
(* than it was.                                                             *)
LEMMA FilledAfterGrows ==
    ASSUME NEW l \in LiveOrder, NEW r \in Report
    PROVE  /\ FilledAfter(l, r) \in Nat /\ FilledAfter(l, r) >= l.filled
           /\ InferredTrade(l, r) \in Nat
<1>1. /\ l.filled \in Nat /\ l.acc \in Nat /\ l.qty \in Nat
      /\ r.trade \in Nat /\ r.filled \in Nat /\ r.unfilled \in Nat
  BY DEF LiveOrder, Report
<1>2. ReportedFill(l, r) \in Int
  BY <1>1 DEF ReportedFill
<1>3. QED
  BY <1>1, <1>2 DEF FilledAfter, InferredTrade

(* The status a report leaves is one of the order statuses.                 *)
LEMMA StatusAfterType ==
    ASSUME NEW l \in LiveOrder, l.status # "Absent", NEW r \in Report
    PROVE  StatusAfter(l, r) \in OrderStatus
<1>1. l.status \in OrderStatus
  BY DEF LiveOrder
<1>2. \A x : MapOrderStatus(x) \in OrderStatus \cup {"Unspecified"}
  BY DEF MapOrderStatus, OrderStatus
<1>3. \A old \in OrderStatus, new \in OrderStatus \cup {"Unspecified"} :
         UpdateStatus(old, new) \in OrderStatus
  BY DEF UpdateStatus, OrderStatus
<1>4. InferredStatus(l, r) \in OrderStatus
  BY DEF InferredStatus, OrderStatus
<1>5. "Booked" \in OrderStatus /\ "Rejected" \in OrderStatus
  BY DEF OrderStatus
<1>6. QED
  BY <1>1, <1>2, <1>3, <1>4, <1>5 DEF StatusAfter

(* The entries of a report change the status, the fill and the trades.      *)
LEMMA ApplyEntriesEffect ==
    ASSUME NEW l \in LiveOrder, l.status # "Absent", NEW r \in Report
    PROVE  LET n == ApplyEntries(l, r)
           IN  /\ n \in LiveOrder /\ n.status # "Absent"
               /\ n.filled >= l.filled /\ n.filled \in Nat /\ n.qty = l.qty
               /\ n.ext = l.ext /\ n.buy = l.buy
<1> DEFINE st == StatusAfter(l, r)
           fl == FilledAfter(l, r)
           n == ApplyEntries(l, r)
<1>1. st \in OrderStatus /\ st # "Absent"
  BY StatusAfterType DEF OrderStatus
<1>2. fl \in Nat /\ fl >= l.filled
  BY FilledAfterGrows
<1>3. l.acc + r.trade \in Nat
  BY DEF LiveOrder, Report
<1>4. n = [l EXCEPT !.status = st, !.filled = fl, !.acc = l.acc + r.trade]
  BY DEF ApplyEntries, LiveOrder
<1> HIDE DEF n, st, fl
<1>5. QED
  BY <1>1, <1>2, <1>3, <1>4, ZenonT(30) DEF LiveOrder, n

-----------------------------------------------------------------------------
(* A release, whole or partial, touches only its own order and never        *)
(* creates a reservation.                                                   *)
Shrinks(s, t, o) ==
    /\ \A i \in OrderIds \ {o} : t.res[i] = s.res[i]
    /\ s.res[o] = NoRes => t.res[o] = NoRes

(* release() empties its order's reservation and leaves the others.         *)
LEMMA ReleaseShrinks ==
    ASSUME NEW s \in Store, NEW o \in OrderIds
    PROVE  Shrinks(s, Release(s, o), o) /\ Release(s, o).res[o] = NoRes
BY DEF Release, Shrinks, Store

(* release_partial() leaves the others, and nothing where nothing was.      *)
LEMMA ReleasePartialShrinks ==
    ASSUME NEW s \in Store, NEW o \in OrderIds, NEW f \in Nat
    PROVE  Shrinks(s, ReleasePartial(s, o, f), o)
<1>1. CASE s.res[o] = NoRes
  BY <1>1 DEF ReleasePartial, Shrinks
<1>2. CASE s.res[o] # NoRes
  <2>1. PICK x : ReleasePartial(s, o, f).res = [s.res EXCEPT ![o] = x]
    BY <1>2, ZenonT(30) DEF ReleasePartial
  <2>2. QED
    BY <1>2, <2>1 DEF Shrinks, Store
<1>3. QED
  BY <1>1, <1>2, SMT, ZenonT(20), SMTT(30)

(* One fill of a report keeps the totals exact.                             *)
LEMMA ReleaseFillEffect ==
    ASSUME NEW s \in Store, TotalsAreSums(s), NEW o \in OrderIds, NEW l \in LiveOrder, NEW f \in Nat
    PROVE  LET t == ReleaseFill(s, o, l, f)
           IN  t \in Store /\ TotalsAreSums(t) /\ Shrinks(s, t, o)
<1>1. CASE f <= 0
  BY <1>1 DEF ReleaseFill, Shrinks
<1>2. CASE ~ (f <= 0)
  <2> DEFINE x == IF l.buy THEN f * l.price ELSE f
  <2>1. x \in Nat
    BY ProductNat DEF LiveOrder
  <2>2. ReleaseFill(s, o, l, f) = ReleasePartial(s, o, x)
    BY <1>2 DEF ReleaseFill
  <2> HIDE DEF x
  <2>3. QED
    BY <2>1, <2>2, ReleasePartialKeepsSums, ReleasePartialShrinks
<1>3. QED
  BY <1>1, <1>2

(* A report keeps the totals exact, and a terminal one leaves its order     *)
(* without a reservation.                                                   *)
LEMMA ReservationsAfterEffect ==
    ASSUME resv \in Store, TotalsAreSums(resv), NEW o \in OrderIds, NEW l \in LiveOrder,
           NEW r \in Report
    PROVE  LET t == ReservationsAfter(o, l, r)
           IN  /\ t \in Store /\ TotalsAreSums(t) /\ Shrinks(resv, t, o)
               /\ IsTerminal(ApplyEntries(l, r)) => t.res[o] = NoRes
<1> DEFINE f1 == r.trade
           f2 == InferredTrade(l, r)
           s1 == ReleaseFill(resv, o, l, f1)
           s2 == ReleaseFill(s1, o, l, f2)
           t == ReservationsAfter(o, l, r)
<1>1. f1 \in Nat /\ f2 \in Nat
  BY FilledAfterGrows DEF Report
<1>2. t = IF IsTerminal(ApplyEntries(l, r)) THEN Release(s2, o) ELSE s2
  BY DEF ReservationsAfter
<1> HIDE DEF f1, f2
<1>3. s1 \in Store /\ TotalsAreSums(s1) /\ Shrinks(resv, s1, o)
  BY <1>1, ReleaseFillEffect
<1> HIDE DEF s1
<1>4. s2 \in Store /\ TotalsAreSums(s2) /\ Shrinks(s1, s2, o)
  BY <1>1, <1>3, ReleaseFillEffect
<1> HIDE DEF s2, t
<1>5. /\ Release(s2, o) \in Store /\ TotalsAreSums(Release(s2, o))
      /\ Shrinks(s2, Release(s2, o), o) /\ Release(s2, o).res[o] = NoRes
  BY <1>4, ReleaseKeepsSums, ReleaseShrinks, ZenonT(20)
<1>6. QED
  BY <1>2, <1>3, <1>4, <1>5 DEF Shrinks, t

-----------------------------------------------------------------------------
(* From store os to store n, a message about order o changes only o, save   *)
(* that orders of the LRU may be evicted.                                   *)
Changes(os, n, o) ==
    /\ \A i \in OrderIds \ {o} :
          n.live[i] = os.live[i] \/ (i \in Ids(os.lru) /\ n.live[i].status = "Absent")
    /\ n.open \ {o} = os.open \ {o}
    /\ Ids(n.lru) \subseteq Ids(os.lru) \cup {o}
    /\ o \in n.open => /\ o \notin Ids(n.lru)
                       /\ n.live[o].status # "Absent"
                       /\ ~ IsTerminal(n.live[o]) /\ ~ n.live[o].ext

(* Such a change keeps the stores sound when the reservations of the other  *)
(* orders stay and o holds one only while it is open.                       *)
LEMMA ChangesKeepSound ==
    ASSUME NEW os \in Orders, NEW n \in Orders, NEW o \in OrderIds, NEW rs, NEW rt, NEW u,
           Sound(os, rs, u), Changes(os, n, o),
           \A i \in OrderIds \ {o} : rt.res[i] = rs.res[i],
           rt.res[o] # NoRes => o \in n.open
    PROVE  Sound(n, rt, u \cup {o})
<1>0. n.open \subseteq OrderIds /\ os.open \subseteq OrderIds
  BY SMTT(30), ZenonT(20), SMTT(40) DEF Orders
<1>1. ASSUME NEW i \in OrderIds, rt.res[i] # NoRes
      PROVE  i \in n.open
  BY <1>1 DEF Sound, Changes
<1>2. ASSUME NEW i \in n.open
      PROVE  /\ n.live[i].status # "Absent" /\ ~ IsTerminal(n.live[i]) /\ ~ n.live[i].ext
             /\ i \notin Ids(n.lru)
  <2>1. CASE i = o
    BY <2>1, <1>2, ZenonT(20) DEF Changes
  <2>2. CASE i # o
    <3>1. i \in os.open /\ i \in OrderIds
      BY <1>0, <2>2, <1>2, SMTT(30) DEF Changes
    <3>2. i \notin Ids(os.lru) /\ n.live[i] = os.live[i]
      BY <3>1, <2>2, SMTT(30), ZenonT(20), SMTT(40) DEF Sound, Changes
    <3>3. QED
      BY <3>1, <3>2, <2>2, SMTT(30), ZenonT(20), SMTT(40) DEF Sound, Changes
  <2>3. QED
    BY <2>1, <2>2, Zenon
<1>3. n.open \subseteq u \cup {o} /\ Ids(n.lru) \subseteq u \cup {o}
  BY ZenonT(30) DEF Sound, Changes
<1>4. ASSUME NEW i \in OrderIds, n.live[i].status # "Absent"
      PROVE  i \in u \cup {o}
  BY <1>4, SMT, ZenonT(20), SMTT(30) DEF Sound, Changes
<1>5. QED
  BY <1>1, <1>2, <1>3, <1>4, ZenonT(30) DEF Sound

(* Closing an order after touching only that order's record.                *)
LEMMA ClosingChanges ==
    ASSUME NEW os \in Orders, NEW m \in Orders, NEW o \in OrderIds,
           Len(os.lru) <= MaxCachedOrders,
           m.lru = os.lru, m.open \ {o} = os.open \ {o},
           \A i \in OrderIds \ {o} : m.live[i] = os.live[i]
    PROVE  LET n == MarkClosed(m, o)
           IN  /\ n \in Orders /\ Len(n.lru) <= MaxCachedOrders
               /\ Changes(os, n, o) /\ o \notin n.open
               /\ n.live[o] = m.live[o] \/ n.live[o] = AbsentOrder
<1> DEFINE n == MarkClosed(m, o)
<1>1. Accounts # {}
  BY ConstantsAssumption, SMTT(30)
<1>2. /\ n \in Orders
      /\ n.open = m.open \ {o}
      /\ Len(n.lru) <= MaxCachedOrders
      /\ Ids(n.lru) \subseteq Ids(m.lru) \cup {o}
      /\ \A i \in OrderIds : n.live[i] = m.live[i] \/ n.live[i] = AbsentOrder
      /\ \A i \in OrderIds : i \notin Ids(m.lru) \cup {o} => n.live[i] = m.live[i]
  BY <1>1, MarkClosedEffect, ZenonT(30)
<1>3. AbsentOrder.status = "Absent"
  BY SMT, ZenonT(20), SMTT(30) DEF AbsentOrder
<1> HIDE DEF n
<1>4. Changes(os, n, o)
  BY <1>2, <1>3 DEF Changes
<1>5. QED
  BY <1>2, <1>4 DEF n

(* A report on order o, from a store that differs from os in o alone.       *)
LEMMA OrdersAfterChanges ==
    ASSUME NEW os \in Orders, NEW m \in Orders, NEW o \in OrderIds, NEW r \in Report,
           r.link => r.ref # NoRef,
           Len(os.lru) <= MaxCachedOrders,
           m.lru = os.lru, m.open = os.open,
           \A i \in OrderIds \ {o} : m.live[i] = os.live[i],
           m.live[o].status # "Absent"
    PROVE  LET n == OrdersAfter(m, o, r)
           IN  /\ n \in Orders /\ Len(n.lru) <= MaxCachedOrders
               /\ (o \in os.open => o \notin Ids(os.lru) /\ ~ m.live[o].ext) => Changes(os, n, o)
               /\ ~ IsTerminal(ApplyEntries(m.live[o], r)) => n.open = os.open
               /\ n.live[o].status # "Absent" => n.live[o].filled >= m.live[o].filled
<1> DEFINE l == m.live[o]
           a == ApplyEntries(l, r)
           m1 == [m EXCEPT !.live[o] = a]
           m2 == IF r.link THEN RegisterExchRef(m1, o, r.ref) ELSE m1
           n == OrdersAfter(m, o, r)
<1>1. l \in LiveOrder
  BY SMT, ZenonT(20), SMTT(30) DEF Orders
<1>2. /\ a \in LiveOrder /\ a.status # "Absent" /\ a.filled >= l.filled /\ a.filled \in Nat
      /\ a.ext = l.ext
  BY <1>1, ApplyEntriesEffect
<1>3. n = IF IsTerminal(a) THEN MarkClosed(m2, o) ELSE m2
  BY DEF OrdersAfter
<1> HIDE DEF a
<1>4. /\ m1 \in Orders /\ m1.lru = os.lru /\ m1.open = os.open /\ m1.live[o] = a
      /\ \A i \in OrderIds \ {o} : m1.live[i] = os.live[i]
  BY <1>2, SMTT(30) DEF Orders
<1> HIDE DEF m1
<1>5. /\ m2 \in Orders /\ m2.lru = os.lru /\ m2.open = os.open
      /\ m2.live[o].status = a.status /\ m2.live[o].filled = a.filled /\ m2.live[o].ext = a.ext
      /\ \A i \in OrderIds \ {o} : m2.live[i] = os.live[i]
  <2>1. CASE ~ r.link
    BY <1>4, <2>1, Zenon
  <2>2. CASE r.link
    <3>1. r.ref \in Refs
      BY <2>2 DEF Report
    <3>2. m2 = RegisterExchRef(m1, o, r.ref)
      BY <2>2, SMT, ZenonT(20), SMTT(30)
    <3>3. m2 \in Orders
      BY <1>4, <3>1, <3>2, RegisterExchRefType
    <3>4. /\ m2.lru = m1.lru /\ m2.open = m1.open
          /\ m2.live = [m1.live EXCEPT ![o] = [m1.live[o] EXCEPT !.ref = r.ref]]
      BY <1>4, <3>2, ZenonT(30) DEF RegisterExchRef, Orders
    <3>5. m1.live \in [OrderIds -> LiveOrder]
      BY <1>4 DEF Orders
    <3> HIDE DEF m2
    <3>6. m2.live[o] = [a EXCEPT !.ref = r.ref] /\ \A i \in OrderIds \ {o} : m2.live[i] = m1.live[i]
      BY <1>4, <3>4, <3>5
    <3>7. /\ [a EXCEPT !.ref = r.ref].status = a.status
          /\ [a EXCEPT !.ref = r.ref].filled = a.filled
          /\ [a EXCEPT !.ref = r.ref].ext = a.ext
      BY <1>2, ZenonT(20) DEF LiveOrder
    <3>8. QED
      BY <1>4, <3>3, <3>4, <3>6, <3>7, SMTT(30)
  <2>3. QED
    BY <2>1, <2>2, ZenonT(20)
<1> HIDE DEF m2, n, l
<1>6. CASE IsTerminal(a)
  <2>1. n = MarkClosed(m2, o)
    BY <1>3, <1>6, ZenonT(20)
  <2>2. /\ n \in Orders /\ Len(n.lru) <= MaxCachedOrders
        /\ Changes(os, n, o) /\ o \notin n.open
        /\ n.live[o] = m2.live[o] \/ n.live[o] = AbsentOrder
    BY <1>5, <2>1, ClosingChanges, ZenonT(20)
  <2>3. n.live[o].status # "Absent" => n.live[o].filled >= l.filled
    BY <1>2, <1>5, <2>2, SMTT(30), ZenonT(20), SMTT(40) DEF AbsentOrder
  <2>4. QED
    BY <1>6, <2>2, <2>3, ZenonT(20) DEF n, l, a
<1>7. CASE ~ IsTerminal(a)
  <2>1. n = m2
    BY <1>3, <1>7, ZenonT(20)
  <2>2. ASSUME o \in os.open => o \notin Ids(os.lru) /\ ~ l.ext
        PROVE  Changes(os, n, o)
    BY <1>2, <1>5, <1>7, <2>1, <2>2, SMTT(30), ZenonT(20), SMTT(40) DEF Changes, IsTerminal
  <2>3. n.live[o].filled >= l.filled /\ n.open = os.open /\ n \in Orders /\ n.lru = os.lru
    BY <1>2, <1>5, <2>1, ZenonT(20)
  <2>4. QED
    BY <1>7, <2>2, <2>3, Zenon DEF n, l, a
<1>8. QED
  BY <1>6, <1>7, Zenon

-----------------------------------------------------------------------------
(* A request and its instrument's metadata are well-formed.                 *)
LEMMA RequestType ==
    ASSUME NEW req \in Requests, Resolves(req)
    PROVE  /\ req.acct \in Accounts /\ req.buy \in BOOLEAN /\ req.qty \in Nat /\ req.price \in Nat
           /\ Meta[req.inst].bc \in BOOLEAN /\ Meta[req.inst].lot \in Nat \ {0}
           /\ Meta[req.inst].fund \in Targets \cup {NoTarget}
           /\ Meta[req.inst].pos \in Targets \cup {NoTarget}
<1>1. req \in Request
  BY InputsAssumption
<1>2. Meta[req.inst] \in InstrumentMeta
  BY ConstantsAssumption, SMTT(30) DEF Resolves
<1>3. QED
  BY <1>1, <1>2 DEF Request, InstrumentMeta

(* The record of a new order is a LiveOrder.                                *)
LEMMA NewOrderType ==
    ASSUME NEW req \in Requests, NEW status \in OrderStatus, NEW qty \in Nat, NEW bc \in BOOLEAN,
           NEW key \in Targets \cup {NoTarget}
    PROVE  LET l == NewOrder(req, status, qty, bc, key)
           IN  /\ l \in LiveOrder /\ l.status = status /\ ~ l.ext /\ l.buy = req.buy
               /\ l.filled = 0
<1>1. req.acct \in Accounts /\ req.buy \in BOOLEAN /\ req.price \in Nat
  BY InputsAssumption, ZenonT(20) DEF Request
<1>2. QED
  BY <1>1, Zenon DEF NewOrder, LiveOrder

(* Covering a new order reserves under its id alone, keeps the totals exact *)
(* and leaves well-formed positions with no part below zero.                *)
LEMMA CoverEffect ==
    ASSUME TypeOK, ReservedTotalsExact, NEW o \in OrderIds, NEW req \in Requests, Acceptable(req)
    PROVE  LET rs == Accepted(o, req).resv
               ps == Accepted(o, req).pos
           IN  /\ rs \in Store /\ TotalsAreSums(rs)
               /\ \A i \in OrderIds \ {o} : rs.res[i] = resv.res[i]
               /\ ps \in [Keys -> Position]
               /\ PositionNeverNegative => \A k \in Keys : NonNegative(ps[k])
<1> DEFINE m == Meta[req.inst]
           cash == req.qty * req.price
           rs == Accepted(o, req).resv
           ps == Accepted(o, req).pos
<1>1. /\ Resolves(req) /\ req.acct \in Accounts /\ req.qty \in Nat /\ req.price \in Nat
      /\ m.fund \in Targets \cup {NoTarget} /\ m.pos \in Targets \cup {NoTarget}
  BY RequestType DEF Acceptable
<1>2. cash \in Nat
  BY <1>1, ProductNat, SMTT(30)
<1>3. rs = ReserveFor(o, req)
  BY ZenonT(20) DEF Accepted
<1>4. ps = IF FreezesPosition(req) THEN [pos EXCEPT ![PosKey(req)] = Freeze(@, req.qty)] ELSE pos
  BY ZenonT(20) DEF Accepted
<1>5. resv \in Store /\ TotalsAreSums(resv) /\ pos \in [Keys -> Position]
  BY SMT, ZenonT(20), SMTT(30) DEF TypeOK, ReservedTotalsExact
<1>6. ASSUME NEW k \in Keys, NEW q \in Nat
      PROVE  /\ Reserve(resv, o, k, q) \in Store /\ TotalsAreSums(Reserve(resv, o, k, q))
             /\ \A i \in OrderIds \ {o} : Reserve(resv, o, k, q).res[i] = resv.res[i]
  <2>1. Reserve(resv, o, k, q) \in Store /\ TotalsAreSums(Reserve(resv, o, k, q))
    BY <1>5, ReserveKeepsSums, SMTT(30)
  <2>2. \A i \in OrderIds \ {o} : Reserve(resv, o, k, q).res[i] = resv.res[i]
    BY <1>5, ZenonT(20) DEF Reserve, Store
  <2>3. QED
    BY <2>1, <2>2
<1>7. ReservesCash(req) => FundKey(req) \in Keys
  BY <1>1, KeyOf, SMTT(30) DEF ReservesCash, FundKey
<1>8. FreezesPosition(req) => PosKey(req) \in Keys
  BY <1>1, KeyOf, ZenonT(20) DEF FreezesPosition, PosKey
<1>9. rs \in Store /\ TotalsAreSums(rs) /\ \A i \in OrderIds \ {o} : rs.res[i] = resv.res[i]
  <2> HIDE DEF rs
  <2>1. CASE ReservesCash(req)
    <3>1. rs = Reserve(resv, o, FundKey(req), cash) /\ FundKey(req) \in Keys
      BY <1>3, <1>7, <2>1, ZenonT(20) DEF ReserveFor
    <3> HIDE DEF cash
    <3>2. QED
      BY <1>2, <1>6, <3>1
  <2>2. CASE ~ ReservesCash(req) /\ FreezesPosition(req)
    <3>1. rs = Reserve(resv, o, PosKey(req), req.qty) /\ PosKey(req) \in Keys
      BY <1>3, <1>8, <2>2 DEF ReserveFor
    <3>2. QED
      BY <1>1, <1>6, <3>1, SMTT(30), ZenonT(20), SMTT(40)
  <2>3. CASE ~ ReservesCash(req) /\ ~ FreezesPosition(req)
    <3>1. rs = resv
      BY <1>3, <2>3 DEF ReserveFor
    <3>2. QED
      BY <1>5, <3>1
  <2>4. QED
    BY <2>1, <2>2, <2>3, SMTT(30), ZenonT(20), SMTT(40)
<1>10. ps \in [Keys -> Position] /\ (PositionNeverNegative => \A k \in Keys : NonNegative(ps[k]))
  <2> HIDE DEF ps
  <2>1. CASE FreezesPosition(req)
    <3> DEFINE k0 == PosKey(req)
               p == pos[k0]
    <3>1. k0 \in Keys /\ p \in Position /\ CanFreeze(p, req.qty)
      BY <1>5, <1>8, <2>1 DEF Acceptable, HasPosition
    <3>2. ps = [pos EXCEPT ![k0] = Freeze(p, req.qty)]
      BY <1>4, <2>1
    <3>3. PositionNeverNegative => \A k \in Keys : NonNegative(pos[k])
      BY ZenonT(20) DEF PositionNeverNegative, NonNegative
    <3> HIDE DEF k0, p
    <3>4. Freeze(p, req.qty) \in Position /\ (NonNegative(p) => NonNegative(Freeze(p, req.qty)))
      BY <1>1, <3>1, FreezeEffect, SMTT(30)
    <3>5. QED
      BY <1>5, <3>1, <3>2, <3>3, <3>4, SMTT(30) DEF p
  <2>2. CASE ~ FreezesPosition(req)
    BY <1>4, <1>5, <2>2, SMTT(30) DEF PositionNeverNegative, NonNegative
  <2>3. QED
    BY <2>1, <2>2
<1>11. QED
  BY <1>9, <1>10, ZenonT(20)
=============================================================================
