-------------------------- MODULE ReservationStore --------------------------
(***************************************************************************)
(* ReservationStoreV2 (zk-oms-rs/src/reservation_v2.rs): the cash and       *)
(* inventory an accepted order ties up until it is filled or closed, and    *)
(* the running total per (account, target) that pre-trade checks read.      *)
(*                                                                          *)
(* A store is a record [res, tot].  res maps every order id to its          *)
(* reservation, NoRes when the HashMap has no entry.  tot maps every key to *)
(* its running total; a key the HashMap lacks reads as 0, exactly as        *)
(* total_reserved's unwrap_or(0.0) does, so "remove the total when it is    *)
(* <= 0" is "the total becomes 0".  Quantities are natural numbers: the     *)
(* code's f64 arithmetic is modelled without rounding.                      *)
(***************************************************************************)
EXTENDS Integers

CONSTANTS
    NumOrders,      \* order ids the OMS ever sees are 1 .. NumOrders
    Accounts,       \* account ids
    Targets         \* target ids: fund assets and position keys share this space

ASSUME NumOrdersAssumption == NumOrders \in Nat

OrderIds == 1 .. NumOrders

Keys == Accounts \X Targets

NoRes == [held |-> FALSE]

Reservation == [held : {TRUE}, key : Keys, qty : Nat]

Store == [res : [OrderIds -> Reservation \cup {NoRes}], tot : [Keys -> Nat]]

EmptyStore == [res |-> [o \in OrderIds |-> NoRes], tot |-> [k \in Keys |-> 0]]

Floor0(n) == IF n <= 0 THEN 0 ELSE n

AtMost(a, b) == IF a <= b THEN a ELSE b

(* reserve(): an order that already holds a reservation keeps it, and the   *)
(* caller ignores the error.                                                *)
Reserve(s, o, k, q) ==
    IF s.res[o] # NoRes
    THEN s
    ELSE [res |-> [s.res EXCEPT ![o] = [held |-> TRUE, key |-> k, qty |-> q]],
          tot |-> [s.tot EXCEPT ![k] = @ + q]]

(* A release() that drops the record but leaves the running total behind.   *)
ReleaseForgetsTotal(s, o) ==
    [s EXCEPT !.res[o] = NoRes]

(* release(): the whole reservation goes, on a terminal state.              *)
Release(s, o) ==
    IF s.res[o] = NoRes
    THEN s
    ELSE [res |-> [s.res EXCEPT ![o] = NoRes],
          tot |-> [s.tot EXCEPT ![s.res[o].key] = Floor0(@ - s.res[o].qty)]]

(* release_partial(): a fill gives back at most what is still reserved.     *)
ReleasePartial(s, o, f) ==
    IF s.res[o] = NoRes
    THEN s
    ELSE LET r    == s.res[o]
             rel  == AtMost(f, r.qty)
             left == r.qty - rel
         IN  [res |-> [s.res EXCEPT ![o] = IF left <= 0 THEN NoRes
                                           ELSE [held |-> TRUE, key |-> r.key, qty |-> left]],
              tot |-> [s.tot EXCEPT ![r.key] = Floor0(@ - rel)]]

(* check_available(): what the venue says is available, less what local     *)
(* orders already hold.                                                     *)
CheckAvailable(s, k, required, available) == available - s.tot[k] >= required

-----------------------------------------------------------------------------
(* The part of key k that order o holds.                                    *)
HeldFor(s, k, o) ==
    IF s.res[o] # NoRes /\ s.res[o].key = k THEN s.res[o].qty ELSE 0

(* A sequence of running sums over the orders 1 .. NumOrders that ends in   *)
(* the total: the sum stated without recursion.                             *)
IsRunningSum(g, s, k) ==
    /\ g[0] = 0
    /\ g[NumOrders] = s.tot[k]
    /\ \A i \in 1 .. NumOrders : g[i] = g[i - 1] + HeldFor(s, k, i)
    /\ \A i, j \in 0 .. NumOrders : i <= j => g[i] <= g[j]

(* The running total of every (account, target) is the sum of what the      *)
(* live reservations hold on it.                                            *)
TotalsAreSums(s) ==
    \A k \in Keys : \E g \in [0 .. NumOrders -> 0 .. s.tot[k]] : IsRunningSum(g, s, k)
=============================================================================
