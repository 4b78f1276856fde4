----------------------------- MODULE OmsCoreInv -----------------------------
(***************************************************************************)
(* The inductive invariant of the OMS core: what every handler of OmsCoreV2 *)
(* may rely on between two messages.                                        *)
(***************************************************************************)
EXTENDS OmsCore

(* The ids in a sequence.                                                   *)
Ids(q) == {q[i] : i \in 1 .. Len(q)}

(* What the order store and the reservations owe each other: reservations   *)
(* only under open orders, open orders live and unfinished and not in the   *)
(* LRU, and nothing remembered of an id never seen.                         *)
Sound(os, rs, u) ==
    /\ \A i \in OrderIds : rs.res[i] # NoRes => i \in os.open
    /\ \A i \in os.open : os.live[i].status # "Absent" /\ ~ IsTerminal(os.live[i]) /\ ~ os.live[i].ext
    /\ \A i \in os.open : i \notin Ids(os.lru)
    /\ os.open \subseteq u /\ Ids(os.lru) \subseteq u
    /\ \A i \in OrderIds : os.live[i].status # "Absent" => i \in u

(* The inductive invariant.  Soundness needs fresh ids: a reused id may be  *)
(* in the LRU, or hold a reservation, when it is created again.             *)
Inv ==
    /\ TypeOK
    /\ ReservedTotalsExact
    /\ CacheBounded
    /\ ~ ReuseIds => Sound(orders, resv, used)
=============================================================================
