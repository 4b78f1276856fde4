---------------------------- MODULE OmsSystemInv ----------------------------
(***************************************************************************)
(* The inductive invariant of the OMS core with its gateway and venue: what *)
(* is true of the queues, of every report in flight and of the two sides of *)
(* an order between any two steps of the system.                            *)
(***************************************************************************)
EXTENDS OmsSystem, OmsCoreInv

GwReq == [kind : {"place", "cancel"}, acct : Accounts, buy : BOOLEAN, qty : Nat]

BookEntry == [status : VenueStatus, acct : Accounts, buy : BOOLEAN, qty : Nat, filled : Nat]

(* Every report the venue or the gateway built that the core has not read:  *)
(* on the wire, or in one of the two windows before it.                     *)
Flights(w, h, m) == Ids(w) \cup UNION {Ids(h[o]) \cup Ids(m[o]) : o \in ClientIds}

InFlight == Flights(wire, held, heldMatch)

(* The placement is the next request of a shard.                            *)
Waits(q) == q # << >> /\ q[1].kind = "place"

(* An index entry under a client order is that order's own reference.       *)
RefsOwn(os) ==
    \A x \in Refs : /\ os.refIdx[x] \in ClientIds => RefOf[os.refIdx[x]] = x
                    /\ os.extIdx[x] \notin ClientIds

QueueTypes ==
    /\ sendq \in [OrderIds -> Seq(GwReq)] /\ execq \in [OrderIds -> Seq(GwReq)]
    /\ venue \in [OrderIds -> BookEntry]

(* A window of the simulator: at most one report per order, on that order.  *)
Window(h) ==
    /\ h \in [OrderIds -> Seq(Report)]
    /\ \A o \in ClientIds : Len(h[o]) <= 1 /\ \A r \in Ids(h[o]) : r.oid = o

EventTypes == Window(held) /\ Window(heldMatch) /\ wire \in Seq(Report)

(* What a report in flight says is true of the venue, now or earlier.       *)
Honest(r) ==
    /\ r.oid \in ClientIds /\ r.ref \in {NoRef, RefOf[r.oid]} /\ (r.link => r.ref # NoRef)
    /\ r.gw
    /\ r.filled <= venue[r.oid].filled
    /\ r.state = NoState => r.trade = 0 /\ ~ r.link
    /\ r.state # NoState =>
          /\ venue[r.oid].status # "none" /\ r.exec = "none"
          /\ (r.filled = 0 /\ r.unfilled # 0) => r.unfilled = venue[r.oid].qty

(* A placement is ahead of every cancel of its order,                       *)
(* and the quantity it carries is the one the core and the venue keep.      *)
Path(o) ==
    /\ o \notin used => /\ sendq[o] = << >> /\ execq[o] = << >> /\ venue[o].status = "none"
                        /\ <<o, "place">> \notin fails
                        /\ \A r \in InFlight : r.oid # o
    /\ \A i \in 2 .. Len(sendq[o]) : sendq[o][i].kind = "cancel"
    /\ \A i \in 2 .. Len(execq[o]) : execq[o][i].kind = "cancel"
    /\ Waits(sendq[o]) => execq[o] = << >>
    /\ \A q \in {sendq[o], execq[o]} :
          Waits(q) => /\ venue[o].status = "none"
                      /\ Present(orders, o) => q[1].qty = orders.live[o].qty
    /\ venue[o].filled <= venue[o].qty
    /\ venue[o].status = "none" => venue[o].filled = 0
    /\ Present(orders, o) => /\ orders.live[o].filled <= venue[o].filled
                             /\ venue[o].status # "none" => orders.live[o].qty = venue[o].qty

(* The state a report of the book entry carries.                            *)
StateOf(v) == IF v.status = "filled" THEN "Filled"
              ELSE IF v.status = "cancelled" THEN "Cancelled" ELSE "Booked"

(* The gateway's "no" to a placement is on its way to the core.             *)
Refused(o) == <<o, "place">> \in fails \/ \E r \in InFlight : r.oid = o /\ r.exec = "Rejected"

(* The core knows the fate of the order, or a message is about to tell it.  *)
Told(o) ==
    /\ Refused(o) => /\ venue[o].status = "none" /\ ~ Waits(sendq[o]) /\ ~ Waits(execq[o])
    /\ \A r \in InFlight : r.oid = o => r.state \in {NoState, "Booked", StateOf(venue[o])}
    /\ (Present(orders, o) /\ venue[o].status = "none") =>
          /\ orders.live[o].status \in {"Pending", "Rejected"}
          /\ \/ Waits(sendq[o]) \/ Waits(execq[o]) \/ Refused(o)
             \/ orders.live[o].status = "Rejected"
    /\ (Present(orders, o) /\ venue[o].status # "none") =>
          /\ orders.live[o].status \in {"Pending", "Rejected", "Booked", StateOf(venue[o])}
          /\ \/ orders.live[o].status = StateOf(venue[o])
             \/ \E r \in InFlight : r.oid = o /\ r.state = StateOf(venue[o])
          /\ \/ orders.live[o].filled = venue[o].filled
             \/ \E r \in InFlight : /\ r.oid = o /\ r.state # NoState
                                    /\ r.filled = venue[o].filled

(* The inductive invariant.  The last part needs every failed call to mean  *)
(* that nothing happened, and its failure to reach the writer.              *)
SysInv ==
    /\ Inv /\ QueueTypes /\ EventTypes /\ RefsOwn(orders)
    /\ \A r \in InFlight : Honest(r)
    /\ \A o \in ClientIds : Path(o)
    /\ (~ Ambiguous /\ ~ LossyFeedback) => \A o \in ClientIds : Told(o)
=============================================================================
