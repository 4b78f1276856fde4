----------------------------- MODULE RtmdDemand -----------------------------
(***************************************************************************)
(* What the market data gateway promises about upstream subscriptions,     *)
(* without leases, watchers or reference counts: `wants` is the stream     *)
(* each lease the gateway knows of asks for, `live` the streams subscribed *)
(* at the venue.  A stream goes live when somebody wants it and is given   *)
(* up when, and only when, the last lease that wants it is released.       *)
(***************************************************************************)
CONSTANTS Key,       \* lease identities (KV keys)
          Stream,    \* market data streams
          NoStream   \* "wants nothing"

VARIABLES wants, live

dvars == <<wants, live>>

Demand(w) == {w[k] : k \in Key} \ {NoStream}

DInit == wants = [k \in Key |-> NoStream] /\ live = {}

(* A lease appears; the stream it asks for is subscribed if it was not.    *)
Acquire(k, s) == /\ wants[k] = NoStream
                 /\ wants' = [wants EXCEPT ![k] = s]
                 /\ live' = live \cup {s}

(* A lease goes; its stream is given up if no other lease wants it.        *)
Release(k) == /\ wants[k] # NoStream
              /\ wants' = [wants EXCEPT ![k] = NoStream]
              /\ live' = live \cap Demand(wants')

(* After a start the gateway learns every lease at once, ...               *)
Recover(w) == /\ wants = [k \in Key |-> NoStream]
              /\ wants' = w
              /\ UNCHANGED live

(* ... then subscribes the wanted streams one by one.                      *)
Establish(s) == /\ s \in Demand(wants) \ live
                /\ live' = live \cup {s}
                /\ UNCHANGED wants

Restart == wants' = [k \in Key |-> NoStream] /\ live' = {}

DNext == \/ \E k \in Key, s \in Stream : Acquire(k, s)
         \/ \E k \in Key : Release(k)
         \/ \E w \in [Key -> Stream \cup {NoStream}] : Recover(w)
         \/ \E s \in Stream : Establish(s)
         \/ Restart

DemandSpec == DInit /\ [][DNext]_dvars

=============================================================================
