---------------------------- MODULE MCMarketData ----------------------------
(***************************************************************************)
(* Market data on small instances.  The subscription path (RtmdSubs) and   *)
(* the OKX adapter (OkxRtmd) meet only in the order of the adapter calls,  *)
(* which OkxRtmd leaves open, so they are checked side by side: Init picks *)
(* the one that runs.                                                      *)
(***************************************************************************)
EXTENDS RtmdSubs, OkxRtmd

CONSTANTS a, b, c, d, k1, k2, k3, s1, s2, x1, x2

(* Tasks a and b belong to one client and share a KV key; c belongs to     *)
(* another client; d subscribes at another venue.                          *)
L(s, x, own) == [stream |-> s, exch |-> x, mine |-> own]
McKeyOf == [t \in Task |-> CASE t = c -> k2 [] t = d -> k3 [] OTHER -> k1]

(* Everybody may ask for s1, so the stream is shared; c may also turn to   *)
(* s2 under its key.                                                  *)
McLeasesOf == [t \in Task |->
  CASE t = c -> {L(s1, x1, TRUE), L(s2, x2, TRUE)}
    [] t = d -> {L(s1, x1, FALSE)}
    [] OTHER -> {L(s1, x1, TRUE)}]

(* A book of depth 400 is refused by resolve_okx_sub.                      *)
P(s, i, ch, x, ok) == [stream |-> s, code |-> i, chan |-> ch, inst |-> x, supported |-> ok]
McSubSpec == {P("tick", "BTC", "tickers", "BTC-SWAP", TRUE),
              P("book5", "ETH", "books5", "ETH-SWAP", TRUE),
              P("book400", "ETH", "books5", "ETH-SWAP", FALSE)}

VARIABLE part

MdVars == <<part, SubsVars, OkxVars>>

MdInit == part \in {"subs", "okxmd"} /\ SubsInit /\ OkxInit

MdNext ==
  /\ \/ part = "subs" /\ SubsNext /\ UNCHANGED OkxVars
     \/ part = "okxmd" /\ OkxNext /\ UNCHANGED SubsVars
  /\ UNCHANGED part

(* The gateway's tasks run, and every live subscription task's 20 second   *)
(* timer keeps firing; strong, because the bound on `watch` may block a    *)
(* refresh for a while, which the real bucket never does.                  *)
SubsFairness ==
  /\ WF_SubsVars(part = "subs" /\ GatewayStep)
  /\ \A t \in Task : SF_SubsVars(part = "subs" /\ Refresh(t))

MdSpec == MdInit /\ [][MdNext]_MdVars /\ SubsFairness
=============================================================================
