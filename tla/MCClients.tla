----------------------------- MODULE MCClients -----------------------------
(***************************************************************************)
(* The trading client and the service registry on small instances.  Order  *)
(* ids (SnowflakeIds), reference data (RefdataCache), one identity in the  *)
(* registry (ServiceRegistry) and the route from an account to its OMS     *)
(* (OmsRouting) share no state, so they are checked side by side: Init     *)
(* picks the one that runs.                                                *)
(***************************************************************************)
EXTENDS SnowflakeIds, RefdataCache, ServiceRegistry, OmsRouting

VARIABLE part

ClientVars == <<part, IdVars, RefVars, RegVars, RouteVars>>

ClientInit ==
  /\ part \in {"ids", "refdata", "registry", "routing"}
  /\ IdInit /\ RefInit /\ RegInit /\ RouteInit
  /\ part # "registry" => mode = "direct"

ClientNext ==
  /\ \/ part = "ids" /\ IdNext /\ UNCHANGED <<RefVars, RegVars, RouteVars>>
     \/ part = "refdata" /\ RefNext /\ UNCHANGED <<IdVars, RegVars, RouteVars>>
     \/ part = "registry" /\ RegNext /\ UNCHANGED <<IdVars, RefVars, RouteVars>>
     \/ part = "routing" /\ RouteNext /\ UNCHANGED <<IdVars, RefVars, RegVars>>
  /\ UNCHANGED part

(* Heartbeat loops tick.                                                   *)
ClientFairness == \A p \in Proc : WF_RegVars(part = "registry" /\ HeartbeatFenced(p))

ClientSpec == ClientInit /\ [][ClientNext]_ClientVars /\ ClientFairness
=============================================================================
