----------------------------- MODULE OmsRouting -----------------------------
(***************************************************************************)
(* How a trading client finds the OMS of an account: the watch loop that   *)
(* mirrors the registry bucket (zk-infra-rs/src/nats_kv_discovery.rs), the *)
(* account map the SDK derives from the mirror                             *)
(* (zk-trading-sdk-rs/src/discovery.rs), and the calls that go through the *)
(* channel pool (client.rs, oms.rs).  Watching a bucket delivers the       *)
(* last entry of every key and then the changes, as the watch loop relies  *)
(* on.                                                                     *)
(***************************************************************************)
EXTENDS Integers, Sequences, FiniteSets, Functions

CONSTANTS Oms,           \* logical OMS ids; each has its own KV key
          Addr,          \* addresses OMS processes listen on
          Acct,          \* accounts
          NoEntry,
          MaxChanges,    \* bound on the changes of the registry
          MaxBreaks      \* bound on the failures of the watch stream

ASSUME RoutingAssumption == IsFiniteSet(Oms)

VARIABLES bucket,     \* the registry: entry of each OMS
          expired,    \* keys that aged out unannounced since the last connect
          changes,
          phase,      \* the watch loop: "connect", "snapshot" or "live"
          stream,     \* entries the watch has not delivered yet
          staging,    \* the snapshot being collected
          mirror,     \* KvDiscoveryClient::cache
          breaks,
          accounts,   \* OmsDiscovery::cache, the derived account map
          pool,       \* OmsChannelPool: address each channel is connected to
          client,     \* TradingClient::from_config: how far the start has come
          todo,       \* accounts it has not connected yet
          routed      \* the last call: its account and where it went, or why not

RouteVars == <<bucket, expired, changes, phase, stream, staging, mirror, breaks,
               accounts, pool, client, todo, routed>>
registryVars == <<bucket, expired, changes>>
watchVars == <<phase, staging, mirror, breaks>>
clientVars == <<accounts, pool, client, todo, routed>>

Entry == [addr : Addr, accts : SUBSET Acct]
Empty == [o \in Oms |-> NoEntry]

RouteInit ==
  /\ bucket = Empty /\ expired = {} /\ changes = 0
  /\ phase = "connect" /\ stream = << >> /\ staging = Empty /\ mirror = Empty /\ breaks = 0
  /\ accounts = [a \in Acct |-> NoEntry] /\ pool = [o \in Oms |-> NoEntry]
  /\ client = "waiting" /\ todo = Acct
  /\ routed = [acct |-> NoEntry, to |-> NoEntry]

-----------------------------------------------------------------------------
(* The registry                                                            *)

Announce(o, e) ==
  /\ changes < MaxChanges /\ changes' = changes + 1
  /\ bucket' = [bucket EXCEPT ![o] = e]
  /\ stream' = IF phase = "connect" THEN stream ELSE Append(stream, [key |-> o, entry |-> e])
  /\ expired' = expired \ {o}
  /\ UNCHANGED <<watchVars, clientVars>>

(* oms_registration: an OMS writes its address and accounts.               *)
OmsRegisters(o) == \E e \in Entry : e # bucket[o] /\ Announce(o, e)

OmsDeregisters(o) == bucket[o] # NoEntry /\ Announce(o, NoEntry)

(* An OMS that crashed ages out of the bucket, and no watcher is told.     *)
OmsExpires(o) ==
  /\ bucket[o] # NoEntry /\ changes < MaxChanges
  /\ changes' = changes + 1
  /\ bucket' = [bucket EXCEPT ![o] = NoEntry]
  /\ expired' = expired \cup {o}
  /\ UNCHANGED <<stream, watchVars, clientVars>>

-----------------------------------------------------------------------------
(* spawn_watch_loop                                                        *)

Connect ==
  /\ phase = "connect"
  /\ phase' = "snapshot" /\ staging' = Empty
  /\ LET keys == {o \in Oms : bucket[o] # NoEntry}
     IN  \E order \in Bijection(1..Cardinality(keys), keys) :
           stream' = [i \in DOMAIN order |-> [key |-> order[i], entry |-> bucket[order[i]]]]
  /\ expired' = {}
  /\ UNCHANGED <<bucket, changes, mirror, breaks, clientVars>>

apply_entry(map, x) == [map EXCEPT ![x.key] = x.entry]

SnapshotEntry ==
  /\ phase = "snapshot" /\ stream # << >>
  /\ staging' = apply_entry(staging, Head(stream))
  /\ stream' = Tail(stream)
  /\ UNCHANGED <<registryVars, phase, mirror, breaks, clientVars>>

(* Mutant: the snapshot is merged into the old cache.                      *)
SwapMerged == /\ phase = "snapshot"
              /\ phase' = "live"
              /\ mirror' = [o \in Oms |-> IF staging[o] = NoEntry THEN mirror[o] ELSE staging[o]]
              /\ UNCHANGED <<registryVars, stream, staging, breaks, clientVars>>

(* 200 ms without an entry end the snapshot, whether it was complete or    *)
(* not; the staged map replaces the cache.                                 *)
Swap ==
  /\ phase = "snapshot"
  /\ phase' = "live" /\ mirror' = staging
  /\ UNCHANGED <<registryVars, stream, staging, breaks, clientVars>>

LiveEntry ==
  /\ phase = "live" /\ stream # << >>
  /\ mirror' = apply_entry(mirror, Head(stream))
  /\ stream' = Tail(stream)
  /\ UNCHANGED <<registryVars, phase, staging, breaks, clientVars>>

(* An error or the end of the stream: the loop connects again, with the    *)
(* old cache.  When the stream ends, rather than fails, inside a snapshot, *)
(* the part that arrived is swapped in first.                              *)
StreamBreaks ==
  /\ phase # "connect" /\ breaks < MaxBreaks
  /\ breaks' = breaks + 1
  /\ phase' = "connect" /\ stream' = << >>
  /\ \/ UNCHANGED mirror
     \/ phase = "snapshot" /\ mirror' = staging
  /\ UNCHANGED <<registryVars, staging, clientVars>>

WatchStep == Connect \/ SnapshotEntry \/ Swap \/ LiveEntry

-----------------------------------------------------------------------------
(* The client                                                              *)

Claimants(snapshot, a) == {o \in Oms : snapshot[o] # NoEntry /\ a \in snapshot[o].accts}

SoleClaimants(snapshot) ==
  [a \in Acct |-> IF Claimants(snapshot, a) = {} THEN NoEntry
                  ELSE LET o == CHOOSE o \in Claimants(snapshot, a) : TRUE
                       IN  [oms |-> o, addr |-> snapshot[o].addr]]

(* NoEntry stands for DiscoveryConflict: one account claimed by two OMS    *)
(* fails the whole map.                                                    *)
build_account_map_with_target(snapshot) ==
  IF \E a \in Acct : Cardinality(Claimants(snapshot, a)) > 1 THEN NoEntry
  ELSE SoleClaimants(snapshot)

Starts(next) ==
  /\ client' = next
  /\ UNCHANGED <<registryVars, stream, watchVars, pool, todo, routed>>

(* snapshot_satisfies_requirements: an empty mirror never does, a conflict *)
(* is an error, and the configured accounts must all be there.             *)
WaitForSnapshot ==
  LET map == build_account_map_with_target(mirror)
  IN  /\ client = "waiting" /\ mirror # Empty
      /\ IF map = NoEntry THEN Starts("failed")
         ELSE (\A a \in Acct : map[a] # NoEntry) /\ Starts("refresh")
      /\ UNCHANGED accounts

(* A client with configured accounts gives up when the wait times out.     *)
WaitTimesOut == client = "waiting" /\ Starts("failed") /\ UNCHANGED accounts

refresh_account_cache ==
  LET map == build_account_map_with_target(mirror)
  IN  /\ client = "refresh"
      /\ IF map = NoEntry THEN Starts("failed") /\ UNCHANGED accounts
         ELSE Starts("preconnect") /\ accounts' = map

(* resolve_account_endpoint and get_or_connect: refresh, look the account  *)
(* up, use the pooled channel of its OMS or connect one.                   *)
Connected(a) ==
  LET map == build_account_map_with_target(mirror)
      ep == IF map = NoEntry THEN NoEntry ELSE map[a]
      Fails == routed' = [acct |-> a, to |-> NoEntry] /\ UNCHANGED pool
  IN  /\ accounts' = IF map = NoEntry THEN accounts ELSE map
      /\ IF ep = NoEntry THEN Fails
         ELSE \/ /\ pool' = [pool EXCEPT ![ep.oms] = IF @ = NoEntry THEN ep.addr ELSE @]
                 /\ routed' = [acct |-> a, to |-> [oms |-> ep.oms, addr |-> pool'[ep.oms]]]
              \/ pool[ep.oms] = NoEntry /\ Fails            \* the connection fails
      /\ UNCHANGED <<registryVars, stream, watchVars>>

(* One account after the other; the first failure is the client's.         *)
preconnect_oms(a) ==
  /\ client = "preconnect" /\ a \in todo
  /\ Connected(a)
  /\ todo' = todo \ {a}
  /\ client' = IF routed'.to = NoEntry THEN "failed"
               ELSE IF todo' = {} THEN "running" ELSE client

(* place_order, cancel_order, and the queries, through oms_client          *)
Call(a) == client = "running" /\ Connected(a) /\ UNCHANGED <<client, todo>>

RouteNext ==
  \/ \E o \in Oms : OmsRegisters(o) \/ OmsDeregisters(o) \/ OmsExpires(o)
  \/ WatchStep \/ StreamBreaks
  \/ WaitForSnapshot \/ WaitTimesOut \/ refresh_account_cache
  \/ \E a \in Acct : preconnect_oms(a) \/ Call(a)

RouteSpec == RouteInit /\ [][RouteNext]_RouteVars

-----------------------------------------------------------------------------
(* In the live phase, once every entry has been delivered, the cache is    *)
(* the bucket, however early the settle timeout ended the snapshot; only   *)
(* an OMS that crashed and aged out may still be in it.                    *)
SettledMirror ==
  (phase = "live" /\ stream = << >>) =>
     \A o \in Oms : mirror[o] = bucket[o] \/ o \in expired

=============================================================================
