------------------------------ MODULE RtmdSubs ------------------------------
(***************************************************************************)
(* Market data subscriptions: the subscription tasks of the trading SDK    *)
(* (client.rs, rtmd_sub.rs) keep leases in a NATS KV bucket, the gateway's *)
(* NatsKvSubSource (nats_sub_source.rs) turns the bucket into interest     *)
(* changes and the SubscriptionManager (sub_manager.rs) turns those into   *)
(* subscribe and unsubscribe calls on the venue adapter.                   *)
(***************************************************************************)
EXTENDS Integers, Sequences, FiniteSets, Functions

CONSTANTS Task,          \* subscription tasks of the trading clients
          Key,           \* KV keys
          Stream,        \* (instrument, channel) pairs
          Exch,          \* venue-native instrument codes
          KeyOf,         \* the KV key a task's lease is stored under (key_for)
          LeasesOf,      \* the leases a task may register under its key
          NoLease, Tombstone, NoStream, NoExch,
          MaxWatch,      \* bound on undelivered watch entries
          MaxRestarts,   \* bound on gateway restarts
          AdapterFails   \* may adapter.subscribe / unsubscribe fail?

Lease == [stream : Stream, exch : Exch, mine : BOOLEAN]

ASSUME ConstantsOK == /\ KeyOf \in [Task -> Key]
                      /\ \A t \in Task : LeasesOf[t] \subseteq Lease
                      /\ NoLease \notin Lease /\ Tombstone \notin Lease
                      /\ NoLease # Tombstone
                      /\ NoStream \notin Stream /\ NoExch \notin Exch
                      /\ IsFiniteSet(Key) /\ MaxRestarts \in Nat /\ AdapterFails \in BOOLEAN

VARIABLES leased,    \* leased[t]: the lease task t keeps refreshing
          kv,        \* the bucket: a lease, a delete marker or nothing per key
          watch,     \* entries the KV watcher has not delivered yet
          pc,        \* where the gateway is in main()
          todo,      \* keys the start-up snapshot still has to fetch
          cache,     \* NatsKvSubSource::key_cache
          queue,     \* interest changes returned or pending, not yet applied
          refs,      \* SubscriptionManager::state, the counts (0 = no entry)
          specs,     \* SubscriptionManager::state, the representative exch
          toSub,     \* streams reconcile_on_start still has to subscribe
          upstream,  \* what the adapter is subscribed to, with which exch
          restarts

kvVars   == <<leased, kv>>
gwVars   == <<pc, todo, cache, queue, refs, specs, toSub, upstream>>
SubsVars == <<kvVars, watch, gwVars, restarts>>

Change(op, k, l) == [op |-> op, key |-> k, lease |-> l]

SubsInit ==
  /\ leased = [t \in Task |-> NoLease]
  /\ kv = [k \in Key |-> NoLease]
  /\ watch = <<>>
  /\ pc = "boot" /\ todo = {} /\ cache = [k \in Key |-> NoLease]
  /\ queue = <<>> /\ toSub = {}
  /\ refs = [s \in Stream |-> 0] /\ specs = [s \in Stream |-> NoExch]
  /\ upstream = [s \in Stream |-> NoExch]
  /\ restarts = 0

-----------------------------------------------------------------------------
(* The trading SDK and the bucket.                                         *)

(* The entry is stored and, once the gateway has a watcher, queued for it. *)
Publish(k, v) ==
  /\ kv' = [kv EXCEPT ![k] = v]
  /\ IF pc = "watch"
     THEN Len(watch) < MaxWatch /\ watch' = Append(watch, [key |-> k, val |-> v])
     ELSE UNCHANGED watch

Register(t) ==
  /\ leased[t] = NoLease
  /\ \E l \in LeasesOf[t] :
       leased' = [leased EXCEPT ![t] = l] /\ Publish(KeyOf[t], l)
  /\ UNCHANGED <<gwVars, restarts>>

(* Mutant: the refresh timer fires but nothing is written.                 *)
RefreshWritesNothing(t) == leased[t] # NoLease /\ UNCHANGED SubsVars

(* refresh_interest re-puts the lease the task registered.                 *)
Refresh(t) ==
  /\ leased[t] # NoLease
  /\ Publish(KeyOf[t], leased[t])
  /\ UNCHANGED <<leased, gwVars, restarts>>

(* The inner subscription task ended: drop_interest deletes the key.       *)
Drop(t) ==
  /\ leased[t] # NoLease
  /\ leased' = [leased EXCEPT ![t] = NoLease]
  /\ Publish(KeyOf[t], Tombstone)
  /\ UNCHANGED <<gwVars, restarts>>

(* The client dies, or drop_interest fails: the key stays behind.          *)
ClientDies(t) ==
  /\ leased[t] # NoLease
  /\ leased' = [leased EXCEPT ![t] = NoLease]
  /\ UNCHANGED <<kv, watch, gwVars, restarts>>

(* The bucket's max_age removes an entry nobody refreshes; watchers are    *)
(* not told.                                                               *)
Expire(k) ==
  /\ kv[k] # NoLease /\ \A t \in Task : KeyOf[t] = k => leased[t] = NoLease
  /\ kv' = [kv EXCEPT ![k] = NoLease]
  /\ UNCHANGED <<leased, watch, gwVars, restarts>>

-----------------------------------------------------------------------------
(* Gateway start-up.                                                       *)

(* parse_wire: only well-formed leases of the gateway's own venue count.   *)
Mine(v) == v \in Lease /\ v.mine

SnapshotKeys ==
  /\ pc = "boot"
  /\ todo' = {k \in Key : kv[k] \in Lease}
  /\ pc' = "snap"
  /\ UNCHANGED <<kvVars, watch, cache, queue, refs, specs, toSub, upstream, restarts>>

FetchAndParse(k) == IF Mine(kv[k]) THEN [cache EXCEPT ![k] = kv[k]] ELSE cache

(* Each key is fetched on its own: it may have changed since it was listed. *)
SnapshotGet(k) ==
  /\ pc = "snap" /\ k \in todo
  /\ cache' = FetchAndParse(k)
  /\ todo' = todo \ {k}
  /\ UNCHANGED <<kvVars, watch, pc, queue, refs, specs, toSub, upstream, restarts>>

CachedOn(s) == {k \in Key : cache[k] # NoLease /\ cache[k].stream = s}

Reconcile ==
  /\ pc = "snap" /\ todo = {}
  /\ refs' = [s \in Stream |-> Cardinality(CachedOn(s))]
  /\ specs' \in {f \in [Stream -> Exch \cup {NoExch}] :
                   \A s \in Stream : IF CachedOn(s) = {} THEN f[s] = NoExch
                                     ELSE \E k \in CachedOn(s) : f[s] = cache[k].exch}
  /\ toSub' = {s \in Stream : CachedOn(s) # {} /\ upstream[s] = NoExch}
  /\ pc' = "subs"
  /\ UNCHANGED <<kvVars, watch, todo, cache, queue, upstream, restarts>>

Outcomes == IF AdapterFails THEN BOOLEAN ELSE {TRUE}

(* A failure is only logged here: the count stays.                         *)
SubscribeOnStart(s) ==
  /\ pc = "subs" /\ s \in toSub
  /\ toSub' = toSub \ {s}
  /\ \E ok \in Outcomes :
       upstream' = IF ok THEN [upstream EXCEPT ![s] = specs[s]] ELSE upstream
  /\ UNCHANGED <<kvVars, watch, pc, todo, cache, queue, refs, specs, restarts>>

(* Mutant: the watcher only delivers entries written after it was created. *)
StartWatchNoReplay ==
  /\ pc = "subs" /\ toSub = {}
  /\ watch' = <<>> /\ pc' = "watch"
  /\ UNCHANGED <<kvVars, todo, cache, queue, refs, specs, toSub, upstream, restarts>>

(* The watcher is created on the first next_change and first replays the   *)
(* last entry of every key, delete markers included.                       *)
StartWatch ==
  /\ pc = "subs" /\ toSub = {}
  /\ LET keys == {k \in Key : kv[k] # NoLease}
     IN  \E order \in Bijection(1..Cardinality(keys), keys) :
           watch' = [i \in DOMAIN order |-> [key |-> order[i], val |-> kv[order[i]]]]
  /\ pc' = "watch"
  /\ UNCHANGED <<kvVars, todo, cache, queue, refs, specs, toSub, upstream, restarts>>

-----------------------------------------------------------------------------
(* The watch loop: next_change, then apply_change, in one task.            *)

(* classify_put: nothing, Added, or Removed then Added.                    *)
Classify(k, l) ==
  IF cache[k] = NoLease THEN <<Change("added", k, l)>>
  ELSE IF cache[k].stream = l.stream /\ cache[k].exch = l.exch THEN <<>>
  ELSE <<Change("removed", k, cache[k]), Change("added", k, l)>>

(* The deleted key leaves key_cache.                                        *)
Uncached(k) == [cache EXCEPT ![k] = NoLease]

NextChange ==
  /\ pc = "watch" /\ queue = <<>> /\ watch # <<>>
  /\ watch' = Tail(watch)
  /\ LET k == Head(watch).key
         v == Head(watch).val
     IN \/ /\ Mine(v)
           /\ queue' = Classify(k, v)
           /\ cache' = [cache EXCEPT ![k] = v]
        \/ /\ v = Tombstone /\ cache[k] # NoLease
           /\ queue' = <<Change("removed", k, cache[k])>>
           /\ cache' = Uncached(k)
        \/ /\ ~Mine(v) /\ ~(v = Tombstone /\ cache[k] # NoLease)
           /\ UNCHANGED <<queue, cache>>
  /\ UNCHANGED <<kvVars, pc, todo, refs, specs, toSub, upstream, restarts>>

WatchClosed ==
  /\ pc = "watch" /\ queue = <<>>
  /\ pc' = "closed" /\ watch' = <<>>
  /\ UNCHANGED <<kvVars, todo, cache, queue, refs, specs, toSub, upstream, restarts>>

(* Count 0 -> 1 subscribes; a failure takes the count back.                *)
ApplyAdded(l) ==
  LET s == l.stream IN
  IF refs[s] > 0
  THEN refs' = [refs EXCEPT ![s] = @ + 1] /\ UNCHANGED <<specs, upstream>>
  ELSE \E ok \in Outcomes :
         IF ok THEN /\ refs' = [refs EXCEPT ![s] = 1]
                    /\ specs' = [specs EXCEPT ![s] = l.exch]
                    /\ upstream' = [upstream EXCEPT ![s] = l.exch]
               ELSE UNCHANGED <<refs, specs, upstream>>

(* Mutant: any removal unsubscribes.                                       *)
ApplyRemovedAlways(l) ==
  /\ refs' = [refs EXCEPT ![l.stream] = IF @ > 0 THEN @ - 1 ELSE 0]
  /\ upstream' = [upstream EXCEPT ![l.stream] = NoExch]
  /\ UNCHANGED specs

(* Count 1 -> 0 unsubscribes; a failure puts the entry back with count 1.  *)
ApplyRemoved(l) ==
  LET s == l.stream IN
  \/ refs[s] = 0 /\ UNCHANGED <<refs, specs, upstream>>
  \/ refs[s] > 1 /\ refs' = [refs EXCEPT ![s] = @ - 1] /\ UNCHANGED <<specs, upstream>>
  \/ /\ refs[s] = 1
     /\ \E ok \in Outcomes :
          IF ok THEN /\ refs' = [refs EXCEPT ![s] = 0]
                     /\ specs' = [specs EXCEPT ![s] = NoExch]
                     /\ upstream' = [upstream EXCEPT ![s] = NoExch]
                ELSE UNCHANGED <<refs, specs, upstream>>

ApplyChange ==
  /\ pc = "watch" /\ queue # <<>>
  /\ IF Head(queue).op = "added" THEN ApplyAdded(Head(queue).lease)
                                 ELSE ApplyRemoved(Head(queue).lease)
  /\ queue' = Tail(queue)
  /\ UNCHANGED <<kvVars, watch, pc, todo, cache, toSub, restarts>>

GatewayRestarts ==
  /\ restarts < MaxRestarts
  /\ restarts' = restarts + 1
  /\ watch' = <<>>
  /\ pc' = "boot" /\ todo' = {} /\ cache' = [k \in Key |-> NoLease]
  /\ queue' = <<>> /\ toSub' = {}
  /\ refs' = [s \in Stream |-> 0] /\ specs' = [s \in Stream |-> NoExch]
  /\ upstream' = [s \in Stream |-> NoExch]
  /\ UNCHANGED kvVars

SdkNext == \E t \in Task : Register(t) \/ Refresh(t) \/ Drop(t) \/ ClientDies(t)

GatewayStep ==
  \/ SnapshotKeys
  \/ \E k \in Key : SnapshotGet(k)
  \/ Reconcile
  \/ \E s \in Stream : SubscribeOnStart(s)
  \/ StartWatch
  \/ NextChange
  \/ ApplyChange

SubsNext == \/ SdkNext
            \/ \E k \in Key : Expire(k)
            \/ GatewayStep
            \/ WatchClosed
            \/ GatewayRestarts

SubsSpec == SubsInit /\ [][SubsNext]_SubsVars

-----------------------------------------------------------------------------
(* Properties.                                                             *)

SubsTypeOK ==
  /\ leased \in [Task -> Lease \cup {NoLease}]
  /\ kv \in [Key -> Lease \cup {NoLease, Tombstone}]
  /\ watch \in Seq([key : Key, val : Lease \cup {NoLease, Tombstone}])
  /\ pc \in {"boot", "snap", "subs", "watch", "closed"}
  /\ todo \subseteq Key /\ toSub \subseteq Stream
  /\ cache \in [Key -> Lease \cup {NoLease}]
  /\ queue \in Seq([op : {"added", "removed"}, key : Key, lease : Lease])
  /\ refs \in [Stream -> Nat]
  /\ specs \in [Stream -> Exch \cup {NoExch}]
  /\ upstream \in [Stream -> Exch \cup {NoExch}]
  /\ restarts \in 0..MaxRestarts

(* Nothing is on its way from the bucket to the manager.                   *)
SubsQuiet == pc = "watch" /\ watch = <<>> /\ queue = <<>>
Leased(s) == \E k \in Key : Mine(kv[k]) /\ kv[k].stream = s

(* A key whose lease the gateway still counts and which left the bucket    *)
(* without a delete marker: it aged out.                                   *)
AgedOut(k) == cache[k] # NoLease /\ kv[k] = NoLease

(* Once every bucket entry has been delivered and applied, the venue is    *)
(* subscribed to exactly the streams some lease in the bucket asks for,    *)
(* apart from those of leases that aged out: the snapshot, the replay of   *)
(* the watcher and the refreshes never count a lease twice or lose one,    *)
(* across restarts and writes during start-up.                             *)
UpstreamMatchesLeases ==
  SubsQuiet => \A s \in Stream :
     upstream[s] # NoExch <=> Leased(s) \/ \E k \in Key : AgedOut(k) /\ cache[k].stream = s

(* A live subscription task gets its stream subscribed upstream, even when *)
(* another task of the same client dropped the key they share: the next    *)
(* refresh brings it back.  (run_watch_loop ends for good when its stream   *)
(* does.)                                                                  *)
LiveTaskServed ==
  \A t \in Task : \A l \in LeasesOf[t] : l.mine =>
     (leased[t] = l)
        ~> (leased[t] # l \/ upstream[l.stream] # NoExch \/ pc = "closed")

StreamOf(l) == IF l = NoLease THEN NoStream ELSE l.stream

(* The leases the manager has been told of, as seen by RtmdDemand: those   *)
(* of key_cache, but for a key whose change is still being applied.        *)
Told == [k \in Key |->
  IF pc \in {"boot", "snap"} THEN NoStream
  ELSE IF queue = <<>> \/ Head(queue).key # k THEN StreamOf(cache[k])
  ELSE IF Head(queue).op = "removed" THEN Head(queue).lease.stream ELSE NoStream]

(* A live stream is not unsubscribed while another lease the manager was   *)
(* told of wants it (test_two_subscribers_one_removal_keeps_upstream).     *)
StreamKeptWhileShared ==
  [][\A s \in Stream : (upstream[s] # NoExch /\ upstream'[s] = NoExch /\ pc' = "watch")
        => \A k \in Key : Told'[k] # s]_SubsVars

Demand == INSTANCE RtmdDemand WITH wants <- Told,
                                   live <- {s \in Stream : upstream[s] # NoExch}

(* The reference counting implements the demand specification: a stream is *)
(* subscribed when a first lease wants it and given up only with the last. *)
ImplementsDemand == Demand!DemandSpec

=============================================================================
