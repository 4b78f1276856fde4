--------------------------- MODULE RtmdSubsProofs ---------------------------
(***************************************************************************)
(* The subscription path of the market data gateway implements RtmdDemand, *)
(* for every set of tasks, keys, streams and leases, as long as the venue  *)
(* adapter's calls succeed.  (When they may fail, it does not: the run     *)
(* market_data_fail.)                                                      *)
(***************************************************************************)
EXTENDS RtmdSubs, FiniteSetTheorems, TLAPS

InterestChange == [op : {"added", "removed"}, key : Key, lease : Lease]
WatchEntry     == [key : Key, val : Lease \cup {NoLease, Tombstone}]
Wish           == [Key -> Stream \cup {NoStream}]

(* The keys that want stream s.                                            *)
WantedIn(w, s) == {k \in Key : w[k] = s}

(* What next_change leaves to apply: one change, or the two of a key whose *)
(* lease was replaced, with key_cache already as it will be afterwards.    *)
QueueShape ==
  \/ queue = <<>>
  \/ \E c \in InterestChange :
       /\ queue = <<c>>
       /\ cache[c.key] = IF c.op = "added" THEN c.lease ELSE NoLease
  \/ \E c, e \in InterestChange :
       /\ queue = <<c, e>>
       /\ c.op = "removed" /\ e.op = "added" /\ c.key = e.key
       /\ cache[e.key] = e.lease

(* Once the manager is built, its counts are the numbers of keys that want *)
(* a stream.                                                               *)
Counted ==
  \A s \in Stream : /\ refs[s] = Cardinality(WantedIn(Told, s))
                    /\ specs[s] # NoExch <=> refs[s] > 0

(* How the gateway's state fits together in each phase of main().          *)
Matched ==
  /\ QueueShape
  /\ queue # <<>> => pc = "watch"
  /\ pc \in {"boot", "snap"} => \A s \in Stream : upstream[s] = NoExch
  /\ pc \in {"subs", "watch", "closed"} => Counted
  /\ pc = "subs" => \A s \in Stream : /\ upstream[s] # NoExch <=> refs[s] > 0 /\ s \notin toSub
                                      /\ s \in toSub => refs[s] > 0
  /\ pc \in {"watch", "closed"} => \A s \in Stream : upstream[s] # NoExch <=> refs[s] > 0

(* The inductive invariant.                                                *)
SubsInv == SubsTypeOK /\ Matched

-----------------------------------------------------------------------------
(* Sequences and counts.                                                   *)

LEMMA HeadTailTyped ==
  ASSUME NEW S, NEW q \in Seq(S), q # <<>> PROVE Head(q) \in S /\ Tail(q) \in Seq(S)
OBVIOUS

LEMMA SinglesTyped ==
  ASSUME NEW S, NEW c \in S, NEW e \in S
  PROVE  <<>> \in Seq(S) /\ <<c>> \in Seq(S) /\ <<c, e>> \in Seq(S)
OBVIOUS

LEMMA AppendTyped ==
  ASSUME NEW S, NEW q \in Seq(S), NEW c \in S PROVE Append(q, c) \in Seq(S)
OBVIOUS

LEMMA FunctionIsSeq ==
  ASSUME NEW S, NEW n \in Nat, NEW f \in [1..n -> S] PROVE f \in Seq(S)
OBVIOUS

(* The number of keys that want a stream is positive exactly when one does. *)
LEMMA WantedCount ==
  ASSUME NEW w, NEW s
  PROVE  /\ IsFiniteSet(WantedIn(w, s))
         /\ Cardinality(WantedIn(w, s)) \in Nat
         /\ Cardinality(WantedIn(w, s)) > 0 <=> \E k \in Key : w[k] = s
<1>1. IsFiniteSet(Key)
  BY ConstantsOK
<1>2. WantedIn(w, s) \subseteq Key
  BY DEF WantedIn
<1>3. IsFiniteSet(WantedIn(w, s))
  BY <1>1, <1>2, FS_Subset
<1>4. Cardinality(WantedIn(w, s)) \in Nat
  BY <1>3, FS_CardinalityType
<1>5. Cardinality(WantedIn(w, s)) = 0 <=> WantedIn(w, s) = {}
  BY <1>3, FS_EmptySet
<1>6. WantedIn(w, s) = {} <=> ~ \E k \in Key : w[k] = s
  BY DEF WantedIn
<1> QED BY <1>3, <1>4, <1>5, <1>6

(* A key that wanted nothing now wants s.                                  *)
LEMMA WantedGrows ==
  ASSUME NEW w \in Wish, NEW k \in Key, NEW s \in Stream, w[k] = NoStream
  PROVE  /\ Cardinality(WantedIn([w EXCEPT ![k] = s], s)) = Cardinality(WantedIn(w, s)) + 1
         /\ \A t \in Stream \ {s} : WantedIn([w EXCEPT ![k] = s], t) = WantedIn(w, t)
<1>0. NoStream \notin Stream
  BY ConstantsOK
<1>1. k \notin WantedIn(w, s)
  BY <1>0 DEF WantedIn
<1>2. WantedIn([w EXCEPT ![k] = s], s) = WantedIn(w, s) \cup {k}
  BY DEF WantedIn, Wish
<1>3. IsFiniteSet(WantedIn(w, s))
  BY WantedCount
<1>4. Cardinality(WantedIn(w, s) \cup {k}) = Cardinality(WantedIn(w, s)) + 1
  BY <1>1, <1>3, FS_AddElement
<1>5. \A t \in Stream \ {s} : WantedIn([w EXCEPT ![k] = s], t) = WantedIn(w, t)
  BY <1>0 DEF WantedIn, Wish
<1> QED BY <1>2, <1>4, <1>5, Zenon

(* A key that wanted s wants nothing any more.                             *)
LEMMA WantedShrinks ==
  ASSUME NEW w \in Wish, NEW k \in Key, NEW s \in Stream, w[k] = s
  PROVE  /\ Cardinality(WantedIn([w EXCEPT ![k] = NoStream], s)) = Cardinality(WantedIn(w, s)) - 1
         /\ \A t \in Stream \ {s} : WantedIn([w EXCEPT ![k] = NoStream], t) = WantedIn(w, t)
<1>0. NoStream \notin Stream
  BY ConstantsOK
<1>1. k \in WantedIn(w, s)
  BY DEF WantedIn
<1>2. WantedIn([w EXCEPT ![k] = NoStream], s) = WantedIn(w, s) \ {k}
  BY <1>0 DEF WantedIn, Wish
<1>3. IsFiniteSet(WantedIn(w, s))
  BY WantedCount
<1>4. Cardinality(WantedIn(w, s) \ {k}) = Cardinality(WantedIn(w, s)) - 1
  BY <1>1, <1>3, FS_RemoveElement, Zenon
<1>5. \A t \in Stream \ {s} : WantedIn([w EXCEPT ![k] = NoStream], t) = WantedIn(w, t)
  BY <1>0 DEF WantedIn, Wish
<1> QED BY <1>2, <1>4, <1>5, Zenon

-----------------------------------------------------------------------------
(* The type invariant.                                                     *)

(* Every lease a task may hold is one, and a change queued is typed.       *)
LEMMA PublishTyped ==
  ASSUME SubsTypeOK, NEW k \in Key, NEW v \in Lease \cup {Tombstone}, Publish(k, v)
  PROVE  /\ kv' \in [Key -> Lease \cup {NoLease, Tombstone}]
         /\ watch' \in Seq(WatchEntry)
<1>1. kv' \in [Key -> Lease \cup {NoLease, Tombstone}]
  BY DEF Publish, SubsTypeOK
<1>2. watch \in Seq(WatchEntry)
  BY DEF SubsTypeOK, WatchEntry
<1>3. [key |-> k, val |-> v] \in WatchEntry
  BY DEF WatchEntry
<1>4. Append(watch, [key |-> k, val |-> v]) \in Seq(WatchEntry)
  BY <1>2, <1>3, AppendTyped
<1> QED BY <1>1, <1>2, <1>4, Zenon DEF Publish

(* next_change produces typed changes and keeps key_cache typed.           *)
LEMMA NextChangeTyped == ASSUME SubsTypeOK, NextChange PROVE SubsTypeOK'
<1> DEFINE k == Head(watch).key
           v == Head(watch).val
<1>1. watch \in Seq(WatchEntry) /\ watch # <<>>
  BY DEF SubsTypeOK, WatchEntry, NextChange
<1>2. Head(watch) \in WatchEntry /\ Tail(watch) \in Seq(WatchEntry)
  BY <1>1, HeadTailTyped
<1>3. k \in Key /\ v \in Lease \cup {NoLease, Tombstone}
  BY <1>2 DEF WatchEntry
<1>4. cache[k] \in Lease \cup {NoLease}
  BY <1>3 DEF SubsTypeOK
<1> HIDE DEF k, v
<1>5. watch' = Tail(watch) /\ UNCHANGED <<kvVars, pc, todo, refs, specs, toSub, upstream, restarts>>
  BY DEF NextChange
<1>6. queue' \in Seq(InterestChange) /\ cache' \in [Key -> Lease \cup {NoLease}]
  <2>1. CASE Mine(v) /\ queue' = Classify(k, v) /\ cache' = [cache EXCEPT ![k] = v]
    <3>1. v \in Lease
      BY <2>1 DEF Mine
    <3>2. cache' \in [Key -> Lease \cup {NoLease}]
      BY <1>3, <2>1, <3>1 DEF SubsTypeOK
    <3>3. Change("added", k, v) \in InterestChange
      BY <1>3, <3>1 DEF Change, InterestChange
    <3>4. CASE cache[k] = NoLease
      BY <2>1, <3>2, <3>3, <3>4, SinglesTyped DEF Classify
    <3>5. CASE cache[k] # NoLease
      <4>1. Change("removed", k, cache[k]) \in InterestChange
        BY <1>3, <1>4, <3>5 DEF Change, InterestChange
      <4> QED BY <2>1, <3>2, <3>3, <3>5, <4>1, SinglesTyped DEF Classify
    <3> QED BY <3>4, <3>5
  <2>2. CASE /\ v = Tombstone /\ cache[k] # NoLease
             /\ queue' = <<Change("removed", k, cache[k])>> /\ cache' = Uncached(k)
    <3>1. Change("removed", k, cache[k]) \in InterestChange
      BY <1>3, <1>4, <2>2 DEF Change, InterestChange
    <3>2. cache' \in [Key -> Lease \cup {NoLease}]
      BY <1>3, <2>2 DEF SubsTypeOK, Uncached
    <3> QED BY <2>2, <3>1, <3>2, SinglesTyped
  <2>3. CASE UNCHANGED <<queue, cache>>
    BY <2>3 DEF SubsTypeOK, InterestChange
  <2> QED BY <2>1, <2>2, <2>3 DEF NextChange, k, v
<1> QED BY <1>2, <1>5, <1>6 DEF SubsTypeOK, WatchEntry, InterestChange, kvVars

LEMMA UpdatesTyped ==
  ASSUME SubsTypeOK, NEW s \in Stream, NEW n \in Nat, NEW x \in Exch \cup {NoExch}
  PROVE  /\ [refs EXCEPT ![s] = n] \in [Stream -> Nat]
         /\ [specs EXCEPT ![s] = x] \in [Stream -> Exch \cup {NoExch}]
         /\ [upstream EXCEPT ![s] = x] \in [Stream -> Exch \cup {NoExch}]
BY DEF SubsTypeOK

(* apply_change keeps the counts and the upstream subscriptions typed.     *)
LEMMA ApplyChangeTyped == ASSUME SubsTypeOK, ApplyChange PROVE SubsTypeOK'
<1> DEFINE l == Head(queue).lease
<1>1. queue \in Seq(InterestChange) /\ queue # <<>>
  BY DEF SubsTypeOK, InterestChange, ApplyChange
<1>2. Head(queue) \in InterestChange /\ Tail(queue) \in Seq(InterestChange)
  BY <1>1, HeadTailTyped
<1>3. l \in Lease
  BY <1>2 DEF InterestChange
<1>4. l.stream \in Stream /\ l.exch \in Exch
  BY <1>3 DEF Lease
<1>5. queue' = Tail(queue) /\ UNCHANGED <<kvVars, watch, pc, todo, cache, toSub, restarts>>
  BY DEF ApplyChange
<1> HIDE DEF l
<1>6. /\ refs' \in [Stream -> Nat]
      /\ specs' \in [Stream -> Exch \cup {NoExch}]
      /\ upstream' \in [Stream -> Exch \cup {NoExch}]
  <2>0. refs[l.stream] \in Nat /\ refs \in [Stream -> Nat]
    BY <1>4 DEF SubsTypeOK
  <2>1. CASE ApplyAdded(l)
    <3>1. CASE refs[l.stream] > 0
      <4>1. refs' = [refs EXCEPT ![l.stream] = refs[l.stream] + 1] /\ UNCHANGED <<specs, upstream>>
        BY <2>1, <3>1 DEF ApplyAdded
      <4>2. refs[l.stream] + 1 \in Nat
        BY <2>0
      <4> QED BY <1>4, <4>1, <4>2, UpdatesTyped DEF SubsTypeOK
    <3>2. CASE ~(refs[l.stream] > 0)
      <4>1. \/ /\ refs' = [refs EXCEPT ![l.stream] = 1]
               /\ specs' = [specs EXCEPT ![l.stream] = l.exch]
               /\ upstream' = [upstream EXCEPT ![l.stream] = l.exch]
            \/ UNCHANGED <<refs, specs, upstream>>
        BY <2>1, <3>2 DEF ApplyAdded
      <4>2. /\ [refs EXCEPT ![l.stream] = 1] \in [Stream -> Nat]
            /\ [specs EXCEPT ![l.stream] = l.exch] \in [Stream -> Exch \cup {NoExch}]
            /\ [upstream EXCEPT ![l.stream] = l.exch] \in [Stream -> Exch \cup {NoExch}]
        BY <1>4, UpdatesTyped
      <4>3. CASE UNCHANGED <<refs, specs, upstream>>
        BY <4>3 DEF SubsTypeOK
      <4> QED BY <4>1, <4>2, <4>3
    <3> QED BY <3>1, <3>2
  <2>2. CASE ApplyRemoved(l)
    <3>1. CASE refs[l.stream] = 0
      BY <2>2, <3>1 DEF ApplyRemoved, SubsTypeOK
    <3>2. CASE refs[l.stream] > 1
      <4>0. refs[l.stream] # 0 /\ refs[l.stream] # 1
        BY <2>0, <3>2
      <4>1. refs' = [refs EXCEPT ![l.stream] = refs[l.stream] - 1] /\ UNCHANGED <<specs, upstream>>
        BY <2>2, <4>0 DEF ApplyRemoved
      <4>2. refs[l.stream] - 1 \in Nat
        BY <2>0, <3>2
      <4> QED BY <1>4, <4>1, <4>2, UpdatesTyped DEF SubsTypeOK
    <3>3. CASE refs[l.stream] = 1
      <4>1. \/ /\ refs' = [refs EXCEPT ![l.stream] = 0]
               /\ specs' = [specs EXCEPT ![l.stream] = NoExch]
               /\ upstream' = [upstream EXCEPT ![l.stream] = NoExch]
            \/ UNCHANGED <<refs, specs, upstream>>
        BY <2>0, <2>2, <3>3 DEF ApplyRemoved
      <4>2. /\ [refs EXCEPT ![l.stream] = 0] \in [Stream -> Nat]
            /\ [specs EXCEPT ![l.stream] = NoExch] \in [Stream -> Exch \cup {NoExch}]
            /\ [upstream EXCEPT ![l.stream] = NoExch] \in [Stream -> Exch \cup {NoExch}]
        BY <1>4, UpdatesTyped
      <4>3. CASE UNCHANGED <<refs, specs, upstream>>
        BY <4>3 DEF SubsTypeOK
      <4> QED BY <4>1, <4>2, <4>3
    <3> QED BY <2>0, <3>1, <3>2, <3>3
  <2> QED BY <2>1, <2>2 DEF ApplyChange, l
<1> QED BY <1>2, <1>5, <1>6 DEF SubsTypeOK, InterestChange, kvVars

(* Reconcile counts the keys of every stream.                              *)
LEMMA ReconcileTyped == ASSUME SubsTypeOK, Reconcile PROVE SubsTypeOK'
<1>1. \A s \in Stream : Cardinality(CachedOn(s)) \in Nat
  <2> SUFFICES ASSUME NEW s \in Stream PROVE Cardinality(CachedOn(s)) \in Nat
    OBVIOUS
  <2>1. CachedOn(s) \subseteq Key /\ IsFiniteSet(Key)
    BY ConstantsOK DEF CachedOn
  <2>2. IsFiniteSet(CachedOn(s))
    BY <2>1, FS_Subset
  <2> QED BY <2>2, FS_CardinalityType
<1>2. refs' \in [Stream -> Nat] /\ specs' \in [Stream -> Exch \cup {NoExch}] /\ toSub' \subseteq Stream
  BY <1>1 DEF Reconcile
<1> QED BY <1>2 DEF Reconcile, SubsTypeOK, kvVars

(* The watcher replays typed entries.                                      *)
LEMMA StartWatchTyped == ASSUME SubsTypeOK, StartWatch PROVE SubsTypeOK'
<1> DEFINE K == {k \in Key : kv[k] # NoLease}
<1>1. PICK order \in Bijection(1..Cardinality(K), K) :
         watch' = [i \in DOMAIN order |-> [key |-> order[i], val |-> kv[order[i]]]]
  BY Zenon DEF StartWatch
<1>2. IsFiniteSet(K)
  <2>1. K \subseteq Key /\ IsFiniteSet(Key)
    BY ConstantsOK
  <2> QED BY <2>1, FS_Subset
<1>3. Cardinality(K) \in Nat
  BY <1>2, FS_CardinalityType
<1>4. order \in [1..Cardinality(K) -> K]
  BY DEF Bijection, Injection
<1>5. \A i \in 1..Cardinality(K) : [key |-> order[i], val |-> kv[order[i]]] \in WatchEntry
  BY <1>4, Zenon DEF SubsTypeOK, WatchEntry
<1>6. DOMAIN order = 1..Cardinality(K)
  BY <1>4
<1>7. watch' \in [1..Cardinality(K) -> WatchEntry]
  BY <1>1, <1>5, <1>6
<1>8. watch' \in Seq(WatchEntry)
  BY <1>3, <1>7, FunctionIsSeq, Zenon
<1> QED BY <1>8 DEF StartWatch, SubsTypeOK, WatchEntry, kvVars

(* The remaining steps.                                                    *)
LEMMA TypesKept == ASSUME SubsTypeOK, [SubsNext]_SubsVars PROVE SubsTypeOK'
<1> USE DEF WatchEntry
<1>1. ASSUME NEW t \in Task, Register(t) PROVE SubsTypeOK'
  <2>1. PICK l \in LeasesOf[t] : leased' = [leased EXCEPT ![t] = l] /\ Publish(KeyOf[t], l)
    BY <1>1, Zenon DEF Register
  <2>2. l \in Lease /\ KeyOf[t] \in Key
    BY ConstantsOK
  <2> QED BY <1>1, <2>1, <2>2, PublishTyped, Zenon DEF Register, SubsTypeOK, gwVars
<1>2. ASSUME NEW t \in Task, Refresh(t) PROVE SubsTypeOK'
  <2>1. leased[t] \in Lease /\ KeyOf[t] \in Key
    BY <1>2, ConstantsOK DEF Refresh, SubsTypeOK
  <2> QED BY <1>2, <2>1, PublishTyped, Zenon DEF Refresh, SubsTypeOK, gwVars
<1>3. ASSUME NEW t \in Task, Drop(t) PROVE SubsTypeOK'
  <2>1. KeyOf[t] \in Key
    BY ConstantsOK
  <2> QED BY <1>3, <2>1, PublishTyped, Zenon DEF Drop, SubsTypeOK, gwVars
<1>4. ASSUME NEW t \in Task, ClientDies(t) PROVE SubsTypeOK'
  BY <1>4 DEF ClientDies, SubsTypeOK, gwVars
<1>5. ASSUME NEW k \in Key, Expire(k) PROVE SubsTypeOK'
  BY <1>5 DEF Expire, SubsTypeOK, gwVars
<1>6. CASE SnapshotKeys
  BY <1>6 DEF SnapshotKeys, SubsTypeOK, kvVars
<1>7. ASSUME NEW k \in Key, SnapshotGet(k) PROVE SubsTypeOK'
  <2>1. cache' \in [Key -> Lease \cup {NoLease}]
    BY <1>7 DEF SnapshotGet, FetchAndParse, Mine, SubsTypeOK
  <2> QED BY <1>7, <2>1 DEF SnapshotGet, SubsTypeOK, kvVars
<1>8. CASE Reconcile
  BY <1>8, ReconcileTyped
<1>9. ASSUME NEW s \in Stream, SubscribeOnStart(s) PROVE SubsTypeOK'
  <2>1. upstream' \in [Stream -> Exch \cup {NoExch}]
    BY <1>9 DEF SubscribeOnStart, SubsTypeOK
  <2> QED BY <1>9, <2>1 DEF SubscribeOnStart, SubsTypeOK, kvVars
<1>10. CASE StartWatch
  BY <1>10, StartWatchTyped
<1>11. CASE NextChange
  BY <1>11, NextChangeTyped
<1>12. CASE ApplyChange
  BY <1>12, ApplyChangeTyped
<1>13. CASE WatchClosed
  BY <1>13, SinglesTyped DEF WatchClosed, SubsTypeOK, kvVars
<1>14. CASE GatewayRestarts
  <2>1. restarts' \in 0..MaxRestarts
    BY <1>14, ConstantsOK DEF GatewayRestarts, SubsTypeOK
  <2> QED BY <1>14, <2>1, SinglesTyped DEF GatewayRestarts, SubsTypeOK, kvVars
<1>15. CASE UNCHANGED SubsVars
  BY <1>15 DEF SubsVars, kvVars, gwVars, SubsTypeOK
<1> QED
  BY <1>1, <1>2, <1>3, <1>4, <1>5, <1>6, <1>7, <1>8, <1>9, <1>10, <1>11, <1>12, <1>13,
     <1>14, <1>15 DEF SubsNext, SdkNext, GatewayStep

-----------------------------------------------------------------------------
(* The refinement, one lemma per kind of step.  Each shows the invariant   *)
(* (without the types) after the step and the step of RtmdDemand it is.    *)

LiveSet == {s \in Stream : upstream[s] # NoExch}

LEMMA ToldTyped == ASSUME SubsTypeOK PROVE Told \in Wish
<1> SUFFICES ASSUME NEW k \in Key PROVE Told[k] \in Stream \cup {NoStream}
  BY DEF Told, Wish
<1>1. CASE pc \in {"boot", "snap"}
  BY <1>1 DEF Told
<1>2. CASE pc \notin {"boot", "snap"} /\ (queue = <<>> \/ Head(queue).key # k)
  <2>1. Told[k] = StreamOf(cache[k])
    BY <1>2 DEF Told
  <2>2. cache[k] \in Lease \cup {NoLease}
    BY DEF SubsTypeOK
  <2> QED BY <2>1, <2>2 DEF StreamOf, Lease
<1>3. CASE pc \notin {"boot", "snap"} /\ ~(queue = <<>> \/ Head(queue).key # k)
  <2>1. queue \in Seq(InterestChange) /\ queue # <<>>
    BY <1>3 DEF SubsTypeOK, InterestChange
  <2>2. Head(queue) \in InterestChange
    BY <2>1, HeadTailTyped
  <2>3. Head(queue).lease.stream \in Stream
    BY <2>2 DEF InterestChange, Lease
  <2> QED BY <1>3, <2>3 DEF Told
<1> QED BY <1>1, <1>2, <1>3

(* Steps of the SDK and of the bucket leave the gateway alone.             *)
LEMMA OutsideStep ==
  ASSUME Matched, UNCHANGED gwVars
  PROVE  Matched' /\ Told' = Told /\ LiveSet' = LiveSet
<1>1. Told' = Told
  BY DEF gwVars, Told, StreamOf
<1>2. QueueShape'
  BY DEF Matched, QueueShape, gwVars
<1>3. pc \in {"subs", "watch", "closed"} => Counted'
  BY <1>1 DEF Matched, Counted, gwVars
<1> QED BY <1>1, <1>2, <1>3 DEF Matched, LiveSet, gwVars

(* Taking the snapshot tells the manager nothing yet.                      *)
LEMMA SnapshotStep ==
  ASSUME Matched, pc \in {"boot", "snap"}, pc' = "snap", UNCHANGED <<queue, upstream>>
  PROVE  Matched' /\ Told' = Told /\ LiveSet' = LiveSet
<1>1. queue = <<>> /\ queue' = <<>>
  BY DEF Matched
<1>2. Told' = Told
  BY DEF Told
<1> QED BY <1>1, <1>2 DEF Matched, QueueShape, LiveSet

(* reconcile_on_start learns every cached lease at once.                   *)
LEMMA ReconcileStep ==
  ASSUME SubsTypeOK, SubsTypeOK', Matched, Reconcile
  PROVE  Matched' /\ Demand!Recover(Told') /\ Told' \in Wish
<1>1. queue = <<>> /\ queue' = <<>> /\ pc = "snap" /\ pc' = "subs"
  BY DEF Matched, Reconcile
<1>2. upstream' = upstream /\ cache' = cache /\ \A s \in Stream : upstream[s] = NoExch
  BY <1>1 DEF Matched, Reconcile
<1>3. Told = [k \in Key |-> NoStream] /\ Told' = [k \in Key |-> StreamOf(cache[k])]
  BY <1>1, <1>2 DEF Told, StreamOf
<1>4. NoStream \notin Stream /\ NoExch \notin Exch
  BY ConstantsOK
<1>5. \A s \in Stream : WantedIn(Told', s) = CachedOn(s)
  BY <1>3, <1>4 DEF WantedIn, CachedOn, StreamOf
<1>6. ASSUME NEW s \in Stream
      PROVE  /\ refs'[s] = Cardinality(WantedIn(Told', s))
             /\ specs'[s] # NoExch <=> refs'[s] > 0
             /\ s \in toSub' <=> refs'[s] > 0
  <2>1. refs'[s] = Cardinality(WantedIn(Told', s))
    BY <1>5 DEF Reconcile
  <2>2. refs'[s] > 0 <=> CachedOn(s) # {}
    <3>1. Cardinality(WantedIn(Told', s)) > 0 <=> \E k \in Key : Told'[k] = s
      BY WantedCount
    <3>2. WantedIn(Told', s) # {} <=> \E k \in Key : Told'[k] = s
      BY DEF WantedIn
    <3> QED BY <1>5, <2>1, <3>1, <3>2
  <2>3. CASE CachedOn(s) = {}
    BY <1>2, <2>1, <2>2, <2>3 DEF Reconcile
  <2>4. CASE CachedOn(s) # {}
    <3>1. PICK k \in CachedOn(s) : specs'[s] = cache[k].exch
      BY <2>4 DEF Reconcile
    <3>2. cache[k] \in Lease
      BY DEF CachedOn, SubsTypeOK
    <3>3. specs'[s] # NoExch
      BY <1>4, <3>1, <3>2, SMT, ZenonT(20), SMTT(30) DEF Lease
    <3> QED BY <1>2, <2>1, <2>2, <2>4, <3>3 DEF Reconcile
  <2> QED BY <2>3, <2>4
<1>7. Matched'
  BY <1>1, <1>2, <1>6 DEF Matched, QueueShape, Counted
<1>8. Demand!Recover(Told')
  BY <1>2, <1>3 DEF Demand!Recover
<1>9. Told' \in Wish
  <2>1. \A k \in Key : cache[k] \in Lease \cup {NoLease}
    BY DEF SubsTypeOK
  <2>2. \A k \in Key : StreamOf(cache[k]) \in Stream \cup {NoStream}
    BY <2>1 DEF StreamOf, Lease
  <2> QED BY <1>3, <2>2 DEF Wish
<1> QED BY <1>7, <1>8, <1>9

(* A wanted stream is subscribed; the call succeeds.                       *)
LEMMA SubscribeStep ==
  ASSUME ~AdapterFails, SubsTypeOK, Matched, NEW s \in Stream, SubscribeOnStart(s)
  PROVE  Matched' /\ Demand!Establish(s)
<1>1. /\ pc = "subs" /\ s \in toSub /\ toSub' = toSub \ {s}
      /\ upstream' = [upstream EXCEPT ![s] = specs[s]]
      /\ UNCHANGED <<pc, cache, queue, refs, specs>>
  BY DEF SubscribeOnStart, Outcomes
<1>2. Told' = Told
  BY <1>1 DEF Told, StreamOf
<1>3. /\ queue = <<>> /\ Counted
      /\ \A t \in Stream : /\ upstream[t] # NoExch <=> refs[t] > 0 /\ t \notin toSub
                           /\ t \in toSub => refs[t] > 0
  BY <1>1 DEF Matched
<1>4. refs[s] > 0 /\ specs[s] # NoExch /\ upstream[s] = NoExch
  BY <1>1, <1>3, SMT, ZenonT(20), SMTT(30) DEF Counted
<1>5. Counted'
  BY <1>1, <1>2, <1>3 DEF Counted
<1>6. \A t \in Stream : upstream'[t] = IF t = s THEN specs[s] ELSE upstream[t]
  BY <1>1 DEF SubsTypeOK
<1>7. Matched'
  BY <1>1, <1>3, <1>4, <1>5, <1>6, Zenon DEF Matched, QueueShape
<1>8. s \in Demand!Demand(Told)
  <2>1. refs[s] = Cardinality(WantedIn(Told, s))
    BY <1>3 DEF Counted
  <2>2. \E k \in Key : Told[k] = s
    BY <1>4, <2>1, WantedCount, ZenonT(20)
  <2>3. s # NoStream
    BY ConstantsOK
  <2> QED BY <2>2, <2>3 DEF Demand!Demand
<1>9. LiveSet' = LiveSet \cup {s}
  BY <1>4, <1>6 DEF LiveSet
<1> QED BY <1>2, <1>4, <1>7, <1>8, <1>9 DEF Demand!Establish, LiveSet

(* Opening the watcher, or its end, tells the manager nothing.             *)
LEMMA WatcherStep ==
  ASSUME Matched, queue = <<>>, UNCHANGED <<cache, queue, refs, specs, toSub, upstream>>,
         \/ pc = "subs" /\ toSub = {} /\ pc' = "watch"
         \/ pc = "watch" /\ pc' = "closed"
  PROVE  Matched' /\ Told' = Told /\ LiveSet' = LiveSet
<1>1. Told' = Told
  BY DEF Told, StreamOf
<1>2. Counted /\ \A s \in Stream : upstream[s] # NoExch <=> refs[s] > 0
  BY DEF Matched
<1>3. Counted'
  BY <1>1, <1>2 DEF Counted
<1> QED BY <1>1, <1>2, <1>3, Zenon DEF Matched, QueueShape, LiveSet

(* The gateway forgets everything, the venue its subscriptions.            *)
LEMMA RestartStep ==
  ASSUME GatewayRestarts PROVE Matched' /\ Demand!Restart
<1>1. Told' = [k \in Key |-> NoStream]
  BY DEF GatewayRestarts, Told
<1>2. \A s \in Stream : upstream'[s] = NoExch
  BY DEF GatewayRestarts
<1>3. LiveSet' = {}
  BY <1>2 DEF LiveSet
<1> QED BY <1>1, <1>2, <1>3 DEF GatewayRestarts, Matched, QueueShape, Demand!Restart, LiveSet

(* next_change moves a difference from the bucket into the queue; what the *)
(* manager was told of stays, because the key's change is not applied yet. *)
LEMMA NextChangeStep ==
  ASSUME SubsTypeOK, Matched, NextChange
  PROVE  Matched' /\ Told' = Told /\ LiveSet' = LiveSet
<1> DEFINE k == Head(watch).key
           v == Head(watch).val
<1>1. /\ pc = "watch" /\ pc' = "watch" /\ queue = <<>>
      /\ UNCHANGED <<refs, specs, toSub, upstream>>
  BY DEF NextChange
<1>2. k \in Key
  <2>1. watch \in Seq(WatchEntry) /\ watch # <<>>
    BY DEF SubsTypeOK, WatchEntry, NextChange
  <2>2. Head(watch) \in WatchEntry
    BY <2>1, HeadTailTyped
  <2> QED BY <2>2, SMT, ZenonT(20), SMTT(30) DEF WatchEntry
<1>3. cache \in [Key -> Lease \cup {NoLease}] /\ NoLease \notin Lease
  BY ConstantsOK, SMT, ZenonT(20), SMTT(30) DEF SubsTypeOK
<1> HIDE DEF k, v
<1>4. Told = [j \in Key |-> StreamOf(cache[j])]
  BY <1>1, SMT, ZenonT(20), SMTT(30) DEF Told
<1>5. QueueShape' /\ Told' = Told
  <2>1. CASE Mine(v) /\ queue' = Classify(k, v) /\ cache' = [cache EXCEPT ![k] = v]
    <3>1. v \in Lease /\ v # NoLease
      BY <1>3, <2>1 DEF Mine
    <3> DEFINE add == Change("added", k, v)
               rem == Change("removed", k, cache[k])
    <3>2. add \in InterestChange /\ add.op = "added" /\ add.key = k /\ add.lease = v
      BY <1>2, <3>1 DEF Change, InterestChange
    <3>3. cache'[k] = v /\ \A j \in Key \ {k} : cache'[j] = cache[j]
      BY <1>2, <1>3, <2>1
    <3>4. CASE cache[k] = NoLease
      <4>1. queue' = <<add>>
        BY <2>1, <3>4 DEF Classify
      <4>2. QueueShape'
        BY <3>2, <3>3, <4>1 DEF QueueShape
      <4>3. queue' # <<>> /\ Head(queue') = add
        BY <4>1
      <4>4. Told' = Told
        BY <1>1, <1>4, <3>2, <3>3, <3>4, <4>3 DEF Told, StreamOf
      <4> QED BY <4>2, <4>4
    <3>5. CASE cache[k] # NoLease /\ cache[k].stream = v.stream /\ cache[k].exch = v.exch
      <4>1. queue' = <<>>
        BY <2>1, <3>5 DEF Classify
      <4>2. Told' = Told
        BY <1>1, <1>4, <3>1, <3>3, <3>5, <4>1 DEF Told, StreamOf
      <4> QED BY <4>1, <4>2 DEF QueueShape
    <3>6. CASE cache[k] # NoLease /\ ~(cache[k].stream = v.stream /\ cache[k].exch = v.exch)
      <4>0. cache[k] \in Lease
        BY <1>2, <1>3, <3>6
      <4>1. /\ rem \in InterestChange /\ rem.op = "removed" /\ rem.key = k
            /\ rem.lease = cache[k]
        BY <1>2, <4>0 DEF Change, InterestChange
      <4>2. queue' = <<rem, add>>
        BY <2>1, <3>6 DEF Classify
      <4>3. QueueShape'
        BY <3>2, <3>3, <4>1, <4>2 DEF QueueShape
      <4>4. queue' # <<>> /\ Head(queue') = rem
        BY <4>2, SMT, ZenonT(20), SMTT(30)
      <4>5. Told' = Told
        BY <1>1, <1>4, <3>3, <3>6, <4>1, <4>4 DEF Told, StreamOf
      <4> QED BY <4>3, <4>5
    <3> QED BY <3>4, <3>5, <3>6
  <2>2. CASE /\ v = Tombstone /\ cache[k] # NoLease
             /\ queue' = <<Change("removed", k, cache[k])>> /\ cache' = Uncached(k)
    <3> DEFINE rem == Change("removed", k, cache[k])
    <3>0. cache[k] \in Lease
      BY <1>2, <1>3, <2>2
    <3>1. rem \in InterestChange /\ rem.op = "removed" /\ rem.key = k /\ rem.lease = cache[k]
      BY <1>2, <3>0 DEF Change, InterestChange
    <3>2. cache'[k] = NoLease /\ \A j \in Key \ {k} : cache'[j] = cache[j]
      BY <1>2, <1>3, <2>2, SMT, ZenonT(20), SMTT(30) DEF Uncached
    <3>3. QueueShape'
      BY <2>2, <3>1, <3>2 DEF QueueShape
    <3>4. queue' # <<>> /\ Head(queue') = rem
      BY <2>2, SMT, ZenonT(20), SMTT(30)
    <3>5. Told' = Told
      BY <1>1, <1>4, <2>2, <3>1, <3>2, <3>4 DEF Told, StreamOf
    <3> QED BY <3>3, <3>5
  <2>3. CASE UNCHANGED <<queue, cache>>
    BY <1>1, <2>3, Zenon DEF QueueShape, Told, StreamOf
  <2> QED BY <2>1, <2>2, <2>3 DEF NextChange, k, v
<1>6. Counted /\ \A s \in Stream : upstream[s] # NoExch <=> refs[s] > 0
  BY <1>1 DEF Matched
<1>7. Counted'
  BY <1>1, <1>5, <1>6, ZenonT(20) DEF Counted
<1> QED BY <1>1, <1>5, <1>6, <1>7, SMT, ZenonT(20), SMTT(30) DEF Matched, LiveSet

(* Applying the head of the queue is what changes what the manager knows.  *)
LEMMA HeadApplied ==
  ASSUME SubsTypeOK, Matched, ApplyChange
  PROVE  /\ Head(queue) \in InterestChange /\ QueueShape'
         /\ Head(queue).op = "added" =>
              /\ Told[Head(queue).key] = NoStream
              /\ Told' = [Told EXCEPT ![Head(queue).key] = Head(queue).lease.stream]
         /\ Head(queue).op # "added" =>
              /\ Told[Head(queue).key] = Head(queue).lease.stream
              /\ Told' = [Told EXCEPT ![Head(queue).key] = NoStream]
<1>1. pc = "watch" /\ pc' = "watch" /\ queue # <<>> /\ queue' = Tail(queue) /\ cache' = cache
  BY DEF ApplyChange
<1>2. cache \in [Key -> Lease \cup {NoLease}] /\ NoLease \notin Lease
  BY ConstantsOK DEF SubsTypeOK
<1>3. CASE \E c \in InterestChange :
             queue = <<c>> /\ cache[c.key] = IF c.op = "added" THEN c.lease ELSE NoLease
  <2>1. PICK c \in InterestChange :
               queue = <<c>> /\ cache[c.key] = IF c.op = "added" THEN c.lease ELSE NoLease
    BY <1>3
  <2>2. Head(queue) = c /\ queue' = <<>>
    BY <1>1, <2>1
  <2>3. c.key \in Key /\ c.lease \in Lease /\ c.op \in {"added", "removed"}
    BY SMT, ZenonT(20), SMTT(30) DEF InterestChange
  <2>4. Told = [j \in Key |-> IF j # c.key THEN StreamOf(cache[j])
                              ELSE IF c.op = "removed" THEN c.lease.stream ELSE NoStream]
    BY <1>1, <2>2, SMT, ZenonT(20), SMTT(30) DEF Told
  <2>5. Told' = [j \in Key |-> StreamOf(cache[j])]
    BY <1>1, <2>2 DEF Told, StreamOf
  <2>6. CASE c.op = "added"
    <3>1. StreamOf(cache[c.key]) = c.lease.stream
      BY <1>2, <2>1, <2>3, <2>6 DEF StreamOf
    <3> QED BY <2>2, <2>3, <2>4, <2>5, <2>6, <3>1, Zenon DEF QueueShape
  <2>7. CASE c.op = "removed"
    <3>1. StreamOf(cache[c.key]) = NoStream
      BY <2>1, <2>7, SMT, ZenonT(20), SMTT(30) DEF StreamOf
    <3> QED BY <2>2, <2>3, <2>4, <2>5, <2>7, <3>1, Zenon DEF QueueShape
  <2> QED BY <2>3, <2>6, <2>7, Zenon
<1>4. CASE \E c, e \in InterestChange :
             /\ queue = <<c, e>>
             /\ c.op = "removed" /\ e.op = "added" /\ c.key = e.key
             /\ cache[e.key] = e.lease
  <2>1. PICK c \in InterestChange, e \in InterestChange :
             /\ queue = <<c, e>>
             /\ c.op = "removed" /\ e.op = "added" /\ c.key = e.key
             /\ cache[e.key] = e.lease
    BY <1>4
  <2>2. Head(queue) = c /\ queue' = <<e>>
    BY <1>1, <2>1
  <2>3. queue' # <<>> /\ Head(queue') = e
    BY <2>2
  <2>4. c.key \in Key
    BY DEF InterestChange
  <2>5. Told = [j \in Key |-> IF j # c.key THEN StreamOf(cache[j]) ELSE c.lease.stream]
    BY <1>1, <2>1, <2>2 DEF Told
  <2>6. Told' = [j \in Key |-> IF j # c.key THEN StreamOf(cache[j]) ELSE NoStream]
    BY <1>1, <2>1, <2>3, SMT, ZenonT(20), SMTT(30) DEF Told, StreamOf
  <2>7. QueueShape'
    BY <1>1, <2>1, <2>2 DEF QueueShape
  <2> QED BY <2>1, <2>2, <2>4, <2>5, <2>6, <2>7
<1> QED BY <1>1, <1>3, <1>4, Zenon DEF Matched, QueueShape

(* A first lease subscribes its stream, a further one only counts.         *)
LEMMA AddedStep ==
  ASSUME ~AdapterFails, SubsTypeOK, Matched, ApplyChange, Head(queue).op = "added"
  PROVE  Matched' /\ Demand!Acquire(Head(queue).key, Head(queue).lease.stream)
<1> DEFINE k == Head(queue).key
           s == Head(queue).lease.stream
           x == Head(queue).lease.exch
<1>1. k \in Key /\ s \in Stream /\ x \in Exch /\ x # NoExch
  BY HeadApplied, ConstantsOK DEF InterestChange, Lease
<1>2. QueueShape' /\ Told[k] = NoStream /\ Told' = [Told EXCEPT ![k] = s]
  BY HeadApplied
<1>3. ApplyAdded(Head(queue).lease) /\ pc = "watch" /\ pc' = "watch"
  BY ZenonT(20) DEF ApplyChange
<1>4. /\ \/ refs[s] > 0 /\ refs' = [refs EXCEPT ![s] = refs[s] + 1] /\ UNCHANGED <<specs, upstream>>
         \/ /\ ~(refs[s] > 0) /\ refs' = [refs EXCEPT ![s] = 1]
            /\ specs' = [specs EXCEPT ![s] = x] /\ upstream' = [upstream EXCEPT ![s] = x]
  BY <1>3, Zenon DEF ApplyAdded, Outcomes
<1> HIDE DEF k, s, x
<1>5. Counted /\ \A t \in Stream : upstream[t] # NoExch <=> refs[t] > 0
  BY <1>3 DEF Matched
<1>6. /\ refs \in [Stream -> Nat] /\ specs \in [Stream -> Exch \cup {NoExch}]
      /\ upstream \in [Stream -> Exch \cup {NoExch}]
  BY SMT, ZenonT(20), SMTT(30) DEF SubsTypeOK
<1>7. /\ refs'[s] = refs[s] + 1 /\ specs'[s] # NoExch /\ upstream'[s] # NoExch
      /\ \A t \in Stream \ {s} : refs'[t] = refs[t] /\ specs'[t] = specs[t] /\ upstream'[t] = upstream[t]
  <2>1. CASE refs[s] > 0
    BY <1>1, <1>4, <1>5, <1>6, <2>1 DEF Counted
  <2>2. CASE ~(refs[s] > 0)
    <3>1. refs[s] = 0
      BY <1>1, <1>6, <2>2
    <3> QED BY <1>1, <1>4, <1>6, <2>2, <3>1
  <2> QED BY <2>1, <2>2
<1>8. /\ Cardinality(WantedIn(Told', s)) = Cardinality(WantedIn(Told, s)) + 1
      /\ \A t \in Stream \ {s} : WantedIn(Told', t) = WantedIn(Told, t)
  BY <1>1, <1>2, ToldTyped, WantedGrows, Zenon
<1>9. ASSUME NEW t \in Stream
      PROVE  /\ refs'[t] = Cardinality(WantedIn(Told', t))
             /\ specs'[t] # NoExch <=> refs'[t] > 0
             /\ upstream'[t] # NoExch <=> refs'[t] > 0
  <2>1. CASE t = s
    <3>1. refs[s] \in Nat /\ refs[s] = Cardinality(WantedIn(Told, s))
      BY <1>1, <1>5, <1>6, SMT, ZenonT(20), SMTT(30) DEF Counted
    <3> QED BY <1>7, <1>8, <2>1, <3>1
  <2>2. CASE t # s
    BY <1>5, <1>7, <1>8, <2>2 DEF Counted
  <2> QED BY <2>1, <2>2, ZenonT(30)
<1>10. Matched'
  BY <1>2, <1>3, <1>9, Zenon DEF Matched, Counted
<1>11. LiveSet' = LiveSet \cup {s}
  BY <1>1, <1>7 DEF LiveSet
<1> QED BY <1>2, <1>10, <1>11 DEF Demand!Acquire, LiveSet, k, s

(* The last lease of a stream gives it up, an earlier one only counts.     *)
LEMMA RemovedStep ==
  ASSUME ~AdapterFails, SubsTypeOK, Matched, ApplyChange, Head(queue).op # "added"
  PROVE  Matched' /\ Demand!Release(Head(queue).key)
<1> DEFINE k == Head(queue).key
           s == Head(queue).lease.stream
<1>1. k \in Key /\ s \in Stream /\ NoStream \notin Stream
  BY HeadApplied, ConstantsOK DEF InterestChange, Lease
<1>2. QueueShape' /\ Told[k] = s /\ Told' = [Told EXCEPT ![k] = NoStream]
  BY HeadApplied
<1>3. ApplyRemoved(Head(queue).lease) /\ pc = "watch" /\ pc' = "watch"
  BY DEF ApplyChange
<1>4. \/ refs[s] = 0
      \/ refs[s] > 1 /\ refs' = [refs EXCEPT ![s] = refs[s] - 1] /\ UNCHANGED <<specs, upstream>>
      \/ /\ refs[s] = 1 /\ refs' = [refs EXCEPT ![s] = 0]
         /\ specs' = [specs EXCEPT ![s] = NoExch] /\ upstream' = [upstream EXCEPT ![s] = NoExch]
  BY <1>3, Zenon DEF ApplyRemoved, Outcomes
<1> HIDE DEF k, s
<1>5. Counted /\ \A t \in Stream : upstream[t] # NoExch <=> refs[t] > 0
  BY <1>3 DEF Matched
<1>6. /\ refs \in [Stream -> Nat] /\ specs \in [Stream -> Exch \cup {NoExch}]
      /\ upstream \in [Stream -> Exch \cup {NoExch}]
  BY SMT, ZenonT(20), SMTT(30) DEF SubsTypeOK
<1>7. refs[s] \in Nat /\ refs[s] > 0
  BY <1>1, <1>2, <1>5, <1>6, WantedCount, SMT, ZenonT(20), SMTT(30) DEF Counted
<1>8. /\ refs'[s] = refs[s] - 1
      /\ specs'[s] # NoExch <=> refs'[s] > 0
      /\ upstream'[s] # NoExch <=> refs'[s] > 0
      /\ \A t \in Stream \ {s} : refs'[t] = refs[t] /\ specs'[t] = specs[t] /\ upstream'[t] = upstream[t]
  <2>1. CASE refs[s] > 1
    <3>1. refs' = [refs EXCEPT ![s] = refs[s] - 1] /\ UNCHANGED <<specs, upstream>>
      BY <1>4, <1>7, <2>1, SMT, ZenonT(20), SMTT(30)
    <3>2. specs[s] # NoExch /\ upstream[s] # NoExch
      BY <1>1, <1>5, <1>7 DEF Counted
    <3>3. refs'[s] = refs[s] - 1 /\ \A t \in Stream \ {s} : refs'[t] = refs[t]
      BY <1>1, <1>6, <3>1
    <3> QED BY <1>7, <2>1, <3>1, <3>2, <3>3
  <2>2. CASE refs[s] = 1
    <3>1. /\ refs' = [refs EXCEPT ![s] = 0]
          /\ specs' = [specs EXCEPT ![s] = NoExch] /\ upstream' = [upstream EXCEPT ![s] = NoExch]
      BY <1>4, <2>2
    <3>2. refs'[s] = 0 /\ specs'[s] = NoExch /\ upstream'[s] = NoExch
      BY <1>1, <1>6, <3>1
    <3>3. \A t \in Stream \ {s} : refs'[t] = refs[t] /\ specs'[t] = specs[t] /\ upstream'[t] = upstream[t]
      BY <1>6, <3>1
    <3> QED BY <2>2, <3>2, <3>3
  <2> QED BY <1>7, <2>1, <2>2, SMT, ZenonT(20), SMTT(30)
<1>9. /\ Cardinality(WantedIn(Told', s)) = Cardinality(WantedIn(Told, s)) - 1
      /\ \A t \in Stream \ {s} : WantedIn(Told', t) = WantedIn(Told, t)
  BY <1>1, <1>2, ToldTyped, WantedShrinks, Zenon
<1>10. ASSUME NEW t \in Stream
       PROVE  /\ refs'[t] = Cardinality(WantedIn(Told', t))
              /\ specs'[t] # NoExch <=> refs'[t] > 0
              /\ upstream'[t] # NoExch <=> refs'[t] > 0
  <2>1. CASE t = s
    <3>1. refs[s] = Cardinality(WantedIn(Told, s))
      BY <1>1, <1>5, SMT, ZenonT(20), SMTT(30) DEF Counted
    <3> QED BY <1>8, <1>9, <2>1, <3>1
  <2>2. CASE t # s
    BY <1>5, <1>8, <1>9, <2>2 DEF Counted
  <2> QED BY <2>1, <2>2
<1>11. Matched'
  BY <1>2, <1>3, <1>10, Zenon DEF Matched, Counted
<1>12. ASSUME NEW t \in Stream
       PROVE  upstream'[t] # NoExch <=> upstream[t] # NoExch /\ t \in Demand!Demand(Told')
  <2>1. upstream'[t] # NoExch <=> \E j \in Key : Told'[j] = t
    BY <1>10, WantedCount
  <2>2. t \in Demand!Demand(Told') <=> \E j \in Key : Told'[j] = t
    BY <1>1, SMT, ZenonT(20), SMTT(30) DEF Demand!Demand
  <2>3. upstream'[t] # NoExch => upstream[t] # NoExch
    BY <1>5, <1>7, <1>8, <1>10
  <2> QED BY <2>1, <2>2, <2>3, SMT, ZenonT(20), SMTT(30)
<1>13. LiveSet' = LiveSet \cap Demand!Demand(Told')
  BY <1>12 DEF LiveSet
<1>14. Told[k] # NoStream
  BY <1>1, <1>2
<1> QED BY <1>2, <1>11, <1>13, <1>14, Zenon DEF Demand!Release, LiveSet, k

-----------------------------------------------------------------------------
LEMMA SubsInitInv == SubsInit => SubsInv /\ Demand!DInit
<1> SUFFICES ASSUME SubsInit PROVE SubsInv /\ Demand!DInit
  OBVIOUS
<1>1. SubsTypeOK
  <2>1. /\ watch \in Seq([key : Key, val : Lease \cup {NoLease, Tombstone}])
        /\ queue \in Seq([op : {"added", "removed"}, key : Key, lease : Lease])
    BY SMT, ZenonT(20), SMTT(30) DEF SubsInit
  <2>2. restarts \in 0..MaxRestarts
    BY ConstantsOK DEF SubsInit
  <2> QED BY <2>1, <2>2 DEF SubsInit, SubsTypeOK
<1>2. Matched
  BY DEF SubsInit, Matched, QueueShape
<1>3. Told = [k \in Key |-> NoStream]
  BY ZenonT(20) DEF SubsInit, Told
<1> QED BY <1>1, <1>2, <1>3 DEF SubsInit, SubsInv, Demand!DInit

(* Every step keeps the invariant and is a step of RtmdDemand or none.     *)
LEMMA SubsStep ==
  ASSUME ~AdapterFails, SubsInv, [SubsNext]_SubsVars
  PROVE  SubsInv' /\ [Demand!DNext]_(Demand!dvars)
<1>0. SubsTypeOK /\ SubsTypeOK' /\ Matched
  BY TypesKept DEF SubsInv
<1>1. SUFFICES \/ Matched' /\ Told' = Told /\ LiveSet' = LiveSet
               \/ Matched' /\ Demand!DNext
  BY <1>0 DEF SubsInv, Demand!dvars, LiveSet
<1>2. CASE UNCHANGED gwVars
  BY <1>0, <1>2, OutsideStep
<1>3. CASE SnapshotKeys \/ \E k \in Key : SnapshotGet(k)
  BY <1>0, <1>3, SnapshotStep DEF SnapshotKeys, SnapshotGet
<1>4. CASE Reconcile
  BY <1>0, <1>4, ReconcileStep DEF Demand!DNext, Wish
<1>5. ASSUME NEW s \in Stream, SubscribeOnStart(s) PROVE Matched' /\ Demand!DNext
  BY <1>0, <1>5, SubscribeStep, ZenonT(20) DEF Demand!DNext
<1>6. CASE StartWatch \/ WatchClosed
  <2>1. queue = <<>>
    BY <1>0, <1>6 DEF Matched, StartWatch, WatchClosed
  <2> QED BY <1>0, <1>6, <2>1, WatcherStep, SMT, ZenonT(20), SMTT(30) DEF StartWatch, WatchClosed
<1>7. CASE NextChange
  BY <1>0, <1>7, NextChangeStep
<1>8. CASE ApplyChange
  <2>1. Head(queue).key \in Key /\ Head(queue).lease.stream \in Stream
    BY <1>0, <1>8, HeadApplied DEF InterestChange, Lease
  <2>2. CASE Head(queue).op = "added"
    <3>1. Matched' /\ Demand!Acquire(Head(queue).key, Head(queue).lease.stream)
      BY <1>0, <1>8, <2>2, AddedStep
    <3>2. PICK k \in Key, t \in Stream : k = Head(queue).key /\ t = Head(queue).lease.stream
      BY <2>1
    <3>3. Demand!Acquire(k, t)
      BY <3>1, <3>2 DEF Demand!Acquire
    <3> QED BY <3>1, <3>3 DEF Demand!DNext
  <2>3. CASE Head(queue).op # "added"
    <3>1. Matched' /\ Demand!Release(Head(queue).key)
      BY <1>0, <1>8, <2>3, RemovedStep
    <3>2. PICK k \in Key : k = Head(queue).key
      BY <2>1
    <3>3. Demand!Release(k)
      BY <3>1, <3>2, Zenon DEF Demand!Release
    <3> QED BY <3>1, <3>3 DEF Demand!DNext
  <2> QED BY <2>2, <2>3
<1>9. CASE GatewayRestarts
  BY <1>9, RestartStep DEF Demand!DNext
<1> QED
  BY <1>2, <1>3, <1>4, <1>5, <1>6, <1>7, <1>8, <1>9, Zenon
     DEF SubsNext, SdkNext, GatewayStep, Register, Refresh, Drop, ClientDies, Expire, SubsVars

(* The reference counting of the SubscriptionManager, fed by the lease     *)
(* bucket's snapshot, replay and watcher, implements the demand            *)
(* specification: a stream goes live with the first lease that wants it    *)
(* and is given up with the last, across restarts of the gateway.          *)
THEOREM SubscriptionsImplementDemand ==
  ASSUME ~AdapterFails PROVE SubsSpec => ImplementsDemand
<1>1. SubsInv /\ [SubsNext]_SubsVars => SubsInv' /\ [Demand!DNext]_(Demand!dvars)
  BY SubsStep
<1> QED BY <1>1, SubsInitInv, PTL DEF SubsSpec, ImplementsDemand, Demand!DemandSpec

(* The gateway's and the clients' subscription state stays well-formed,    *)
(* whether or not the adapter's calls succeed.                             *)
THEOREM SubscriptionsTyped == SubsSpec => []SubsTypeOK
<1>1. SubsInit => SubsTypeOK
  BY SubsInitInv DEF SubsInv
<1>2. SubsTypeOK /\ [SubsNext]_SubsVars => SubsTypeOK'
  BY TypesKept
<1> QED BY <1>1, <1>2, PTL DEF SubsSpec
-----------------------------------------------------------------------------
(* The bucket and the gateway's key_cache.                                 *)

LeasesAt(k) == {l \in Lease : \E t \in Task : KeyOf[t] = k /\ l \in LeasesOf[t]}

(* The instrument of a key is traded at one venue: key_for() holds the     *)
(* instrument id, and the venue of a lease is the instrument's.            *)
OneVenuePerKey == \A k \in Key : \A l, m \in LeasesAt(k) : l.mine = m.mine

(* key_cache agrees with the bucket's entry of the key.                    *)
Reflects(k) ==
  /\ kv[k] \in Lease => cache[k] = IF kv[k].mine THEN kv[k] ELSE NoLease
  /\ kv[k] = Tombstone => cache[k] = NoLease

(* The last undelivered entry of the key is what the bucket holds.         *)
Coming(k) == \E i \in 1..Len(watch) :
                /\ watch[i].key = k /\ watch[i].val = kv[k]
                /\ \A j \in 1..Len(watch) : j > i => watch[j].key # k

(* Every value that is, or was, stored under a key is a lease of the key,  *)
(* and the gateway keeps only those of its own venue.                      *)
Origins ==
  /\ \A t \in Task : leased[t] \in LeasesOf[t] \cup {NoLease}
  /\ \A k \in Key : kv[k] \in LeasesAt(k) \cup {NoLease, Tombstone}
  /\ \A k \in Key : cache[k] \in {l \in LeasesAt(k) : l.mine} \cup {NoLease}
  /\ \A i \in 1..Len(watch) :
        watch[i].val \in LeasesAt(watch[i].key) \cup {NoLease, Tombstone}

(* What the watcher has not told the gateway yet it will; a key that aged  *)
(* out of the bucket is the exception.                                     *)
Synced ==
  pc = "watch" => \A k \in Key :
     \/ kv[k] = NoLease
     \/ Coming(k)
     \/ Reflects(k) /\ \A i \in 1..Len(watch) : watch[i].key # k

LEMMA AppendAt ==
  ASSUME NEW S, NEW q \in Seq(S), NEW c \in S
  PROVE  /\ Len(q) \in Nat /\ Len(Append(q, c)) = Len(q) + 1
         /\ Append(q, c)[Len(q) + 1] = c
         /\ \A i \in 1..Len(q) : Append(q, c)[i] = q[i]
OBVIOUS

LEMMA TailAt ==
  ASSUME NEW S, NEW q \in Seq(S), q # <<>>
  PROVE  /\ Len(q) \in Nat /\ Len(q) >= 1 /\ Len(Tail(q)) = Len(q) - 1 /\ Head(q) = q[1]
         /\ \A i \in 1..Len(q) - 1 : Tail(q)[i] = q[i + 1]
OBVIOUS

(* A write is in the bucket and, with a watcher open, the last entry of    *)
(* its key that the gateway has to read.                                   *)
LEMMA PublishSynced ==
  ASSUME SubsTypeOK, Origins, Synced, NEW k \in Key, NEW v \in LeasesAt(k) \cup {Tombstone},
         Publish(k, v), UNCHANGED gwVars,
         \A t \in Task : leased'[t] \in LeasesOf[t] \cup {NoLease}
  PROVE  Origins' /\ Synced'
<1> DEFINE e == [key |-> k, val |-> v]
<1>1. kv \in [Key -> Lease \cup {NoLease, Tombstone}] /\ watch \in Seq(WatchEntry)
  BY DEF SubsTypeOK, WatchEntry
<1>2. kv'[k] = v /\ \A j \in Key \ {k} : kv'[j] = kv[j]
  BY <1>1 DEF Publish
<1>3. e \in WatchEntry /\ e.key = k /\ e.val = v
  BY DEF WatchEntry, LeasesAt
<1> HIDE DEF e
<1>4. pc' = pc /\ cache' = cache
  BY ZenonT(20) DEF gwVars
<1>5. CASE pc = "watch"
  <2>1. watch' = Append(watch, e)
    BY <1>5 DEF Publish, e
  <2>2. /\ Len(watch) \in Nat /\ Len(watch') = Len(watch) + 1 /\ watch'[Len(watch) + 1] = e
        /\ \A i \in 1..Len(watch) : watch'[i] = watch[i]
    BY <1>1, <1>3, <2>1, AppendAt
  <2>3. \A i \in 1..Len(watch') : i = Len(watch) + 1 \/ i \in 1..Len(watch)
    BY <2>2
  <2>4. Origins'
    BY <1>2, <1>3, <1>4, <2>2, <2>3, ZenonT(20) DEF Origins
  <2>5. Coming(k)'
    <3>1. Len(watch) + 1 \in 1..Len(watch') /\ \A j \in 1..Len(watch') : ~ (j > Len(watch) + 1)
      BY <2>2
    <3> QED BY <1>2, <1>3, <2>2, <3>1, ZenonT(20) DEF Coming
  <2>6. ASSUME NEW j \in Key, j # k
        PROVE  \/ kv'[j] = NoLease
               \/ Coming(j)'
               \/ Reflects(j)' /\ \A i \in 1..Len(watch') : watch'[i].key # j
    <3>1. CASE kv[j] = NoLease
      BY <1>2, <2>6, <3>1, ZenonT(20)
    <3>2. CASE Coming(j)
      <4>1. PICK i \in 1..Len(watch) : /\ watch[i].key = j /\ watch[i].val = kv[j]
                                       /\ \A h \in 1..Len(watch) : h > i => watch[h].key # j
        BY <3>2, ZenonT(20) DEF Coming
      <4>2. i \in 1..Len(watch') /\ watch'[i].key = j /\ watch'[i].val = kv'[j]
        BY <1>2, <2>2, <2>6, <4>1
      <4>3. \A h \in 1..Len(watch') : h > i => watch'[h].key # j
        BY <1>3, <2>2, <2>3, <2>6, <4>1, ZenonT(20)
      <4> QED BY <4>2, <4>3, ZenonT(20) DEF Coming
    <3>3. CASE Reflects(j) /\ \A i \in 1..Len(watch) : watch[i].key # j
      BY <1>2, <1>3, <1>4, <2>2, <2>3, <2>6, <3>3, Zenon DEF Reflects
    <3> QED BY <1>5, <3>1, <3>2, <3>3, ZenonT(30) DEF Synced
  <2> QED BY <2>4, <2>5, <2>6 DEF Synced
<1>6. CASE pc # "watch"
  <2>1. watch' = watch
    BY <1>6, ZenonT(20) DEF Publish
  <2> QED BY <1>2, <1>4, <1>6, <2>1, ZenonT(30) DEF Origins, Synced
<1> QED BY <1>5, <1>6, SMT, ZenonT(20), SMTT(30)

(* next_change brings key_cache to the entry it reads.                     *)
LEMMA NextChangeSynced ==
  ASSUME OneVenuePerKey, SubsTypeOK, Origins, Synced, NextChange
  PROVE  Origins' /\ Synced'
<1> DEFINE k == Head(watch).key
           v == Head(watch).val
<1>1. watch \in Seq(WatchEntry) /\ watch # <<>> /\ pc = "watch"
  BY Zenon DEF SubsTypeOK, WatchEntry, NextChange
<1>2. watch' = Tail(watch) /\ pc' = pc /\ kv' = kv /\ leased' = leased
  BY Zenon DEF NextChange, kvVars
<1>3. /\ Len(watch) \in Nat /\ Len(watch) >= 1 /\ Len(watch') = Len(watch) - 1
      /\ Head(watch) = watch[1] /\ \A i \in 1..Len(watch) - 1 : watch'[i] = watch[i + 1]
  BY <1>1, <1>2, TailAt
<1>4. Head(watch) \in WatchEntry
  BY <1>1, HeadTailTyped
<1>5. k \in Key /\ v \in LeasesAt(k) \cup {NoLease, Tombstone}
  <2>1. v \in LeasesAt(k) \cup {NoLease, Tombstone}
    BY <1>3, SMT, ZenonT(20), SMTT(30) DEF Origins
  <2> QED BY <1>4, <2>1 DEF WatchEntry
<1>6. cache \in [Key -> Lease \cup {NoLease}] /\ NoLease \notin Lease /\ Tombstone \notin Lease
      /\ NoLease # Tombstone
  BY ConstantsOK DEF SubsTypeOK
<1>7. \/ Mine(v) /\ cache' = [cache EXCEPT ![k] = v]
      \/ v = Tombstone /\ cache' = Uncached(k)
      \/ ~ Mine(v) /\ ~ (v = Tombstone /\ cache[k] # NoLease) /\ cache' = cache
  BY ZenonT(30) DEF NextChange
<1> HIDE DEF k, v
<1>8. /\ \A j \in Key \ {k} : cache'[j] = cache[j]
      /\ Mine(v) => cache'[k] = v
      /\ v = Tombstone => cache'[k] = NoLease
      /\ cache'[k] \in {v, cache[k], NoLease}
      /\ ~ Mine(v) => cache'[k] \in {cache[k], NoLease}
  BY <1>5, <1>6, <1>7, ZenonT(20) DEF Mine, Uncached
<1>9. Origins'
  <2>1. \A i \in 1..Len(watch') : i + 1 \in 1..Len(watch) /\ watch'[i] = watch[i + 1]
    BY <1>3
  <2>2. \A j \in Key : cache'[j] \in {l \in LeasesAt(j) : l.mine} \cup {NoLease}
    <3> SUFFICES ASSUME NEW j \in Key PROVE cache'[j] \in {l \in LeasesAt(j) : l.mine} \cup {NoLease}
      OBVIOUS
    <3>1. cache[j] \in {l \in LeasesAt(j) : l.mine} \cup {NoLease}
      BY DEF Origins
    <3>2. CASE j # k
      BY <1>8, <3>1, <3>2
    <3>3. CASE j = k /\ Mine(v)
      <4>1. v \in LeasesAt(k) /\ v.mine
        BY <1>5, <1>6, <3>3 DEF Mine
      <4> QED BY <1>8, <3>3, <4>1
    <3>4. CASE j = k /\ ~ Mine(v)
      BY <1>8, <3>1, <3>4, ZenonT(20)
    <3> QED BY <3>2, <3>3, <3>4
  <2> QED BY <1>2, <2>1, <2>2, Zenon DEF Origins
<1>10. ASSUME NEW j \in Key
       PROVE  \/ kv'[j] = NoLease
              \/ Coming(j)'
              \/ Reflects(j)' /\ \A i \in 1..Len(watch') : watch'[i].key # j
  <2>1. CASE kv[j] = NoLease
    BY <1>2, <2>1, ZenonT(20)
  <2>2. CASE kv[j] # NoLease /\ Coming(j)
    <3>1. PICK i \in 1..Len(watch) : /\ watch[i].key = j /\ watch[i].val = kv[j]
                                     /\ \A h \in 1..Len(watch) : h > i => watch[h].key # j
      BY <2>2 DEF Coming
    <3>2. CASE i # 1
      <4>1. i - 1 \in 1..Len(watch') /\ watch'[i - 1] = watch[i]
        BY <1>3, <3>1, <3>2
      <4>2. \A h \in 1..Len(watch') : h > i - 1 => watch'[h].key # j
        BY <1>3, <3>1
      <4> QED BY <1>2, <3>1, <4>1, <4>2, Zenon DEF Coming
    <3>3. CASE i = 1
      <4>1. j = k /\ kv[k] = v
        BY <1>3, <3>1, <3>3 DEF k, v
      <4>2. \A h \in 1..Len(watch') : watch'[h].key # j
        BY <1>3, <3>1, <3>3, SMT, ZenonT(20), SMTT(30)
      <4>3. v \in Lease /\ ~ v.mine => cache'[k] = NoLease
        <5> SUFFICES ASSUME v \in Lease, ~ v.mine PROVE cache'[k] = NoLease
          OBVIOUS
        <5>1. v \in LeasesAt(k) /\ ~ Mine(v)
          BY <1>5, <1>6, SMT, ZenonT(20), SMTT(30) DEF Mine
        <5>2. cache[k] \in {l \in LeasesAt(k) : l.mine} \cup {NoLease}
          BY <1>5 DEF Origins
        <5>3. \A l \in LeasesAt(k) : l.mine = v.mine
          BY <1>5, <5>1 DEF OneVenuePerKey
        <5>4. cache[k] = NoLease
          BY <5>2, <5>3
        <5> QED BY <1>8, <5>1, <5>4
      <4>4. kv'[j] = v /\ cache'[j] = cache'[k]
        BY <1>2, <4>1
      <4>5. v \in Lease => cache'[k] = IF v.mine THEN v ELSE NoLease
        BY <1>8, <4>3, Zenon DEF Mine
      <4>6. Reflects(j)'
        BY <1>8, <4>4, <4>5, Zenon DEF Reflects
      <4> QED BY <4>2, <4>6, Zenon
    <3> QED BY <3>2, <3>3
  <2>3. CASE Reflects(j) /\ \A i \in 1..Len(watch) : watch[i].key # j
    <3>1. j # k
      BY <1>3, <2>3 DEF k
    <3>2. \A i \in 1..Len(watch') : watch'[i].key # j
      BY <1>3, <2>3
    <3> QED BY <1>2, <1>8, <2>3, <3>1, <3>2 DEF Reflects
  <2> QED BY <1>1, <2>1, <2>2, <2>3 DEF Synced
<1> QED BY <1>9, <1>10 DEF Synced

(* The watcher starts by replaying the last entry of every key.            *)
LEMMA StartWatchSynced == ASSUME SubsTypeOK, Origins, StartWatch PROVE Origins' /\ Synced'
<1> DEFINE K == {k \in Key : kv[k] # NoLease}
           n == Cardinality(K)
<1>1. PICK order \in Bijection(1..n, K) :
         watch' = [i \in DOMAIN order |-> [key |-> order[i], val |-> kv[order[i]]]]
  BY Zenon DEF StartWatch
<1>2. n \in Nat
  <2>1. K \subseteq Key /\ IsFiniteSet(Key)
    BY ConstantsOK
  <2>2. IsFiniteSet(K)
    BY <2>1, FS_Subset
  <2> QED BY <2>2, FS_CardinalityType
<1> HIDE DEF n
<1>3. /\ order \in [1..n -> K] /\ \A i, j \in 1..n : order[i] = order[j] => i = j
      /\ \A k \in K : \E i \in 1..n : order[i] = k
  <2>1. order \in Injection(1..n, K) /\ order \in Surjection(1..n, K)
    BY Zenon DEF Bijection
  <2> QED BY <2>1 DEF Injection, Surjection, IsInjective
<1>4. DOMAIN watch' = 1..n /\ \A i \in 1..n : watch'[i] = [key |-> order[i], val |-> kv[order[i]]]
  BY <1>1, <1>3
<1>5. watch' \in [1..n -> WatchEntry]
  <2>1. \A i \in 1..n : order[i] \in Key /\ kv[order[i]] \in Lease \cup {NoLease, Tombstone}
    BY <1>3, ZenonT(30) DEF SubsTypeOK
  <2>2. \A i \in 1..n : watch'[i] \in WatchEntry
    BY <1>4, <2>1, SMT, ZenonT(20), SMTT(30) DEF WatchEntry
  <2> QED BY <1>1, <1>3, <1>4, <2>2
<1>6. Len(watch') = n
  <2>1. watch' \in Seq(WatchEntry)
    BY <1>2, <1>5, FunctionIsSeq, ZenonT(20)
  <2> QED BY <1>2, <1>4, <2>1
<1>7. UNCHANGED <<leased, kv, cache>>
  BY ZenonT(20) DEF StartWatch, kvVars
<1>8. Origins'
  <2>1. \A i \in 1..n : watch'[i].val \in LeasesAt(watch'[i].key) \cup {NoLease, Tombstone}
    BY <1>3, <1>4, SMT, ZenonT(20), SMTT(30) DEF Origins
  <2> QED BY <1>6, <1>7, <2>1, ZenonT(20) DEF Origins
<1>9. ASSUME NEW k \in Key, kv[k] # NoLease PROVE Coming(k)'
  <2>1. PICK i \in 1..n : order[i] = k
    BY <1>3, <1>9
  <2>2. \A j \in 1..n : j > i => order[j] # k
    BY <1>2, <1>3, <2>1
  <2> QED BY <1>4, <1>6, <1>7, <2>1, <2>2 DEF Coming
<1> QED BY <1>7, <1>8, <1>9, ZenonT(20) DEF Synced

(* Every step keeps the bucket and key_cache in step.                      *)
LEMMA SyncedKept ==
  ASSUME OneVenuePerKey, SubsTypeOK, Origins, Synced, [SubsNext]_SubsVars
  PROVE  Origins' /\ Synced'
<1>0. /\ KeyOf \in [Task -> Key] /\ \A t \in Task : LeasesOf[t] \subseteq LeasesAt(KeyOf[t])
      /\ leased \in [Task -> Lease \cup {NoLease}]
  BY ConstantsOK DEF LeasesAt, SubsTypeOK
<1>1. ASSUME NEW t \in Task, Register(t) PROVE Origins' /\ Synced'
  <2>1. PICK l \in LeasesOf[t] : leased' = [leased EXCEPT ![t] = l] /\ Publish(KeyOf[t], l)
    BY <1>1, ZenonT(30) DEF Register
  <2>2. \A u \in Task : leased'[u] \in LeasesOf[u] \cup {NoLease}
    BY <1>0, <2>1, ZenonT(20) DEF Origins
  <2>3. KeyOf[t] \in Key /\ l \in LeasesAt(KeyOf[t]) /\ UNCHANGED gwVars
    BY <1>0, <1>1, <2>1 DEF Register
  <2> QED BY <2>1, <2>2, <2>3, PublishSynced, Zenon
<1>2. ASSUME NEW t \in Task, Refresh(t) PROVE Origins' /\ Synced'
  <2>1. leased[t] \in LeasesOf[t] /\ leased' = leased /\ Publish(KeyOf[t], leased[t])
    BY <1>2, SMT, ZenonT(20), SMTT(30) DEF Refresh, Origins
  <2>2. \A u \in Task : leased'[u] \in LeasesOf[u] \cup {NoLease}
    BY <2>1 DEF Origins
  <2>3. KeyOf[t] \in Key /\ leased[t] \in LeasesAt(KeyOf[t]) /\ UNCHANGED gwVars
    BY <1>0, <1>2, <2>1 DEF Refresh
  <2> QED BY <2>1, <2>2, <2>3, PublishSynced, ZenonT(20)
<1>3. ASSUME NEW t \in Task, Drop(t) PROVE Origins' /\ Synced'
  <2>1. leased' = [leased EXCEPT ![t] = NoLease] /\ Publish(KeyOf[t], Tombstone) /\ UNCHANGED gwVars
    BY <1>3, ZenonT(20) DEF Drop
  <2>2. \A u \in Task : leased'[u] \in LeasesOf[u] \cup {NoLease}
    BY <1>0, <2>1 DEF Origins
  <2>3. KeyOf[t] \in Key
    BY <1>0, ZenonT(20)
  <2> QED BY <2>1, <2>2, <2>3, PublishSynced
<1>4. ASSUME NEW t \in Task, ClientDies(t) PROVE Origins' /\ Synced'
  <2>1. leased' = [leased EXCEPT ![t] = NoLease] /\ UNCHANGED <<kv, watch, pc, cache>>
    BY <1>4 DEF ClientDies, gwVars
  <2>2. \A u \in Task : leased'[u] \in LeasesOf[u] \cup {NoLease}
    BY <1>0, <2>1, Zenon DEF Origins
  <2> QED BY <2>1, <2>2, SMT, ZenonT(20), SMTT(30) DEF Origins, Synced, Coming, Reflects
<1>5. ASSUME NEW k \in Key, Expire(k) PROVE Origins' /\ Synced'
  <2>1. UNCHANGED <<leased, watch, pc, cache>>
    BY <1>5 DEF Expire, gwVars
  <2>2. kv'[k] = NoLease /\ \A j \in Key \ {k} : kv'[j] = kv[j]
    BY <1>5 DEF Expire, SubsTypeOK
  <2>3. Origins'
    BY <2>1, <2>2, ZenonT(30) DEF Origins
  <2>4. ASSUME NEW j \in Key, j # k, pc = "watch"
        PROVE  \/ kv'[j] = NoLease
               \/ Coming(j)'
               \/ Reflects(j)' /\ \A i \in 1..Len(watch') : watch'[i].key # j
    <3>1. kv'[j] = kv[j]
      BY <2>2, <2>4, ZenonT(20)
    <3>2. (Coming(j)' <=> Coming(j)) /\ (Reflects(j)' <=> Reflects(j))
      BY <2>1, <3>1, ZenonT(20) DEF Coming, Reflects
    <3> QED BY <2>1, <2>4, <3>1, <3>2 DEF Synced
  <2> QED BY <2>1, <2>2, <2>3, <2>4, ZenonT(30) DEF Synced
<1>6. CASE UNCHANGED <<leased, kv, cache, watch>> /\ (pc' # "watch" \/ pc' = pc)
  <2>1. Origins'
    BY <1>6, ZenonT(20) DEF Origins
  <2>2. \A k \in Key : (Coming(k)' <=> Coming(k)) /\ (Reflects(k)' <=> Reflects(k))
    BY <1>6, ZenonT(20) DEF Coming, Reflects
  <2> QED BY <1>6, <2>1, <2>2, ZenonT(20) DEF Synced
<1>7. ASSUME NEW k \in Key, SnapshotGet(k) PROVE Origins' /\ Synced'
  <2>1. UNCHANGED <<leased, kv, watch, pc>> /\ pc = "snap" /\ cache' = FetchAndParse(k)
    BY <1>7 DEF SnapshotGet, kvVars
  <2>2. \A j \in Key : cache'[j] \in {l \in LeasesAt(j) : l.mine} \cup {NoLease}
    <3>1. CASE ~ Mine(kv[k])
      BY <2>1, <3>1 DEF FetchAndParse, Origins
    <3>2. CASE Mine(kv[k])
      <4>1. kv[k] \in LeasesAt(k) /\ kv[k].mine
        BY <3>2, ConstantsOK, ZenonT(20) DEF Mine, Origins
      <4>2. cache' = [cache EXCEPT ![k] = kv[k]] /\ cache \in [Key -> Lease \cup {NoLease}]
        BY <2>1, <3>2 DEF FetchAndParse, SubsTypeOK
      <4> QED BY <4>1, <4>2, ZenonT(20) DEF Origins
    <3> QED BY <3>1, <3>2, ZenonT(20)
  <2> QED BY <2>1, <2>2, Zenon DEF Origins, Synced
<1>8. CASE GatewayRestarts \/ WatchClosed
  <2>1. /\ UNCHANGED <<leased, kv>> /\ watch' = <<>> /\ pc' # "watch"
        /\ cache' \in {cache, [k \in Key |-> NoLease]}
    BY <1>8 DEF GatewayRestarts, WatchClosed, kvVars
  <2>2. 1..Len(watch') = {}
    BY <2>1
  <2>3. \A k \in Key : cache'[k] \in {cache[k], NoLease}
    BY <2>1, Zenon
  <2> QED BY <2>1, <2>2, <2>3, Zenon DEF Origins, Synced
<1>9. CASE NextChange
  BY <1>9, NextChangeSynced
<1>10. CASE StartWatch
  BY <1>10, StartWatchSynced
<1>11. CASE \/ SnapshotKeys \/ Reconcile \/ ApplyChange \/ (\E s \in Stream : SubscribeOnStart(s))
            \/ UNCHANGED SubsVars
  BY <1>6, <1>11, Zenon
     DEF SnapshotKeys, Reconcile, ApplyChange, SubscribeOnStart, SubsVars, kvVars, gwVars
<1> QED
  BY <1>1, <1>2, <1>3, <1>4, <1>5, <1>7, <1>8, <1>9, <1>10, <1>11, ZenonT(20)
     DEF SubsNext, SdkNext, GatewayStep

(* With nothing on its way, the counts of the manager are over key_cache   *)
(* and key_cache is the bucket but for the keys that aged out of it.       *)
LEMMA QuietUpstream == ASSUME SubsInv, Origins, Synced PROVE UpstreamMatchesLeases
<1> SUFFICES ASSUME SubsQuiet, NEW s \in Stream
             PROVE  upstream[s] # NoExch
                       <=> Leased(s) \/ \E k \in Key : AgedOut(k) /\ cache[k].stream = s
  BY DEF UpstreamMatchesLeases
<1>1. pc = "watch" /\ watch = <<>> /\ queue = <<>>
  BY DEF SubsQuiet
<1>2. Told = [k \in Key |-> StreamOf(cache[k])]
  BY <1>1 DEF Told
<1>3. upstream[s] # NoExch <=> \E k \in Key : Told[k] = s
  <2>1. upstream[s] # NoExch <=> refs[s] > 0
    BY <1>1, ZenonT(20) DEF SubsInv, Matched
  <2>2. refs[s] = Cardinality(WantedIn(Told, s))
    BY <1>1 DEF SubsInv, Matched, Counted
  <2>3. Cardinality(WantedIn(Told, s)) > 0 <=> \E k \in Key : Told[k] = s
    BY WantedCount
  <2> QED BY <2>1, <2>2, <2>3
<1>4. \A k \in Key : Told[k] = s <=> cache[k] # NoLease /\ cache[k].stream = s
  BY <1>2, ConstantsOK, ZenonT(20) DEF StreamOf
<1>5. \A k \in Key : kv[k] = NoLease \/ Reflects(k)
  <2>1. Len(watch) = 0
    BY <1>1
  <2>2. \A k \in Key : ~ Coming(k)
    BY <2>1 DEF Coming
  <2> QED BY <1>1, <2>2 DEF Synced
<1>6. ASSUME NEW k \in Key
      PROVE  (cache[k] # NoLease /\ cache[k].stream = s)
                <=> (Mine(kv[k]) /\ kv[k].stream = s) \/ (AgedOut(k) /\ cache[k].stream = s)
  <2>1. kv[k] \in Lease \cup {NoLease, Tombstone} /\ NoLease \notin Lease /\ Tombstone \notin Lease
    BY ConstantsOK DEF SubsInv, SubsTypeOK
  <2>2. CASE kv[k] = NoLease
    BY <2>1, <2>2, ZenonT(20) DEF AgedOut, Mine
  <2>3. CASE kv[k] = Tombstone
    BY <1>5, <2>1, <2>3, ConstantsOK DEF AgedOut, Mine, Reflects
  <2>4. CASE kv[k] \in Lease
    <3>1. kv[k] # NoLease /\ (Mine(kv[k]) => cache[k] = kv[k]) /\ (~ Mine(kv[k]) => cache[k] = NoLease)
      BY <1>5, <2>1, <2>4, Zenon DEF Mine, Reflects
    <3> QED BY <3>1, Zenon DEF AgedOut
  <2> QED BY <2>1, <2>2, <2>3, <2>4, ZenonT(20)
<1> QED BY <1>3, <1>4, <1>6, Zenon DEF Leased

(* Once every bucket entry has been delivered and applied, the venue is    *)
(* subscribed to exactly the streams that some lease of the bucket, or one *)
(* that aged out of it, asks for: the snapshot, the watcher's replay and   *)
(* the refreshes count no lease twice and lose none, for every set of      *)
(* tasks, keys and leases and across any number of restarts.               *)
THEOREM UpstreamFollowsLeases ==
  ASSUME ~AdapterFails, OneVenuePerKey PROVE SubsSpec => []UpstreamMatchesLeases
<1>1. SubsInit => SubsInv /\ Origins /\ Synced
  <2> SUFFICES ASSUME SubsInit PROVE SubsInv /\ Origins /\ Synced
    OBVIOUS
  <2>1. Len(watch) = 0
    BY ZenonT(20) DEF SubsInit
  <2>2. Origins /\ Synced
    BY <2>1 DEF SubsInit, Origins, Synced
  <2> QED BY <2>2, SubsInitInv
<1>2. SubsInv /\ Origins /\ Synced /\ [SubsNext]_SubsVars => SubsInv' /\ Origins' /\ Synced'
  BY SubsStep, SyncedKept DEF SubsInv
<1>3. SubsInv /\ Origins /\ Synced => UpstreamMatchesLeases
  BY QuietUpstream
<1> QED BY <1>1, <1>2, <1>3, PTL DEF SubsSpec

=============================================================================
