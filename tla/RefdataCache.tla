---------------------------- MODULE RefdataCache ----------------------------
(***************************************************************************)
(* The reference data cache of the trading SDK                             *)
(* (zk-trading-sdk-rs/src/refdata.rs) and the refdata service's change     *)
(* events.  Queries read the cache under a lock, call the service without  *)
(* it and write the answer back under it again; the invalidation task does *)
(* the same after it has marked an entry.  The data of an instrument is    *)
(* its version at the service.                                             *)
(***************************************************************************)
EXTENDS Integers, Sequences

CONSTANTS Inst,          \* instruments
          Client,        \* tasks of the client that query
          Reloader,      \* the invalidation task
          NoInst, NoData,
          MaxVersion,    \* bound on the changes of an instrument
          MaxRpcErrors   \* bound on failed calls to the service

Task == Client \cup {Reloader}

VARIABLES version,   \* the service: current version of each instrument
          notices,   \* change events published and not yet handled
          entry,     \* RefdataCache::instruments
          indexed,   \* instruments reachable through by_venue_symbol
          doing,     \* what each task is in the middle of
          answer,    \* the last answer a client got: data, or an error
          rpcErrors

RefVars == <<version, notices, entry, indexed, doing, answer, rpcErrors>>

Idle == [at |-> "idle", inst |-> NoInst, data |-> NoData]

RefInit ==
  /\ version = [i \in Inst |-> 1] /\ notices = << >>
  /\ entry = [i \in Inst |-> NoData] /\ indexed = {}
  /\ doing = [t \in Task |-> Idle]
  /\ answer = [t \in Client |-> NoData] /\ rpcErrors = 0

(* A refresh commits a change and publishes its event.                     *)
publish_change_events(i) ==
  /\ version[i] < MaxVersion
  /\ version' = [version EXCEPT ![i] = @ + 1]
  /\ \E dep \in BOOLEAN : notices' = Append(notices, [inst |-> i, deprecate |-> dep])
  /\ UNCHANGED <<entry, indexed, doing, answer, rpcErrors>>

-----------------------------------------------------------------------------
(* query_instrument, for a client or the invalidation task                 *)

Go(t, at, i, data) == doing' = [doing EXCEPT ![t] = [at |-> at, inst |-> i, data |-> data]]

Answered(t, data) ==
  /\ answer' = IF t \in Client THEN [answer EXCEPT ![t] = data] ELSE answer
  /\ doing' = [doing EXCEPT ![t] = Idle]

Error == [ver |-> 0, stale |-> FALSE]
Data(v, s) == [ver |-> v, stale |-> s]

(* Under the read lock: deprecated, a hit, or a call to the service.       *)
Lookup(t, i) ==
  \/ entry[i] # NoData /\ entry[i].deprecated /\ Answered(t, Error)
  \/ /\ entry[i] # NoData /\ ~entry[i].deprecated /\ entry[i].valid
     /\ Answered(t, Data(entry[i].ver, FALSE))
  \/ /\ entry[i] # NoData => ~entry[i].deprecated /\ ~entry[i].valid
     /\ Go(t, "rpc", i, IF entry[i] = NoData THEN NoData ELSE entry[i].ver)
     /\ UNCHANGED answer

Begin(t) ==
  /\ doing[t] = Idle
  /\ UNCHANGED <<version, notices, entry, indexed, rpcErrors>>

query_instrument(t, i) == t \in Client /\ Begin(t) /\ Lookup(t, i)

(* An indexed symbol leads to query_instrument, which locks again; an      *)
(* unknown one to a call that has no stale data to fall back on.           *)
query_by_venue_symbol(t, i) ==
  /\ t \in Client /\ Begin(t)
  /\ Go(t, IF i \in indexed THEN "lookup" ELSE "rpc", i, NoData)
  /\ UNCHANGED answer

LookupIndexed(t) ==
  /\ doing[t].at = "lookup"
  /\ Lookup(t, doing[t].inst)
  /\ UNCHANGED <<version, notices, entry, indexed, rpcErrors>>

(* The service answers with what it has now.                               *)
RpcAnswers(t) ==
  /\ doing[t].at = "rpc"
  /\ Go(t, "upsert", doing[t].inst, version[doing[t].inst])
  /\ UNCHANGED <<version, notices, entry, indexed, answer, rpcErrors>>

RpcFails(t) ==
  /\ doing[t].at = "rpc" /\ rpcErrors < MaxRpcErrors
  /\ rpcErrors' = rpcErrors + 1
  /\ Answered(t, IF doing[t].data = NoData THEN Error ELSE Data(doing[t].data, TRUE))
  /\ UNCHANGED <<version, notices, entry, indexed>>

(* Under the write lock: a valid entry, whatever is there.                 *)
upsert_instrument(t) ==
  LET i == doing[t].inst
      v == doing[t].data
  IN  /\ doing[t].at = "upsert"
      /\ entry' = [entry EXCEPT ![i] = [ver |-> v, valid |-> TRUE, deprecated |-> FALSE]]
      /\ indexed' = indexed \cup {i}
      /\ Answered(t, Data(v, FALSE))
      /\ UNCHANGED <<version, notices, rpcErrors>>

-----------------------------------------------------------------------------
(* spawn_invalidation_task                                                 *)

invalidate(i, dep) ==
  IF entry[i] = NoData THEN entry
  ELSE [entry EXCEPT ![i].valid = FALSE, ![i].deprecated = dep]

(* Mutant: the task does not reload.                                       *)
ReloadNever(dep, i) == doing' = doing

(* Unless deprecated, the task queries the instrument itself.              *)
Reload(dep, i) == IF dep THEN doing' = doing ELSE Go(Reloader, "lookup", i, NoData)

HandleNotice ==
  /\ notices # << >> /\ doing[Reloader] = Idle
  /\ LET n == Head(notices)
     IN  /\ entry' = invalidate(n.inst, n.deprecate)
         /\ Reload(n.deprecate, n.inst)
  /\ notices' = Tail(notices)
  /\ UNCHANGED <<version, indexed, answer, rpcErrors>>

RefNext ==
  \/ \E i \in Inst : publish_change_events(i)
  \/ \E t \in Client, i \in Inst : query_instrument(t, i) \/ query_by_venue_symbol(t, i)
  \/ \E t \in Task : LookupIndexed(t) \/ RpcAnswers(t) \/ RpcFails(t) \/ upsert_instrument(t)
  \/ HandleNotice

RefSpec == RefInit /\ [][RefNext]_RefVars

-----------------------------------------------------------------------------
(* With nothing in flight and no failed call, every cached instrument is   *)
(* usable again or deprecated: invalidation always ends in a reload        *)
(* ("False after invalidation, until reload completes").                   *)
SettledEntriesUsable ==
  (notices = << >> /\ rpcErrors = 0 /\ \A t \in Task : doing[t] = Idle) =>
     \A i \in Inst : entry[i] # NoData => entry[i].valid # entry[i].deprecated
=============================================================================
