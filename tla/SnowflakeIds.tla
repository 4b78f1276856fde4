---------------------------- MODULE SnowflakeIds ----------------------------
(***************************************************************************)
(* SnowflakeIdGen::next_id (zk-trading-sdk-rs/src/id_gen.rs): order ids    *)
(* made of the clock's millisecond, the client instance and a sequence     *)
(* number.  The callers share last_ms and sequence, two atomics; a step is *)
(* one atomic operation of one caller.  The instance is a constant of the  *)
(* generator, so an id is the pair of a millisecond and a sequence number. *)
(***************************************************************************)
EXTENDS Integers, Sequences

CONSTANTS Caller,        \* threads that call next_id
          MaxSequence,   \* MAX_SEQUENCE (4095)
          MaxClock,      \* bound on the milliseconds that pass
          MaxIds         \* bound on the ids drawn

ASSUME IdsAssumption == MaxSequence \in Nat /\ MaxClock \in Nat /\ MaxIds \in Nat

VARIABLES clock,      \* SystemTime::now(), in milliseconds
          lastMs,     \* last_ms
          sequence,   \* sequence (an AtomicU16)
          at,         \* the next operation of each caller
          nowMs,      \* its now_ms
          last,       \* its last
          issued      \* the ids returned, in order

IdVars == <<clock, lastMs, sequence, at, nowMs, last, issued>>

IdInit ==
  /\ clock = 1 /\ lastMs = 0 /\ sequence = 0
  /\ at = [c \in Caller |-> "clock"]
  /\ nowMs = [c \in Caller |-> 0] /\ last = [c \in Caller |-> 0]
  /\ issued = << >>

Goto(c, label) == at' = [at EXCEPT ![c] = label]

(* compose(): the call returns, and the caller may call again.             *)
Return(c, n) == /\ issued' = Append(issued, [ms |-> nowMs[c], seq |-> n])
                /\ Goto(c, "clock")

Tick == /\ clock < MaxClock
        /\ clock' = clock + 1
        /\ UNCHANGED <<lastMs, sequence, at, nowMs, last, issued>>

ReadClock(c) ==
  /\ at[c] = "clock" /\ Len(issued) < MaxIds
  /\ nowMs' = [nowMs EXCEPT ![c] = clock]
  /\ Goto(c, "load")
  /\ UNCHANGED <<clock, lastMs, sequence, last, issued>>

LoadLast(c) ==
  /\ at[c] = "load"
  /\ last' = [last EXCEPT ![c] = lastMs]
  /\ Goto(c, IF nowMs[c] > lastMs THEN "claim" ELSE "add")
  /\ UNCHANGED <<clock, lastMs, sequence, nowMs, issued>>

(* compare_exchange on last_ms; the loser starts over.                     *)
Claim(c) ==
  /\ at[c] = "claim"
  /\ IF lastMs = last[c]
     THEN lastMs' = nowMs[c] /\ Goto(c, "reset")
     ELSE UNCHANGED lastMs /\ Goto(c, "clock")
  /\ UNCHANGED <<clock, sequence, nowMs, last, issued>>

Reset(c) ==
  /\ at[c] = "reset"
  /\ sequence' = 0
  /\ Return(c, 0)
  /\ UNCHANGED <<clock, lastMs, nowMs, last>>

(* Mutant: the number is used before it is incremented.                    *)
AddOld(c) == /\ at[c] = "add"
             /\ sequence' = (sequence + 1) % 65536
             /\ IF sequence <= MaxSequence THEN Return(c, sequence)
                ELSE Goto(c, "spin") /\ UNCHANGED issued
             /\ UNCHANGED <<clock, lastMs, nowMs, last>>

(* fetch_add; beyond MAX_SEQUENCE the caller waits for the clock.          *)
Add(c) ==
  LET next == (sequence + 1) % 65536
  IN  /\ at[c] = "add"
      /\ sequence' = next
      /\ IF next <= MaxSequence THEN Return(c, next)
         ELSE Goto(c, "spin") /\ UNCHANGED issued
      /\ UNCHANGED <<clock, lastMs, nowMs, last>>

Spin(c) ==
  /\ at[c] = "spin" /\ clock > lastMs
  /\ Goto(c, "clock")
  /\ UNCHANGED <<clock, lastMs, sequence, nowMs, last, issued>>

CallerStep(c) == ReadClock(c) \/ LoadLast(c) \/ Claim(c) \/ Reset(c) \/ Add(c) \/ Spin(c)

IdNext == Tick \/ \E c \in Caller : CallerStep(c)

IdSpec == IdInit /\ [][IdNext]_IdVars

-----------------------------------------------------------------------------
Before(i, j) == i.ms < j.ms \/ (i.ms = j.ms /\ i.seq < j.seq)

(* Ids come out in increasing order, so none comes out twice: the sequence *)
(* restarts only with a later millisecond and never runs past              *)
(* MAX_SEQUENCE into the next one (test_snowflake_id_monotonic_within_     *)
(* thread).                                                                *)
IdsIncrease == \A i, j \in DOMAIN issued : i < j => Before(issued[i], issued[j])
=============================================================================
