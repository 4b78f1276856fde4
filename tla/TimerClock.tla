---------------------------- MODULE TimerClock ----------------------------
(***************************************************************************)
(* The simulated clock and the timer scheduler inside it (zk-core-rs:      *)
(* scheduler.rs, sim_clock.rs, test_clock.rs).  Timers are registered,     *)
(* replaced and cancelled by key; advance_to moves time and returns what   *)
(* became due.  A heap entry is <<fire_ms, key, generation>>; entries of   *)
(* cancelled and replaced timers stay in the heap until they surface.      *)
(*                                                                         *)
(* Keys are numbers, ordered like the strings.  A cron expression is       *)
(* external: the set of instants it matches.                               *)
(***************************************************************************)
EXTENDS Integers, Sequences, FiniteSets, FiniteSetsExt, SequencesExt, TLC

CONSTANTS
    TimerKeys,
    Menus,         \* sets of requests [sched, policy] set_timer is called with: see TcInit
    MaxTime,       \* bound: time runs from 0 to MaxTime
    MaxRegs,       \* bound: registrations
    CronCap        \* MAX_CRON_FIRES_PER_DRAIN

VARIABLES
    clock,    \* current_ms and the scheduler's heap, timers, cancelled, next_generation
    rang      \* history: what fired, and the requests behind the generations

TcVars == <<clock, rang>>

Never == MaxTime + 100     \* no occurrence; also the end of an endless timer
Instants == 0..MaxTime
NoTimer == [gen |-> -1]

(***************************************************************************)
(* Interval arithmetic, in the code's own terms.                           *)
(***************************************************************************)
\* Mutant: off by one period when the target is itself an occurrence.
NextIntervalFireAtOrAfterLate(start, every, target) ==
    IF target <= start THEN start ELSE start + ((target - start) \div every + 1) * every

NextIntervalFireAtOrAfter(start, every, target) ==
    IF target <= start THEN start
    ELSE LET candidate == start + ((target - start) \div every) * every
         IN  IF candidate >= target THEN candidate ELSE candidate + every

NextIntervalFire(start, every, current) ==
    IF current < start THEN start ELSE start + ((current - start) \div every + 1) * every

LatestIntervalFireAtOrBefore(start, every, target) ==
    IF target < start THEN start ELSE start + ((target - start) \div every) * every

\* Schedule::after (external): the first instant of a cron expression after t.
CronAfter(times, t) == LET later == {x \in times : x > t} IN IF later = {} THEN Never ELSE Min(later)

\* Strictly after t, while walking missed occurrences.
After(s, t) ==
    IF s.kind = "cron" THEN CronAfter(s.times, t) ELSE NextIntervalFire(s.start, s.every, t)

\* The first occurrence past now.
Past(s, now) ==
    IF s.kind = "cron" THEN CronAfter(s.times, now)
    ELSE NextIntervalFireAtOrAfter(s.start, s.every, now + 1)

\* The latest overdue occurrence, of those from the entry that surfaced on.
LatestOverdue(s, fire, now) ==
    IF s.kind = "cron" THEN Max({fire} \cup {x \in s.times : fire < x /\ x <= now})
    ELSE Max({fire, LatestIntervalFireAtOrBefore(s.start, s.every, now)})

(***************************************************************************)
(* drain_due.  Every entry a step pushes back lies past now, so the loop   *)
(* handles the entries that are due at its start, in heap order.           *)
(***************************************************************************)
FireTimer(c, key, gen, at) == [c EXCEPT !.fires = Append(@, [key |-> key, gen |-> gen, at |-> at])]

\* The timer's next entry, or its end.
Rearm(c, key, next) ==
    IF next # Never /\ next <= c.timers[key].sched.end
    THEN [c EXCEPT !.heap = @ \cup {<<next, key, c.timers[key].gen>>}]
    ELSE [c EXCEPT !.timers[key] = NoTimer]

FireOnceAt(c, e) == [FireTimer(c, e[2], e[3], e[1]) EXCEPT !.timers[e[2]] = NoTimer]

\* Every missed occurrence, for a cron expression at most CronCap of them.
Missed(s, fire, now) ==
    LET all == {t \in fire..now : t = fire \/ (\E u \in fire..now : After(s, u) = t)}
        due == SetToSortSeq({t \in all : t <= s.end}, <)
    IN  IF s.kind = "cron" THEN SubSeq(due, 1, Min({CronCap, Len(due)})) ELSE due

FireAll(c, e) ==
    LET s == c.timers[e[2]].sched
    IN  Rearm(FoldLeft(LAMBDA d, t : FireTimer(d, e[2], e[3], t), c, Missed(s, e[1], c.now)),
              e[2], Past(s, c.now))

FireOnce(c, e) ==
    LET s == c.timers[e[2]].sched
        latest == LatestOverdue(s, e[1], c.now)
    IN  Rearm(IF latest <= s.end THEN FireTimer(c, e[2], e[3], latest) ELSE c, e[2], After(s, latest))

SkipMissed(c, e) ==
    LET s == c.timers[e[2]].sched
    IN  Rearm(IF e[1] = c.now /\ e[1] <= s.end THEN FireTimer(c, e[2], e[3], e[1]) ELSE c, e[2], Past(s, c.now))

\* One entry surfaces: cancelled and superseded ones are thrown away.
Surface(c, e) ==
    LET popped == [c EXCEPT !.heap = @ \ {e}]
        t == c.timers[e[2]]
    IN  CASE e[2] \in c.cancelled -> [popped EXCEPT !.cancelled = @ \ {e[2]}]
          [] e[2] \notin c.cancelled /\ t.gen # e[3] -> popped
          [] OTHER -> CASE t.sched.kind = "once" -> FireOnceAt(popped, e)
                        [] t.sched.kind # "once" /\ t.policy = "all" -> FireAll(popped, e)
                        [] t.sched.kind # "once" /\ t.policy = "once" -> FireOnce(popped, e)
                        [] OTHER -> SkipMissed(popped, e)

EntryBefore(e, f) ==
    \/ e[1] < f[1]
    \/ e[1] = f[1] /\ (e[2] < f[2] \/ (e[2] = f[2] /\ e[3] < f[3]))

DrainDue(c) ==
    LET due == SetToSortSeq({e \in c.heap : e[1] <= c.now}, EntryBefore)
    IN  FoldLeft(Surface, c, due)

(***************************************************************************)
(* The clock's operations.                                                 *)
(***************************************************************************)
\* The first fire of a request, and the schedule kept for it.
Kept(s, now) == IF s.kind # "once" /\ s.start = Never THEN [s EXCEPT !.start = now] ELSE s

FirstFire(s, now) ==
    CASE s.kind = "once" -> s.start
      [] s.kind = "interval" ->
            IF s.start >= now THEN s.start ELSE NextIntervalFireAtOrAfter(s.start, s.every, now)
      [] s.kind = "cron" -> CronAfter(s.times, s.start)

\* An interval that is not positive and a cron expression that does not parse.
InvalidRequest(s) == (s.kind = "interval" /\ s.every <= 0) \/ (s.kind = "cron" /\ s.times = {})

\* register: the key leaves the cancelled set and a generation is used up even
\* when the request turns out to be invalid or to have no occurrence left.
SetTimer(k, q) ==
    LET s == Kept(q.sched, clock.now)
        gen == clock.next
        named == [clock EXCEPT !.next = @ + 1, !.cancelled = @ \ {k}]
        first == FirstFire(s, clock.now)
        invalid == InvalidRequest(q.sched)
        idle == ~invalid /\ (first = Never \/ (s.kind # "once" /\ first > s.end))
    IN  /\ clock.next < MaxRegs
        /\ clock' = IF invalid \/ idle THEN named
                    ELSE [named EXCEPT !.timers[k] = [gen |-> gen, sched |-> s, policy |-> q.policy],
                                       !.heap = @ \cup {<<first, k, gen>>}]
        /\ rang' = [rang EXCEPT !.reg[gen] = [key |-> k, sched |-> s, policy |-> q.policy, from |-> clock.now]]

CancelTimer(k) ==
    /\ clock.timers[k] # NoTimer
    /\ clock' = [clock EXCEPT !.timers[k] = NoTimer, !.cancelled = @ \cup {k}]
    /\ UNCHANGED rang

Rings(h, fires) == [h EXCEPT !.fired = @ \cup Range(fires)]

\* advance_to, TestClock::tick; an earlier time is refused and changes nothing.
AdvanceTo(t) ==
    LET drained == DrainDue([clock EXCEPT !.now = t])
    IN  /\ t >= clock.now
        /\ clock' = [drained EXCEPT !.fires = << >>]
        /\ rang' = Rings(rang, drained.fires)

\* peek_next_fire_ms: the heap entries that still count.
Counts(e) == e[2] \notin clock.cancelled /\ clock.timers[e[2]].gen = e[3]

TcInit == \E menu \in Menus :
    /\ clock = [now |-> 0, heap |-> {}, timers |-> [k \in TimerKeys |-> NoTimer],
                cancelled |-> {}, next |-> 0, fires |-> << >>]
    /\ rang = [fired |-> {}, reg |-> [g \in 0..(MaxRegs - 1) |-> NoTimer], menu |-> menu]

TcNext ==
    \/ \E k \in TimerKeys, q \in rang.menu : SetTimer(k, q)
    \/ \E k \in TimerKeys : CancelTimer(k)
    \/ \E t \in Instants : AdvanceTo(t)

---------------------------------------------------------------------------
(***************************************************************************)
(* Properties                                                              *)
(***************************************************************************)
\* The occurrences of a registration, counted out rather than computed.
Occurrences(r) ==
    CASE r.sched.kind = "once" -> {r.sched.start}
      [] r.sched.kind = "interval" ->
            {t \in r.from..MaxTime : t >= r.sched.start /\ t <= r.sched.end /\ (t - r.sched.start) % r.sched.every = 0}
      [] r.sched.kind = "cron" -> {t \in r.sched.times : t > r.sched.start /\ t <= r.sched.end}

FiredBy(g) == {f.at : f \in {h \in rang.fired : h.gen = g}}

(***************************************************************************)
(* A FireAll timer in force has fired at every occurrence up to now and    *)
(* nowhere else, whatever jumps time made; a cron timer misses some only   *)
(* where one advance passed more than the cap.  And any timer in force is  *)
(* armed: exactly one heap entry counts for it, at an occurrence, so that  *)
(* peek_next_fire_ms names the timers' next one.                           *)
(***************************************************************************)
FireAllComplete ==
    \A k \in TimerKeys : clock.timers[k] # NoTimer =>
        LET g == clock.timers[k].gen
            r == rang.reg[g]
            due == {x \in Occurrences(r) : x < clock.now}
            armed == {e \in clock.heap : Counts(e) /\ e[2] = k}
        IN  /\ FiredBy(g) \subseteq Occurrences(r)
            /\ (r.policy = "all" /\ r.sched.kind = "interval") => due \subseteq FiredBy(g)
            /\ Cardinality(armed) = 1
            /\ \A e \in armed : e[1] \in Occurrences(r) \/ e[1] > MaxTime

=============================================================================
