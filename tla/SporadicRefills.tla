--------------------------- MODULE SporadicRefills ---------------------------
(***************************************************************************)
(* The sporadic server of the MCS kernel (kernel/sporadic.c): the circular *)
(* buffer of refills of one scheduling context, and the kernel entries     *)
(* that charge it, from dispatch to the release queue (kernel/thread.c,    *)
(* kernel/thread.h, object/schedcontext.c, object/schedcontrol.c;          *)
(* uniprocessor, one domain, release build: asserts are compiled out).     *)
(*                                                                         *)
(* The other scheduling contexts are the environment: time passes while    *)
(* they run.  A kernel entry is one step, for interrupts are off.          *)
(***************************************************************************)
EXTENDS Naturals, FiniteSets

CONSTANTS
  Wcet,           \* getKernelWcetTicks()
  MaxRefills,     \* refill_absolute_max of the scheduling context
  Params,         \* the [budget, period, max] that SchedControl_Configure is called with
  MaxLate,        \* by how much an entry can be later than the deadline the timer was set to
  CurSCDeleted,   \* may the context that ran before this one have been deleted: a set of Booleans
  OtherBudget,    \* the largest head refill of any other context
  MaxStep,        \* the longest time that passes between two entries of other threads
  MaxTime         \* bound: time at which the model stops

\* CONFIG_KERNEL_WCET_SCALE is 1.
MIN_BUDGET == 2 * Wcet

MIN_REFILLS == 2

\* What decodeSchedControl_Configure lets through.
ASSUME ParamsAssumption ==
  /\ Wcet \in Nat \ {0} /\ MaxLate \in Nat /\ MaxStep \in Nat \ {0} /\ MaxTime \in Nat
  /\ MaxRefills \in Nat /\ MaxRefills >= MIN_REFILLS /\ CurSCDeleted \subseteq BOOLEAN
  /\ OtherBudget \in Nat
  /\ \A p \in Params : /\ p.budget \in Nat /\ p.budget >= MIN_BUDGET
                       /\ p.period \in Nat /\ p.budget <= p.period
                       /\ p.max \in MIN_REFILLS .. MaxRefills

VARIABLES
  sc,        \* the scheduling context: scPeriod, scRefillHead, scRefillTail, scRefillMax, refills
  place,     \* its thread is "running" (sc = ksCurSC), "ready", in the "release" queue, or "blocked"
  now,       \* ksCurTime
  consumed,  \* ksConsumed, when the thread is running
  deadline,  \* what the timer is set to, when the thread is running
  budget,    \* the budget sc was last configured with
  ran,       \* history: the ticks of the last period in which the thread ran
  timely     \* history: they were run with a timer and a head that belong to sc

vars == <<sc, place, now, consumed, deadline, budget, ran, timely>>

-----------------------------------------------------------------------------
(* The circular buffer *)

refill_next(s, index) == IF index = s.scRefillMax - 1 THEN 0 ELSE index + 1

refill_head(s) == s.refills[s.scRefillHead]

refill_tail(s) == s.refills[s.scRefillTail]

refill_size(s) ==
  IF s.scRefillHead <= s.scRefillTail THEN s.scRefillTail + 1 - s.scRefillHead
  ELSE s.scRefillTail + 1 + (s.scRefillMax - s.scRefillHead)

refill_full(s) == refill_size(s) = s.scRefillMax

refill_single(s) == s.scRefillHead = s.scRefillTail

refill_capacity(s, usage) ==
  IF usage > refill_head(s).rAmount THEN 0 ELSE refill_head(s).rAmount - usage

refill_sufficient(s, usage) == refill_capacity(s, usage) >= MIN_BUDGET

\* A head that is at most Wcet ticks away counts as ready.
refill_ready(s, time) == refill_head(s).rTime <= time + Wcet

isRoundRobin(s) == s.scPeriod = 0

refill_pop_head(s) == [s EXCEPT !.scRefillHead = refill_next(s, @)]

refill_add_tail(s, refill) ==
  LET tail == refill_next(s, s.scRefillTail)
  IN  [s EXCEPT !.scRefillTail = tail, !.refills[tail] = refill]

\* Repeat step while cond holds, at most bound times.
RepeatWhile(s, cond(_), step(_), bound) ==
  LET after[n \in 0 .. bound] ==
        IF n = 0 THEN s
        ELSE LET prev == after[n - 1] IN IF cond(prev) THEN step(prev) ELSE prev
  IN  after[bound]

-----------------------------------------------------------------------------
(* Configuring *)

maybe_add_empty_tail(s, time) ==
  IF isRoundRobin(s) THEN refill_add_tail(s, [rAmount |-> 0, rTime |-> time]) ELSE s

refill_new(s, max_refills, bdgt, period, time) ==
  maybe_add_empty_tail(
    [s EXCEPT !.scPeriod = period, !.scRefillHead = 0, !.scRefillTail = 0,
              !.scRefillMax = max_refills,
              !.refills[0] = [rAmount |-> bdgt, rTime |-> time]], time)

refill_update(s, new_period, new_budget, new_max_refills, time) ==
  LET head == [refill_head(s) EXCEPT !.rTime = IF refill_ready(s, time) THEN time ELSE @]
      s1   == [s EXCEPT !.refills[0] = head, !.scRefillHead = 0, !.scRefillTail = 0,
                        !.scRefillMax = new_max_refills, !.scPeriod = new_period]
  IN  IF head.rAmount >= new_budget
      THEN maybe_add_empty_tail([s1 EXCEPT !.refills[0].rAmount = new_budget], time)
      ELSE refill_add_tail(s1, [rAmount |-> new_budget - head.rAmount,
                                rTime   |-> head.rTime + new_period])

-----------------------------------------------------------------------------
(* Charging *)

Later(a, b) == IF a >= b THEN a ELSE b

\* Schedule a used amount for reuse.
schedule_used(s, new) ==
  LET merged == [s EXCEPT !.refills[s.scRefillTail].rAmount = @ + new.rAmount]
  IN  IF new.rAmount < MIN_BUDGET /\ ~refill_single(s)
      THEN [merged EXCEPT !.refills[s.scRefillTail].rTime = Later(new.rTime, @)]
      ELSE IF new.rTime <= refill_tail(s).rTime THEN merged
           ELSE refill_add_tail(s, new)

\* The head goes into the refill behind it.
mergeHead(s) ==
  LET s1 == refill_pop_head(s)
  IN  [s1 EXCEPT !.refills[s1.scRefillHead].rAmount = @ + refill_head(s).rAmount]

\* Mutant of ensure_sufficient_head: a small head is left unless the buffer is full.
ensure_sufficient_head_SmallKept(s) == RepeatWhile(s, refill_full, mergeHead, MaxRefills)

ensure_sufficient_head(s) ==
  RepeatWhile(s, LAMBDA x : refill_head(x).rAmount < MIN_BUDGET \/ refill_full(x),
              mergeHead, MaxRefills)

\* Mutant of refill_split_check: the remnant is dropped with the popped head.
refill_split_check_RemnantLost(s, usage) ==
  LET head    == refill_head(s)
      remnant == head.rAmount - usage
      new     == [rAmount |-> usage, rTime |-> head.rTime + s.scPeriod]
  IN  IF ~(refill_full(s) \/ remnant < MIN_BUDGET)
      THEN schedule_used([s EXCEPT !.refills[s.scRefillHead].rAmount = remnant], new)
      ELSE IF refill_single(s)
           THEN [s EXCEPT !.refills[s.scRefillHead] = [new EXCEPT !.rAmount = @ + remnant]]
           ELSE ensure_sufficient_head(schedule_used(refill_pop_head(s), new))

\* Charge usage to the head: the remnant stays at the head, or goes into the next
\* refill when it is too small or the buffer is full.
refill_split_check(s, usage) ==
  LET head    == refill_head(s)
      remnant == head.rAmount - usage
      new     == [rAmount |-> usage, rTime |-> head.rTime + s.scPeriod]
      popped  == refill_pop_head(s)
  IN  IF ~(refill_full(s) \/ remnant < MIN_BUDGET)
      THEN schedule_used([s EXCEPT !.refills[s.scRefillHead].rAmount = remnant], new)
      ELSE IF refill_single(s)
           THEN [s EXCEPT !.refills[s.scRefillHead] = [new EXCEPT !.rAmount = @ + remnant]]
           ELSE ensure_sufficient_head(
                  schedule_used([popped EXCEPT !.refills[popped.scRefillHead].rAmount = @ + remnant],
                                new))

\* One round of the loop of refill_budget_check; c has the buffer s and the usage left.
exhaustHead(c) ==
  LET head == refill_head(c.s)
      used == [head EXCEPT !.rTime = @ + c.s.scPeriod]
  IN  [usage |-> c.usage - head.rAmount,
       s     |-> IF refill_single(c.s)
                 THEN [c.s EXCEPT !.refills[c.s.scRefillHead] = used]
                 ELSE schedule_used(refill_pop_head(c.s), used)]

\* The next replenishment is delayed by what was used too much, and takes the one
\* behind it along when the two now overlap.
delayOverrun(s, usage) ==
  LET s1   == [s EXCEPT !.refills[s.scRefillHead].rTime = @ + usage]
      head == refill_head(s1)
      s2   == mergeHead(s1)
  IN  IF /\ ~refill_single(s1)
         /\ head.rTime + head.rAmount >= s1.refills[refill_next(s1, s1.scRefillHead)].rTime
      THEN [s2 EXCEPT !.refills[s2.scRefillHead].rTime = head.rTime]
      ELSE s1

\* Charge a usage that leaves too little at the head, or finds the buffer full.
refill_budget_check(s, usage, time) ==
  LET c1 == IF refill_capacity(s, usage) = 0
            THEN RepeatWhile([s |-> s, usage |-> usage],
                             LAMBDA c : refill_head(c.s).rAmount <= c.usage,
                             exhaustHead, MaxRefills + usage)
            ELSE [s |-> s, usage |-> usage]
      s2 == IF refill_capacity(s, usage) = 0 /\ c1.usage > 0
            THEN delayOverrun(c1.s, c1.usage) ELSE c1.s
      s3 == IF refill_capacity(s2, c1.usage) > 0 /\ refill_ready(s2, time)
            THEN refill_split_check(s2, c1.usage) ELSE s2
  IN  ensure_sufficient_head(s3)

refill_head_overlapping(s) ==
  /\ ~refill_single(s)
  /\ s.refills[refill_next(s, s.scRefillHead)].rTime <= refill_head(s).rTime + refill_head(s).rAmount



\* A thread that is about to run may use its ready refills from now on.
refill_unblock_check(s, time) ==
  LET moved(x) == [x EXCEPT !.refills[x.scRefillHead].rTime = time]
  IN  IF isRoundRobin(s) \/ ~refill_ready(s, time) THEN s
      ELSE RepeatWhile(moved(s), refill_head_overlapping, LAMBDA x : moved(mergeHead(x)), MaxRefills)

-----------------------------------------------------------------------------
(* Kernel entries *)

Blank == [rAmount |-> 0, rTime |-> 0]

Inactive == [scPeriod |-> 0, scRefillHead |-> 0, scRefillTail |-> 0, scRefillMax |-> 0,
             refills |-> [i \in 0 .. MaxRefills - 1 |-> Blank]]

\* invokeSchedControl_Configure: s is active if its thread is runnable.
configured(s, p, active, time) ==
  IF p.budget = p.period THEN refill_new(s, MIN_REFILLS, p.budget, 0, time)
  ELSE IF active THEN refill_update(s, p.period, p.budget, p.max, time)
       ELSE refill_new(s, p.max, p.budget, p.period, time)

Init ==
  /\ \E p \in Params : /\ sc = configured(Inactive, p, FALSE, 0)
                       /\ budget = p.budget
  /\ place = "ready"
  /\ now = 0
  /\ consumed = 0
  /\ deadline = 0
  /\ ran = {}
  /\ timely = TRUE

\* The ticks of the last period, when the thread has just run from now on for d.
RanFor(d) == {x \in ran \cup (now .. now + d - 1) : x + sc.scPeriod >= now + d}

\* updateTimestamp at an entry from the running thread, d ticks after the last: at
\* the latest when the timer interrupts.
EntryAfter(d) ==
  /\ place = "running"
  /\ now + d <= MaxTime
  /\ now + d <= deadline + MaxLate
  /\ now' = now + d

\* The timer interrupts when the head of the running thread's context is used up (or
\* before, for the release queue: an entry may come at any time before the deadline).
setNextInterrupt == deadline' = IF place' = "running" THEN now' + refill_head(sc').rAmount ELSE 0

checkBudget(usage) ==
  /\ refill_capacity(sc, usage) >= MIN_BUDGET
  /\ isRoundRobin(sc) \/ ~refill_full(sc)

\* commitTime when usage > 0.
commitTime(s, usage) ==
  IF isRoundRobin(s)
  THEN [s EXCEPT !.refills[s.scRefillHead].rAmount = @ - usage,
                 !.refills[s.scRefillTail].rAmount = @ + usage]
  ELSE refill_split_check(s, usage)

chargeBudget(s, usage, time) ==
  IF isRoundRobin(s)
  THEN [s EXCEPT !.refills[s.scRefillHead].rAmount = @ + refill_tail(s).rAmount,
                 !.refills[s.scRefillTail].rAmount = 0]
  ELSE refill_budget_check(s, usage, time)

released(s, time) == refill_ready(s, time) /\ refill_sufficient(s, 0)

\* schedContext_resume and the wake-up that follows: the thread of s may run, and
\* is put in one of the given places, or has to wait in the release queue.
resumeTo(s, time, places) == place' \in IF released(s, time) THEN places ELSE {"release"}

\* The slice is over: the thread is appended to its ready queue and perhaps chosen
\* again, or waits in the release queue, or a timeout fault blocks it.
endTimeslice(canTimeoutFault) ==
  \/ canTimeoutFault /\ ~isRoundRobin(sc) /\ place' = "blocked"
  \/ resumeTo(sc', now', {"ready", "running"})

\* An entry that finds the budget used up, or the buffer full.
BudgetExpired(d) ==
  /\ EntryAfter(d)
  /\ ~checkBudget(consumed + d)
  /\ sc' = chargeBudget(sc, consumed + d, now')
  /\ endTimeslice(TRUE)
  /\ setNextInterrupt
  /\ consumed' = 0
  /\ ran' = RanFor(d)
  /\ UNCHANGED <<budget, timely>>

\* A system call after which the thread runs on, with nothing to reprogram.
RunOn(d) ==
  /\ EntryAfter(d)
  /\ checkBudget(consumed + d)
  /\ consumed' = consumed + d
  /\ ran' = RanFor(d)
  /\ UNCHANGED <<sc, place, deadline, budget, timely>>

\* An entry after which the time is charged: the timer is reprogrammed, the thread
\* is preempted, or it blocks.
Commit(d) ==
  /\ EntryAfter(d)
  /\ checkBudget(consumed + d)
  /\ sc' = commitTime(sc, consumed + d)
  /\ place' \in {"running", "ready", "blocked"}
  /\ setNextInterrupt
  /\ consumed' = 0
  /\ ran' = RanFor(d)
  /\ UNCHANGED <<budget, timely>>

\* handleYield charges the whole head.
Yield(d) ==
  /\ EntryAfter(d)
  /\ checkBudget(consumed + d)
  /\ sc' = chargeBudget(sc, refill_head(sc).rAmount, now')
  /\ endTimeslice(FALSE)
  /\ setNextInterrupt
  /\ consumed' = 0
  /\ ran' = RanFor(d)
  /\ UNCHANGED <<budget, timely>>

\* "over new_period, new_budget should not be exceeded even temporarily": what has
\* run counts on when an active context is given no less budget and no more period.
keepsHistory(p, active) ==
  active /\ p.budget < p.period /\ p.budget >= budget /\ p.period <= sc.scPeriod

\* The thread configures its own scheduling context.  When it runs on, the timer is
\* set again only if something else asks for it (awaken): nothing here sets
\* ksReprogram, and switchSchedContext sees the context that was current before.
ConfigureSelf(d, p) ==
  /\ EntryAfter(d)
  /\ checkBudget(consumed + d)
  /\ sc' = configured(commitTime(sc, consumed + d), p, TRUE, now')
  /\ resumeTo(sc', now', {"ready", "running"})
  /\ setNextInterrupt \/ (place' = "running" /\ UNCHANGED deadline)
  /\ consumed' = 0
  /\ ran' = IF keepsHistory(p, TRUE) THEN RanFor(d) ELSE {}
  /\ budget' = p.budget
  /\ timely' = /\ keepsHistory(p, TRUE) => timely
               /\ place' = "running" => deadline' <= now' + refill_head(sc').rAmount

-----------------------------------------------------------------------------
(* Entries of other threads *)

\* Time passes; awaken() looks at the release queue.
Elapse(d) ==
  /\ place # "running"
  /\ now + d <= MaxTime
  /\ now' = now + d
  /\ place' = IF place = "release" /\ refill_ready(sc, now') THEN "ready" ELSE place
  /\ ran' = {x \in ran : x + sc.scPeriod >= now'}
  /\ UNCHANGED <<sc, consumed, deadline, budget, timely>>

\* switchSchedContext from another context: what that one used is charged to it.
Dispatch ==
  /\ FALSE \in CurSCDeleted
  /\ place = "ready"
  /\ place' = "running"
  /\ UNCHANGED <<now, consumed, budget, ran, timely>>
  /\ sc' = refill_unblock_check(sc, now)
  /\ setNextInterrupt

\* switchSchedContext from a context whose last cap has just been deleted, which is
\* inactive (scRefillMax = 0): no refill_unblock_check, and unless something else sets
\* ksReprogram (awaken) the time that one used and the timer set for it are left.
DispatchAfterDeleted ==
  /\ TRUE \in CurSCDeleted
  /\ place = "ready"
  /\ place' = "running"
  /\ UNCHANGED <<sc, now, budget, ran>>
  /\ \/ setNextInterrupt /\ consumed' = 0
     \/ \E used \in 1 .. OtherBudget : \E left \in MIN_BUDGET .. OtherBudget - used :
          deadline' = now + left /\ consumed' = used
  /\ timely' = FALSE

\* A blocked thread is restarted, or is sent what it waits for.
Wake ==
  /\ place = "blocked"
  /\ resumeTo(sc, now, {"ready"})
  /\ UNCHANGED <<sc, now, consumed, deadline, budget, ran, timely>>

Suspend ==
  /\ place \in {"ready", "release"}
  /\ place' = "blocked"
  /\ UNCHANGED <<sc, now, consumed, deadline, budget, ran, timely>>

ConfigureOther(p) ==
  /\ place # "running"
  /\ sc' = configured(sc, p, place # "blocked", now)
  /\ IF place = "blocked" THEN UNCHANGED place ELSE resumeTo(sc', now, {"ready"})
  /\ ran' = IF keepsHistory(p, place # "blocked") THEN ran ELSE {}
  /\ budget' = p.budget
  /\ timely' = (keepsHistory(p, place # "blocked") => timely)
  /\ UNCHANGED <<now, consumed, deadline>>

Next ==
  \/ \E d \in 1 .. MaxTime : BudgetExpired(d) \/ RunOn(d) \/ Commit(d) \/ Yield(d)
  \/ \E d \in 1 .. MaxTime, p \in Params : ConfigureSelf(d, p)
  \/ \E d \in 1 .. MaxStep : Elapse(d)
  \/ Dispatch \/ DispatchAfterDeleted \/ Wake \/ Suspend
  \/ \E p \in Params : ConfigureOther(p)

Spec == Init /\ [][Next]_vars

=============================================================================
