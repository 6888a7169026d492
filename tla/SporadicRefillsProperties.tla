---------------------- MODULE SporadicRefillsProperties ----------------------
(***************************************************************************)
(* What a sporadic server promises.                                        *)
(***************************************************************************)
EXTENDS SporadicRefills

\* Slot j of the buffer is between the head and the tail.
inUse(s, j) ==
  IF s.scRefillHead <= s.scRefillTail THEN s.scRefillHead <= j /\ j <= s.scRefillTail
  ELSE j <= s.scRefillTail \/ (s.scRefillHead <= j /\ j < s.scRefillMax)

Slots == 0 .. MaxRefills - 1

\* What each slot of the buffer is worth.
amounts(s) == [j \in Slots |-> IF inUse(s, j) THEN s.refills[j].rAmount ELSE 0]

Total(w) ==
  LET sum[n \in 0 .. MaxRefills] == IF n = 0 THEN 0 ELSE sum[n - 1] + w[n - 1]
  IN  sum[MaxRefills]

\* refill_sum of REFILL_SANITY_CHECK, after every entry.  sporadic.h: "The sum of all
\* refill amounts in the refill queue is always the budget of the scheduling context":
\* no merge, split, forfeit or truncation of the buffer loses budget or makes some, and
\* the head and the tail stay inside the buffer.
RefillSanity ==
  /\ {sc.scRefillHead, sc.scRefillTail} \subseteq 0 .. sc.scRefillMax - 1
  /\ Total(amounts(sc)) = budget


\* "threads HEAD refill should always be > MIN_BUDGET" (awaken): after every charge
\* and merge the head is enough to get through a kernel entry, or the thread would
\* be released and could not run.
HeadSufficient == refill_head(sc).rAmount >= MIN_BUDGET

\* sporadic.h: "No thread is allowed to consume more than amount ticks per period": in
\* no window of a period does the thread run for more than its budget, however it
\* blocks, yields, is preempted or reconfigured, but for the ticks by which an entry
\* is late and the Wcet by which refill_ready lets a refill be early.
BudgetPerPeriod ==
  sc.scPeriod > 0 => Cardinality({x \in ran : x + sc.scPeriod >= now}) <= budget + Wcet + MaxLate


=============================================================================
