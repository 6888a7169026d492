------------------------ MODULE SporadicRefillsProofs ------------------------
(***************************************************************************)
(* Proofs about the sporadic server, for any budgets, periods and sizes of *)
(* the buffer, and any lateness of the timer: the refills always sum to    *)
(* the budget, and the head is always enough to get through the kernel.    *)
(***************************************************************************)
EXTENDS SporadicRefillsProperties, Induction

-----------------------------------------------------------------------------
(* Loops and sums *)

\* What the buffer and the budgets are bounded by.
LEMMA Sizes ==
  /\ MaxRefills \in Nat /\ MaxRefills >= 2 /\ Wcet \in Nat /\ MIN_BUDGET \in Nat /\ MIN_BUDGET > 0
  /\ \A p \in Params : /\ p.budget \in Nat /\ p.budget >= MIN_BUDGET
                       /\ p.period \in Nat /\ p.budget <= p.period
                       /\ p.max \in 2 .. MaxRefills
BY ParamsAssumption DEF MIN_BUDGET, MIN_REFILLS

Worth == [Slots -> Nat]

\* The partial sums of w.
Sums(w, sum) ==
  /\ sum \in [0 .. MaxRefills -> Nat]
  /\ sum[0] = 0
  /\ \A n \in 1 .. MaxRefills : sum[n] = sum[n - 1] + w[n - 1]

\* The total is the last partial sum.
LEMMA TotalSums ==
  ASSUME NEW w \in Worth
  PROVE  \E sum : Sums(w, sum) /\ Total(w) = sum[MaxRefills]
<1> DEFINE F == [p \in (1 .. MaxRefills) \X Nat |-> p[2] + w[p[1] - 1]]
           rhs(f) == [n \in 0 .. MaxRefills |-> IF n = 0 THEN 0 ELSE f[n - 1] + w[n - 1]]
           sum == CHOOSE f : f = rhs(f)
<1>0. MaxRefills \in Nat
  BY Sizes
<1>1. \A n \in 1 .. MaxRefills : n - 1 \in Slots /\ w[n - 1] \in Nat
  BY <1>0 DEF Worth, Slots
<1>2. F \in [(1 .. MaxRefills) \X Nat -> Nat]
  BY <1>1
<1>3. \A n \in 1 .. MaxRefills : \A x \in Nat : F[<<n, x>>] = x + w[n - 1]
  OBVIOUS
<1> HIDE DEF F
<1>4. PICK g \in [0 .. MaxRefills -> Nat] :
        Recursion(MaxRefills, F, 0, g)
  BY <1>0, <1>2, Iterates
<1>5. g = rhs(g)
  <2>1. \A n \in 0 .. MaxRefills : n # 0 => n \in 1 .. MaxRefills /\ n - 1 \in 0 .. MaxRefills
    BY <1>0
  <2>2. \A n \in 0 .. MaxRefills : n # 0 => F[<<n, g[n - 1]>>] = g[n - 1] + w[n - 1]
    BY <2>1, <1>3
  <2> QED BY <1>4, <2>2 DEF Recursion
<1>6. sum = rhs(sum)
  <2> HIDE DEF rhs
  <2> QED BY <1>5
<1>7. Total(w) = sum[MaxRefills]
  BY DEF Total
<1> HIDE DEF sum
<1>8. /\ sum = [n \in 0 .. MaxRefills |-> sum[n]]
      /\ sum[0] = 0
      /\ \A n \in 1 .. MaxRefills : sum[n] = sum[n - 1] + w[n - 1]
  <2>1. \A n \in 0 .. MaxRefills : sum[n] = IF n = 0 THEN 0 ELSE sum[n - 1] + w[n - 1]
    BY <1>6
  <2>2. \A n \in 1 .. MaxRefills : n \in 0 .. MaxRefills /\ n # 0
    BY <1>0
  <2>3. 0 \in 0 .. MaxRefills
    BY <1>0
  <2>4. sum = [n \in 0 .. MaxRefills |-> sum[n]]
    BY <1>6
  <2> QED BY <2>1, <2>2, <2>3, <2>4
<1>9. \A n \in 0 .. MaxRefills : sum[n] \in Nat
  <2> DEFINE G == {n \in Nat : sum[n] \in Nat}
  <2>1. 0 \in G
    BY <1>8
  <2>2. ASSUME NEW n \in 1 .. MaxRefills, n - 1 \in G PROVE n \in G
    <3>1. sum[n - 1] \in Nat
      BY <2>2
    <3>2. w[n - 1] \in Nat /\ sum[n] = sum[n - 1] + w[n - 1]
      BY <1>8, <1>1
    <3> QED BY <3>1, <3>2
  <2>3. \A n \in 0 .. MaxRefills : n \in G
    <3> HIDE DEF G
    <3> QED BY <2>1, <2>2, <1>0, UpTo
  <2> QED BY <2>3
<1> QED BY <1>7, <1>8, <1>9 DEF Sums

\* A total is a number, no less than any of its parts.
LEMMA TotalType ==
  ASSUME NEW w \in Worth
  PROVE  Total(w) \in Nat
BY TotalSums, Sizes DEF Sums

\* The total of nothing.
LEMMA TotalZero ==
  ASSUME NEW w \in Worth, \A j \in Slots : w[j] = 0
  PROVE  Total(w) = 0
<1>1. PICK sum : Sums(w, sum) /\ Total(w) = sum[MaxRefills]
  BY TotalSums
<1> DEFINE G == {n \in Nat : sum[n] = 0}
<1>0. MaxRefills \in Nat
  BY Sizes
<1>2. 0 \in G
  BY <1>1 DEF Sums
<1>3. ASSUME NEW n \in 1 .. MaxRefills, n - 1 \in G PROVE n \in G
  <2>1. n - 1 \in Slots /\ n \in Nat
    BY <1>0 DEF Slots
  <2>2. sum[n] = sum[n - 1] + w[n - 1] /\ sum[n - 1] = 0 /\ w[n - 1] = 0
    BY <1>1, <1>3, <2>1 DEF Sums
  <2> QED BY <2>1, <2>2
<1>4. \A n \in 0 .. MaxRefills : n \in G
  <2> HIDE DEF G
  <2> QED BY <1>0, <1>2, <1>3, UpTo
<1> QED BY <1>0, <1>1, <1>4

\* Changing one part changes the total by as much.
LEMMA TotalUpdate ==
  ASSUME NEW w \in Worth, NEW v \in Worth, NEW k \in Slots,
         \A j \in Slots : j # k => v[j] = w[j]
  PROVE  Total(v) = Total(w) - w[k] + v[k]
<1>1. PICK sum : Sums(w, sum) /\ Total(w) = sum[MaxRefills]
  BY TotalSums
<1>2. PICK tot : Sums(v, tot) /\ Total(v) = tot[MaxRefills]
  BY TotalSums
<1> DEFINE G == {n \in Nat : tot[n] = IF n <= k THEN sum[n] ELSE sum[n] - w[k] + v[k]}
<1>0. /\ MaxRefills \in Nat /\ k \in Nat /\ k < MaxRefills /\ w[k] \in Nat /\ v[k] \in Nat
      /\ \A n \in 1 .. MaxRefills : n - 1 \in Slots
      /\ \A n \in 0 .. MaxRefills : sum[n] \in Nat /\ tot[n] \in Nat
      /\ \A j \in Slots : w[j] \in Nat
  <2>1. w[k] \in Nat /\ v[k] \in Nat /\ \A j \in Slots : w[j] \in Nat
    BY DEF Worth
  <2>2. \A n \in 0 .. MaxRefills : sum[n] \in Nat /\ tot[n] \in Nat
    BY <1>1, <1>2 DEF Sums
  <2>3. MaxRefills \in Nat /\ k \in Nat /\ k < MaxRefills /\ \A n \in 1 .. MaxRefills : n - 1 \in Slots
    BY Sizes DEF Slots
  <2> QED BY <2>1, <2>2, <2>3
<1>3. 0 \in G
  BY <1>0, <1>1, <1>2 DEF Sums
<1>4. ASSUME NEW n \in 1 .. MaxRefills, n - 1 \in G PROVE n \in G
  <2>1. /\ sum[n] = sum[n - 1] + w[n - 1] /\ tot[n] = tot[n - 1] + v[n - 1]
        /\ n - 1 \in Slots /\ n - 1 \in 0 .. MaxRefills /\ n \in 0 .. MaxRefills
    BY <1>0, <1>1, <1>2 DEF Sums
  <2>2. tot[n - 1] = IF n - 1 <= k THEN sum[n - 1] ELSE sum[n - 1] - w[k] + v[k]
    BY <1>4
  <2>3. CASE n - 1 = k
    BY <1>0, <2>1, <2>2, <2>3
  <2>4. CASE n - 1 # k
    BY <1>0, <2>1, <2>2, <2>4
  <2> QED BY <2>3, <2>4
<1>5. \A n \in 0 .. MaxRefills : n \in G
  <2> HIDE DEF G
  <2> QED BY <1>0, <1>3, <1>4, UpTo
<1> QED BY <1>0, <1>1, <1>2, <1>5

-----------------------------------------------------------------------------
(* The circular buffer *)

Refills == [rAmount : Nat, rTime : Nat]

Contexts == [scPeriod : Nat, scRefillHead : Nat, scRefillTail : Nat, scRefillMax : Nat,
             refills : [Slots -> Refills]]

Buffer(s) ==
  /\ s \in Contexts
  /\ s.scRefillMax \in 2 .. MaxRefills
  /\ s.scRefillHead < s.scRefillMax /\ s.scRefillTail < s.scRefillMax

Sum(s) == Total(amounts(s))

\* What slot j counts for.
worth(s, j) == IF inUse(s, j) THEN s.refills[j].rAmount ELSE 0

\* The fields of a buffer.
LEMMA BufferFields ==
  ASSUME NEW s, Buffer(s)
  PROVE  /\ s \in Contexts /\ s.scPeriod \in Nat
         /\ s.scRefillHead \in Nat /\ s.scRefillTail \in Nat /\ s.scRefillMax \in Nat
         /\ s.scRefillHead \in Slots /\ s.scRefillTail \in Slots
         /\ s.scRefillHead < s.scRefillMax /\ s.scRefillTail < s.scRefillMax
         /\ 2 <= s.scRefillMax /\ s.scRefillMax <= MaxRefills
         /\ \A j \in Slots : s.refills[j] \in Refills /\ s.refills[j].rAmount \in Nat /\ s.refills[j].rTime \in Nat
         /\ refill_head(s) \in Refills /\ refill_head(s).rAmount \in Nat /\ refill_head(s).rTime \in Nat
         /\ refill_tail(s) \in Refills /\ refill_tail(s).rAmount \in Nat /\ refill_tail(s).rTime \in Nat
<1>1. /\ s \in Contexts /\ s.scPeriod \in Nat
      /\ s.scRefillHead \in Nat /\ s.scRefillTail \in Nat /\ s.scRefillMax \in Nat
      /\ s.refills \in [Slots -> Refills]
      /\ s.scRefillHead < s.scRefillMax /\ s.scRefillTail < s.scRefillMax
  BY DEF Buffer, Contexts
<1>2. 2 <= s.scRefillMax /\ s.scRefillMax <= MaxRefills
  BY Sizes DEF Buffer
<1>3. s.scRefillHead \in Slots /\ s.scRefillTail \in Slots
  BY <1>1, <1>2, Sizes DEF Slots
<1>4. \A j \in Slots : s.refills[j] \in Refills /\ s.refills[j].rAmount \in Nat /\ s.refills[j].rTime \in Nat
  BY <1>1 DEF Refills
<1> QED BY <1>1, <1>2, <1>3, <1>4 DEF refill_head, refill_tail

\* What the slots are worth.
LEMMA AmountsType ==
  ASSUME NEW s, Buffer(s)
  PROVE  /\ amounts(s) \in Worth
         /\ \A j \in Slots : amounts(s)[j] = worth(s, j) /\ worth(s, j) \in Nat
         /\ Sum(s) \in Nat
<1>1. amounts(s) \in Worth
  BY BufferFields DEF amounts, Worth
<1>2. \A j \in Slots : amounts(s)[j] = worth(s, j) /\ worth(s, j) \in Nat
  BY BufferFields DEF amounts, worth
<1> QED BY <1>1, <1>2, TotalType DEF Sum

\* Two buffers that differ in what one slot is worth.
LEMMA SumOne ==
  ASSUME NEW s, NEW t, Buffer(s), Buffer(t), NEW k \in Slots,
         \A j \in Slots : j # k => worth(t, j) = worth(s, j)
  PROVE  Sum(t) = Sum(s) - worth(s, k) + worth(t, k)
<1>1. amounts(s) \in Worth /\ amounts(t) \in Worth
  BY AmountsType
<1>2. \A j \in Slots : amounts(s)[j] = worth(s, j) /\ amounts(t)[j] = worth(t, j)
  BY AmountsType
<1>3. Total(amounts(t)) = Total(amounts(s)) - amounts(s)[k] + amounts(t)[k]
  BY <1>1, <1>2, TotalUpdate
<1> QED BY <1>2, <1>3 DEF Sum

\* The only refill is the budget.
LEMMA SumSingle ==
  ASSUME NEW s, Buffer(s), refill_single(s)
  PROVE  Sum(s) = refill_head(s).rAmount
<1> DEFINE k == s.scRefillHead
           z == [j \in Slots |-> 0]
<1>1. z \in Worth /\ amounts(s) \in Worth /\ k \in Slots /\ k \in Nat
  BY AmountsType, BufferFields DEF Worth
<1>2. \A j \in Slots : j # k => amounts(s)[j] = 0
  <2>1. \A j \in Slots : j \in Nat
    BY DEF Slots
  <2> QED BY <1>1, <2>1 DEF amounts, inUse, refill_single
<1>3. amounts(s)[k] = refill_head(s).rAmount /\ refill_head(s).rAmount \in Nat
  BY <1>1, BufferFields DEF amounts, inUse, refill_single, refill_head
<1>4. Total(z) = 0
  BY <1>1, TotalZero
<1>5. Total(amounts(s)) = Total(z) - z[k] + amounts(s)[k]
  <2> \A j \in Slots : j # k => amounts(s)[j] = z[j]
    BY <1>2
  <2> HIDE DEF z, k
  <2> QED BY <1>1, TotalUpdate
<1> QED BY <1>1, <1>3, <1>4, <1>5 DEF Sum

Frame(s, t) ==
  /\ t.scPeriod = s.scPeriod /\ t.scRefillMax = s.scRefillMax
  /\ t.scRefillHead = s.scRefillHead /\ t.scRefillTail = s.scRefillTail

\* t is s with the amount v in slot k.
AmountSet(s, k, v, t) ==
  /\ Buffer(t) /\ Frame(s, t)
  /\ Sum(t) = Sum(s) - s.refills[k].rAmount + v
  /\ t.refills[k].rAmount = v
  /\ \A j \in Slots : j # k => t.refills[j] = s.refills[j]

\* The amount of one refill is set.
LEMMA SetAmount ==
  ASSUME NEW s, Buffer(s), NEW k \in Slots, inUse(s, k), NEW v \in Nat,
         NEW t, t = [s EXCEPT !.refills[k].rAmount = v]
  PROVE  AmountSet(s, k, v, t)
<1>1. s \in Contexts /\ \A j \in Slots : s.refills[j] \in Refills
  BY BufferFields
<1>2. t \in Contexts
  BY <1>1 DEF Contexts, Refills
<1>3. Frame(s, t)
  BY <1>1 DEF Contexts, Frame
<1>4. /\ t.refills[k].rAmount = v
      /\ \A j \in Slots : j # k => t.refills[j] = s.refills[j]
  BY <1>1 DEF Contexts, Refills
<1>5. Buffer(t)
  BY <1>2, <1>3 DEF Buffer, Frame
<1>6. \A j \in Slots : inUse(t, j) <=> inUse(s, j)
  BY <1>3 DEF inUse, Frame
<1>7. \A j \in Slots : j # k => worth(t, j) = worth(s, j)
  BY <1>4, <1>6 DEF worth
<1>8. worth(s, k) = s.refills[k].rAmount /\ worth(t, k) = v
  BY <1>4, <1>6 DEF worth
<1>9. Sum(t) = Sum(s) - worth(s, k) + worth(t, k)
  BY <1>5, <1>7, SumOne
<1> QED BY <1>3, <1>4, <1>5, <1>8, <1>9 DEF AmountSet

\* The time of one refill is set.
LEMMA SetTime ==
  ASSUME NEW s, Buffer(s), NEW k \in Slots, NEW v \in Nat,
         NEW t, t = [s EXCEPT !.refills[k].rTime = v]
  PROVE  /\ Buffer(t) /\ Frame(s, t) /\ Sum(t) = Sum(s)
         /\ \A j \in Slots : t.refills[j].rAmount = s.refills[j].rAmount
<1>1. s \in Contexts /\ \A j \in Slots : s.refills[j] \in Refills
  BY BufferFields
<1>2. t \in Contexts
  BY <1>1 DEF Contexts, Refills
<1>3. Frame(s, t)
  BY <1>1 DEF Contexts, Frame
<1>4. \A j \in Slots : t.refills[j].rAmount = s.refills[j].rAmount
  BY <1>1 DEF Contexts, Refills
<1>5. Buffer(t)
  BY <1>2, <1>3 DEF Buffer, Frame
<1>6. \A j \in Slots : worth(t, j) = worth(s, j)
  BY <1>3, <1>4 DEF inUse, Frame, worth
<1>7. worth(s, k) \in Nat /\ Sum(s) \in Nat
  BY AmountsType
<1>8. Sum(t) = Sum(s) - worth(s, k) + worth(t, k)
  BY <1>5, <1>6, SumOne
<1> QED BY <1>3, <1>4, <1>5, <1>6, <1>7, <1>8

\* The head and the tail are in use.
LEMMA EndsInUse ==
  ASSUME NEW s, Buffer(s)
  PROVE  inUse(s, s.scRefillHead) /\ inUse(s, s.scRefillTail)
BY BufferFields DEF inUse

\* The slot behind another.
LEMMA NextSlot ==
  ASSUME NEW s, Buffer(s), NEW i \in Nat, i < s.scRefillMax
  PROVE  refill_next(s, i) \in Slots /\ refill_next(s, i) < s.scRefillMax /\ refill_next(s, i) # i
BY BufferFields, Sizes DEF refill_next, Slots

\* The size of a buffer, of one with a single refill and of a full one.
LEMMA SizeType ==
  ASSUME NEW s, Buffer(s)
  PROVE  /\ refill_size(s) \in Nat /\ 1 <= refill_size(s) /\ refill_size(s) <= s.scRefillMax
         /\ refill_single(s) <=> refill_size(s) = 1
BY BufferFields DEF refill_size, refill_single

\* Popping the head of a buffer takes its amount away.
LEMMA PopHead ==
  ASSUME NEW s, Buffer(s), ~refill_single(s)
  PROVE  /\ Buffer(refill_pop_head(s)) /\ ~refill_full(refill_pop_head(s))
         /\ Sum(refill_pop_head(s)) = Sum(s) - refill_head(s).rAmount
         /\ refill_size(refill_pop_head(s)) = refill_size(s) - 1
         /\ refill_pop_head(s).scPeriod = s.scPeriod /\ refill_pop_head(s).scRefillMax = s.scRefillMax
         /\ refill_pop_head(s).scRefillTail = s.scRefillTail
         /\ refill_pop_head(s).scRefillHead = refill_next(s, s.scRefillHead)
         /\ refill_pop_head(s).refills = s.refills
<1> DEFINE t == refill_pop_head(s)
           k == s.scRefillHead
<1>1. s \in Contexts /\ k \in Nat /\ k < s.scRefillMax /\ k \in Slots
  BY BufferFields
<1>2. refill_next(s, k) \in Nat /\ refill_next(s, k) < s.scRefillMax
  BY <1>1, NextSlot DEF Slots
<1>3. /\ t \in Contexts
      /\ t.scPeriod = s.scPeriod /\ t.scRefillMax = s.scRefillMax
      /\ t.scRefillTail = s.scRefillTail /\ t.scRefillHead = refill_next(s, k)
      /\ t.refills = s.refills
  BY <1>1, <1>2 DEF Contexts, refill_pop_head
<1> HIDE DEF t
<1>4. Buffer(t)
  BY <1>2, <1>3 DEF Buffer
<1>5. \A j \in Slots : j # k => (inUse(t, j) <=> inUse(s, j))
  <2> SUFFICES ASSUME NEW j \in Slots, j # k PROVE inUse(t, j) <=> inUse(s, j)
    OBVIOUS
  <2>1. j \in Nat
    BY DEF Slots
  <2> QED BY <1>1, <1>3, <2>1, BufferFields DEF inUse, refill_next, refill_single
<1>6. ~inUse(t, k) /\ inUse(s, k)
  BY <1>1, <1>3, BufferFields DEF inUse, refill_next, refill_single
<1>7. \A j \in Slots : j # k => worth(t, j) = worth(s, j)
  BY <1>3, <1>5 DEF worth
<1>8. worth(s, k) = refill_head(s).rAmount /\ worth(t, k) = 0 /\ refill_head(s).rAmount \in Nat /\ Sum(s) \in Nat
  BY <1>6, BufferFields, AmountsType DEF worth, refill_head
<1>9. Sum(t) = Sum(s) - worth(s, k) + worth(t, k)
  BY <1>1, <1>4, <1>7, SumOne
<1>10. refill_size(t) = refill_size(s) - 1 /\ ~refill_full(t)
  <2>1. refill_size(t) = refill_size(s) - 1
    BY <1>1, <1>3, BufferFields DEF refill_size, refill_next, refill_single
  <2> QED BY <1>3, <2>1, SizeType, BufferFields DEF refill_full
<1> QED BY <1>3, <1>4, <1>8, <1>9, <1>10 DEF t

\* A refill that is added at the tail of a buffer that is not full adds its amount.
LEMMA AddTail ==
  ASSUME NEW s, Buffer(s), ~refill_full(s), NEW r \in Refills
  PROVE  /\ Buffer(refill_add_tail(s, r))
         /\ Sum(refill_add_tail(s, r)) = Sum(s) + r.rAmount
         /\ refill_add_tail(s, r).scPeriod = s.scPeriod /\ refill_add_tail(s, r).scRefillMax = s.scRefillMax
         /\ refill_add_tail(s, r).scRefillHead = s.scRefillHead
         /\ refill_add_tail(s, r).scRefillTail = refill_next(s, s.scRefillTail)
         /\ refill_head(refill_add_tail(s, r)) = refill_head(s)
<1> DEFINE t == refill_add_tail(s, r)
           k == refill_next(s, s.scRefillTail)
<1>1. s \in Contexts /\ s.scRefillTail \in Nat /\ s.scRefillTail < s.scRefillMax
  BY BufferFields
<1>2. k \in Slots /\ k < s.scRefillMax /\ k \in Nat
  BY <1>1, NextSlot DEF Slots
<1>3. /\ t \in Contexts
      /\ t.scPeriod = s.scPeriod /\ t.scRefillMax = s.scRefillMax
      /\ t.scRefillHead = s.scRefillHead /\ t.scRefillTail = k
      /\ t.refills[k] = r /\ \A j \in Slots : j # k => t.refills[j] = s.refills[j]
  <2> HIDE DEF k
  <2>1. t = [s EXCEPT !.scRefillTail = k, !.refills[k] = r]
    BY DEF refill_add_tail, k
  <2> HIDE DEF t
  <2> QED BY <1>1, <1>2, <2>1 DEF Contexts
<1> HIDE DEF t
<1>4. Buffer(t)
  BY <1>2, <1>3 DEF Buffer
<1>5. \A j \in Slots : j # k => (inUse(t, j) <=> inUse(s, j))
  <2> SUFFICES ASSUME NEW j \in Slots, j # k PROVE inUse(t, j) <=> inUse(s, j)
    OBVIOUS
  <2>1. j \in Nat
    BY DEF Slots
  <2> QED BY <1>1, <1>3, <2>1, BufferFields DEF inUse, refill_next, refill_full, refill_size
<1>6. ~inUse(s, k) /\ inUse(t, k)
  BY <1>1, <1>2, <1>3, BufferFields DEF inUse, refill_next, refill_full, refill_size
<1>7. \A j \in Slots : j # k => worth(t, j) = worth(s, j)
  BY <1>3, <1>5 DEF worth
<1>8. worth(s, k) = 0 /\ worth(t, k) = r.rAmount /\ r.rAmount \in Nat /\ Sum(s) \in Nat
  BY <1>3, <1>6, AmountsType DEF worth, Refills
<1>9. Sum(t) = Sum(s) - worth(s, k) + worth(t, k)
  BY <1>2, <1>4, <1>7, SumOne
<1>10. refill_head(t) = refill_head(s)
  <2>1. s.scRefillHead # k
    BY <1>6, EndsInUse
  <2> QED BY <1>3, <2>1, BufferFields DEF refill_head
<1> QED BY <1>3, <1>4, <1>8, <1>9, <1>10 DEF t

\* t is s with its refills merged, split or moved: the budget is still all there.
Kept(s, t) ==
  /\ Buffer(t) /\ Sum(t) = Sum(s)
  /\ t.scPeriod = s.scPeriod /\ t.scRefillMax = s.scRefillMax

\* What is scheduled for reuse is added to the buffer, and nothing is taken from the head.
LEMMA ScheduleUsed ==
  ASSUME NEW s, Buffer(s), ~refill_full(s), NEW new \in Refills
  PROVE  /\ Buffer(schedule_used(s, new))
         /\ Sum(schedule_used(s, new)) = Sum(s) + new.rAmount
         /\ schedule_used(s, new).scPeriod = s.scPeriod
         /\ schedule_used(s, new).scRefillMax = s.scRefillMax
         /\ refill_head(schedule_used(s, new)).rAmount >= refill_head(s).rAmount
<1> DEFINE k == s.scRefillTail
           v == s.refills[k].rAmount + new.rAmount
           merged == [s EXCEPT !.refills[k].rAmount = @ + new.rAmount]
           m == [s EXCEPT !.refills[k].rAmount = v]
           late == [m EXCEPT !.refills[k].rTime = Later(new.rTime, @)]
           l == [m EXCEPT !.refills[k].rTime = Later(new.rTime, m.refills[k].rTime)]
<1>1. k \in Slots /\ inUse(s, k) /\ s.refills[k].rAmount \in Nat /\ new.rAmount \in Nat /\ new.rTime \in Nat /\ v \in Nat
      /\ Sum(s) \in Nat /\ s.scRefillHead \in Slots /\ \A j \in Slots : s.refills[j].rAmount \in Nat
  BY BufferFields, EndsInUse, AmountsType DEF Refills
<1>2. merged = m
  BY BufferFields DEF Contexts, Refills
<1>3. /\ Buffer(m) /\ Frame(s, m) /\ Sum(m) = Sum(s) - s.refills[k].rAmount + v
      /\ m.refills[k].rAmount = v
      /\ \A j \in Slots : j # k => m.refills[j] = s.refills[j]
  <2>1. m = [s EXCEPT !.refills[k].rAmount = v]
    OBVIOUS
  <2>2. k \in Slots /\ inUse(s, k) /\ v \in Nat
    BY <1>1
  <2> HIDE DEF k, v, m
  <2>3. AmountSet(s, k, v, m)
    BY <2>1, <2>2, SetAmount
  <2> QED BY <2>3 DEF AmountSet
<1>4. Sum(m) = Sum(s) + new.rAmount
  BY <1>1, <1>3
<1>5. refill_head(m).rAmount >= refill_head(s).rAmount
  BY <1>1, <1>3 DEF refill_head, Frame
<1>6. late = l
  OBVIOUS
<1> HIDE DEF m
<1>7. Later(new.rTime, m.refills[k].rTime) \in Nat
  BY <1>1, <1>3, BufferFields DEF Later
<1>8. /\ Buffer(l) /\ Frame(m, l) /\ Sum(l) = Sum(m)
      /\ \A j \in Slots : l.refills[j].rAmount = m.refills[j].rAmount
  <2> HIDE DEF k
  <2> QED BY <1>1, <1>3, <1>7, SetTime
<1>9. refill_head(l).rAmount = refill_head(m).rAmount
  BY <1>1, <1>3, <1>8 DEF refill_head, Frame
<1>10. schedule_used(s, new) \in {m, l, refill_add_tail(s, new)}
  BY <1>2, <1>6 DEF schedule_used, m
<1>11. refill_head(refill_add_tail(s, new)).rAmount >= refill_head(s).rAmount
  BY AddTail, BufferFields
<1> HIDE DEF l
<1>12. CASE schedule_used(s, new) = m
  BY <1>12, <1>3, <1>4, <1>5 DEF Frame
<1>13. CASE schedule_used(s, new) = l
  BY <1>13, <1>3, <1>4, <1>5, <1>8, <1>9 DEF Frame
<1>14. CASE schedule_used(s, new) = refill_add_tail(s, new)
  BY <1>14, <1>11, AddTail
<1> QED BY <1>10, <1>12, <1>13, <1>14

\* A head that goes into the refill behind it.
LEMMA MergeHead ==
  ASSUME NEW s, Buffer(s), ~refill_single(s)
  PROVE  /\ Kept(s, mergeHead(s))
         /\ refill_size(mergeHead(s)) = refill_size(s) - 1
         /\ refill_head(mergeHead(s)).rAmount >= refill_head(s).rAmount
<1> DEFINE s1 == refill_pop_head(s)
           k == s1.scRefillHead
           v == s1.refills[k].rAmount + refill_head(s).rAmount
           t == [s1 EXCEPT !.refills[k].rAmount = v]
<1>1. /\ Buffer(s1) /\ Sum(s1) = Sum(s) - refill_head(s).rAmount
      /\ refill_size(s1) = refill_size(s) - 1
      /\ s1.scPeriod = s.scPeriod /\ s1.scRefillMax = s.scRefillMax
  BY PopHead
<1>2. mergeHead(s) = t
  BY DEF mergeHead
<1> HIDE DEF s1
<1>3. k \in Slots /\ inUse(s1, k) /\ s1.refills[k].rAmount \in Nat
  BY <1>1, BufferFields, EndsInUse
<1>4. refill_head(s).rAmount \in Nat /\ v \in Nat /\ Sum(s) \in Nat
  BY <1>3, BufferFields, AmountsType
<1>5. /\ Buffer(t) /\ Frame(s1, t) /\ Sum(t) = Sum(s1) - s1.refills[k].rAmount + v
      /\ t.refills[k].rAmount = v
  <2> HIDE DEF v, k
  <2>1. AmountSet(s1, k, v, t)
    BY <1>1, <1>3, <1>4, SetAmount
  <2> HIDE DEF t
  <2> QED BY <2>1 DEF AmountSet
<1>6. refill_size(t) = refill_size(s1)
  BY <1>5 DEF Frame, refill_size
<1>7. refill_head(t).rAmount >= refill_head(s).rAmount
  BY <1>3, <1>4, <1>5 DEF Frame, refill_head
<1>8. Sum(t) = Sum(s)
  BY <1>1, <1>3, <1>4, <1>5
<1> HIDE DEF t
<1> QED BY <1>1, <1>2, <1>5, <1>6, <1>7, <1>8 DEF Kept, Frame

\* The loop of ensure_sufficient_head: it ends, for every round makes the buffer smaller, with
\* a head that is enough, for the only refill of a buffer is the budget.
LEMMA EnsureSufficientHead ==
  ASSUME NEW s, Buffer(s), Sum(s) >= MIN_BUDGET
  PROVE  /\ Kept(s, ensure_sufficient_head(s))
         /\ refill_head(ensure_sufficient_head(s)).rAmount >= MIN_BUDGET
         /\ ~refill_full(ensure_sufficient_head(s))
<1> DEFINE cond(x) == refill_head(x).rAmount < MIN_BUDGET \/ refill_full(x)
           rhs(f) == [n \in 0 .. MaxRefills |->
                        IF n = 0 THEN s ELSE IF cond(f[n - 1]) THEN mergeHead(f[n - 1]) ELSE f[n - 1]]
           after == CHOOSE f : f = rhs(f)
           X == {x \in Contexts : Kept(s, x)}
           F == [p \in (1 .. MaxRefills) \X X |-> IF cond(p[2]) THEN mergeHead(p[2]) ELSE p[2]]
<1>0. MaxRefills \in Nat /\ MIN_BUDGET \in Nat
  BY Sizes
<1>1. ensure_sufficient_head(s) = after[MaxRefills]
  BY DEF ensure_sufficient_head, RepeatWhile
<1>2. ASSUME NEW x \in X, cond(x) PROVE ~refill_single(x)
  <2>1. Buffer(x) /\ Sum(x) = Sum(s)
    BY DEF Kept
  <2>2. SUFFICES ASSUME refill_single(x) PROVE FALSE
    OBVIOUS
  <2>3. refill_head(x).rAmount = Sum(s) /\ Sum(s) \in Nat
    BY <2>1, <2>2, SumSingle, AmountsType
  <2>4. ~refill_full(x)
    BY <2>1, <2>2, SizeType, BufferFields DEF refill_full
  <2> QED BY <1>0, <1>2, <2>3, <2>4
<1>3. ASSUME NEW x \in X, cond(x)
      PROVE  mergeHead(x) \in X /\ refill_size(mergeHead(x)) = refill_size(x) - 1
  <2>1. Buffer(x) /\ Kept(s, x)
    BY DEF Kept
  <2>2. Kept(x, mergeHead(x)) /\ refill_size(mergeHead(x)) = refill_size(x) - 1
    BY <1>2, <1>3, <2>1, MergeHead
  <2>3. Kept(s, mergeHead(x)) /\ mergeHead(x) \in Contexts
    BY <2>1, <2>2, BufferFields DEF Kept
  <2> QED BY <2>2, <2>3
<1>4. s \in X
  BY BufferFields DEF Kept
<1> HIDE DEF cond, X
<1>5. F \in [(1 .. MaxRefills) \X X -> X]
  BY <1>3
<1>6. \A n \in 1 .. MaxRefills : \A x \in X : F[<<n, x>>] = IF cond(x) THEN mergeHead(x) ELSE x
  OBVIOUS
<1> HIDE DEF F
<1>7. PICK g \in [0 .. MaxRefills -> X] : Recursion(MaxRefills, F, s, g)
  BY <1>0, <1>4, <1>5, Iterates
<1>8. g = rhs(g)
  <2>1. \A n \in 0 .. MaxRefills : n # 0 => n \in 1 .. MaxRefills /\ n - 1 \in 0 .. MaxRefills
    BY <1>0
  <2>2. \A n \in 0 .. MaxRefills : n # 0 =>
          F[<<n, g[n - 1]>>] = IF cond(g[n - 1]) THEN mergeHead(g[n - 1]) ELSE g[n - 1]
    BY <2>1, <1>6
  <2> QED BY <1>7, <2>2 DEF Recursion
<1>9. after = rhs(after)
  <2> HIDE DEF rhs
  <2> QED BY <1>8
<1> HIDE DEF after
<1>10. /\ after[0] = s
       /\ \A n \in 1 .. MaxRefills :
            after[n] = IF cond(after[n - 1]) THEN mergeHead(after[n - 1]) ELSE after[n - 1]
  <2>1. \A n \in 0 .. MaxRefills :
          after[n] = IF n = 0 THEN s ELSE IF cond(after[n - 1]) THEN mergeHead(after[n - 1]) ELSE after[n - 1]
    BY <1>9
  <2>2. \A n \in 1 .. MaxRefills : n \in 0 .. MaxRefills /\ n # 0
    BY <1>0
  <2>3. 0 \in 0 .. MaxRefills
    BY <1>0
  <2> QED BY <2>1, <2>2, <2>3
<1> DEFINE G == {n \in Nat : /\ after[n] \in X
                             /\ ~cond(after[n]) \/ refill_size(after[n]) <= MaxRefills - n}
<1>11. \A x \in X : /\ refill_size(x) \in Nat /\ 1 <= refill_size(x) /\ refill_size(x) <= MaxRefills
                    /\ Kept(s, x) /\ Buffer(x)
  <2> SUFFICES ASSUME NEW x \in X
               PROVE  /\ refill_size(x) \in Nat /\ 1 <= refill_size(x) /\ refill_size(x) <= MaxRefills
                      /\ Kept(s, x) /\ Buffer(x)
    OBVIOUS
  <2>1. Kept(s, x) /\ Buffer(x)
    BY DEF X, Kept
  <2>2. /\ refill_size(x) \in Nat /\ 1 <= refill_size(x) /\ refill_size(x) <= x.scRefillMax
        /\ x.scRefillMax \in Nat /\ x.scRefillMax <= MaxRefills
    BY <2>1, SizeType, BufferFields
  <2> QED BY <1>0, <2>1, <2>2
<1>12. 0 \in G
  <2>1. after[0] \in X /\ refill_size(after[0]) \in Nat /\ refill_size(after[0]) <= MaxRefills
    BY <1>4, <1>10, <1>11
  <2> QED BY <1>0, <2>1
<1>13. ASSUME NEW n \in 1 .. MaxRefills, n - 1 \in G PROVE n \in G
  <2>1. /\ n \in Nat /\ after[n - 1] \in X
        /\ ~cond(after[n - 1]) \/ refill_size(after[n - 1]) <= MaxRefills - (n - 1)
    BY <1>13
  <2>2. CASE cond(after[n - 1])
    <3>1. after[n] = mergeHead(after[n - 1])
      BY <1>10, <2>2
    <3>2. after[n] \in X /\ refill_size(after[n]) = refill_size(after[n - 1]) - 1
      BY <1>3, <2>1, <2>2, <3>1
    <3>3. refill_size(after[n - 1]) \in Nat /\ refill_size(after[n - 1]) <= MaxRefills - (n - 1)
      BY <1>11, <2>1, <2>2
    <3>4. refill_size(after[n]) <= MaxRefills - n
      BY <1>0, <2>1, <3>2, <3>3
    <3> QED BY <2>1, <3>2, <3>4
  <2>3. CASE ~cond(after[n - 1])
    <3>1. after[n] = after[n - 1]
      BY <1>10, <2>3
    <3> QED BY <2>1, <2>3, <3>1
  <2> QED BY <2>2, <2>3
<1>14. MaxRefills \in G
  <2> HIDE DEF G
  <2>1. MaxRefills \in 0 .. MaxRefills
    BY <1>0
  <2> QED BY <1>0, <1>12, <1>13, <2>1, UpTo
<1>15. after[MaxRefills] \in X /\ ~cond(after[MaxRefills])
  <2>1. ~(refill_size(after[MaxRefills]) <= MaxRefills - MaxRefills)
    BY <1>0, <1>11, <1>14
  <2> QED BY <1>14, <2>1
<1>16. refill_head(after[MaxRefills]).rAmount \in Nat
  BY <1>11, <1>15, BufferFields
<1> QED BY <1>0, <1>1, <1>11, <1>15, <1>16 DEF cond

-----------------------------------------------------------------------------
(* Charging *)

\* Kept composes.
LEMMA KeptTrans ==
  ASSUME NEW r, NEW s, NEW t, Kept(r, s), Kept(s, t)
  PROVE  Kept(r, t)
BY DEF Kept

\* A refill is replaced by one of the same amount.
LEMMA SetRefill ==
  ASSUME NEW s, Buffer(s), NEW k \in Slots, NEW r \in Refills, r.rAmount = s.refills[k].rAmount,
         NEW t, t = [s EXCEPT !.refills[k] = r]
  PROVE  Kept(s, t) /\ Frame(s, t) /\ \A j \in Slots : t.refills[j].rAmount = s.refills[j].rAmount
<1>1. s \in Contexts
  BY BufferFields
<1>2. t \in Contexts
  BY <1>1 DEF Contexts
<1>3. Frame(s, t)
  BY <1>1 DEF Contexts, Frame
<1>4. \A j \in Slots : t.refills[j].rAmount = s.refills[j].rAmount
  BY <1>1 DEF Contexts
<1>5. Buffer(t)
  BY <1>2, <1>3 DEF Buffer, Frame
<1>6. \A j \in Slots : worth(t, j) = worth(s, j)
  BY <1>3, <1>4 DEF inUse, Frame, worth
<1>7. worth(s, k) \in Nat /\ Sum(s) \in Nat
  BY AmountsType
<1>8. Sum(t) = Sum(s) - worth(s, k) + worth(t, k)
  BY <1>5, <1>6, SumOne
<1>9. Sum(t) = Sum(s)
  BY <1>6, <1>7, <1>8
<1> QED BY <1>3, <1>4, <1>5, <1>9 DEF Kept, Frame

\* A charge that leaves something of the head loses nothing, and leaves a head that is enough.
LEMMA SplitCheck ==
  ASSUME NEW s, Buffer(s), Sum(s) >= MIN_BUDGET, NEW usage \in Nat, usage < refill_head(s).rAmount
  PROVE  /\ Kept(s, refill_split_check(s, usage))
         /\ refill_head(refill_split_check(s, usage)).rAmount >= MIN_BUDGET
<1> DEFINE head == refill_head(s)
           remnant == head.rAmount - usage
           new == [rAmount |-> usage, rTime |-> head.rTime + s.scPeriod]
           popped == refill_pop_head(s)
           k == s.scRefillHead
           kept == [s EXCEPT !.refills[k].rAmount = remnant]
           l == popped.scRefillHead
           v == popped.refills[l].rAmount + remnant
           rest == [popped EXCEPT !.refills[l].rAmount = @ + remnant]
           all == [new EXCEPT !.rAmount = @ + remnant]
           whole == [s EXCEPT !.refills[k] = all]
           A == schedule_used(kept, new)
           B == schedule_used(rest, new)
<1>0. /\ head \in Refills /\ head.rAmount \in Nat /\ head.rTime \in Nat /\ s.scPeriod \in Nat
      /\ k \in Slots /\ Sum(s) \in Nat /\ MIN_BUDGET \in Nat /\ inUse(s, k)
      /\ s.refills[k] = head
  BY BufferFields, AmountsType, Sizes, EndsInUse DEF refill_head
<1>1. remnant \in Nat /\ remnant > 0 /\ new \in Refills /\ new.rAmount = usage
  BY <1>0 DEF Refills
<1>2. refill_split_check(s, usage) =
        IF ~(refill_full(s) \/ remnant < MIN_BUDGET) THEN A
        ELSE IF refill_single(s) THEN whole ELSE ensure_sufficient_head(B)
  BY DEF refill_split_check
<1>3. CASE ~(refill_full(s) \/ remnant < MIN_BUDGET)
  <2>1. /\ Buffer(kept) /\ Frame(s, kept) /\ Sum(kept) = Sum(s) - s.refills[k].rAmount + remnant
        /\ kept.refills[k].rAmount = remnant
    <3>1. kept = [s EXCEPT !.refills[k].rAmount = remnant]
      OBVIOUS
    <3>2. k \in Slots /\ inUse(s, k) /\ remnant \in Nat
      BY <1>0, <1>1
    <3> HIDE DEF k, remnant, kept
    <3>3. AmountSet(s, k, remnant, kept)
      BY <3>1, <3>2, SetAmount
    <3> QED BY <3>3 DEF AmountSet
  <2>2. ~refill_full(kept)
    BY <1>3, <2>1 DEF Frame, refill_full, refill_size
  <2>3. refill_head(kept).rAmount = remnant
    BY <2>1 DEF Frame, refill_head
  <2> HIDE DEF kept, new
  <2>4. /\ Buffer(A) /\ Sum(A) = Sum(kept) + usage
        /\ A.scPeriod = kept.scPeriod /\ A.scRefillMax = kept.scRefillMax
        /\ refill_head(A).rAmount >= refill_head(kept).rAmount
    BY <1>1, <2>1, <2>2, ScheduleUsed
  <2>5. Sum(A) = Sum(s)
    BY <1>0, <1>1, <2>1, <2>4
  <2>6. refill_head(A).rAmount >= MIN_BUDGET
    <3>1. refill_head(A).rAmount \in Nat
      BY <2>4, BufferFields
    <3> HIDE DEF A
    <3> QED BY <1>0, <1>1, <1>3, <2>3, <2>4, <3>1
  <2> HIDE DEF A
  <2> QED BY <1>2, <1>3, <2>1, <2>4, <2>5, <2>6 DEF Kept, Frame
<1>4. CASE (refill_full(s) \/ remnant < MIN_BUDGET) /\ refill_single(s)
  <2>1. all \in Refills /\ all.rAmount = s.refills[k].rAmount
    BY <1>0, <1>1 DEF Refills
  <2>2. Kept(s, whole) /\ Frame(s, whole) /\ whole.refills[k].rAmount = s.refills[k].rAmount
    <3>1. whole = [s EXCEPT !.refills[k] = all]
      OBVIOUS
    <3> HIDE DEF whole, all, k
    <3> QED BY <1>0, <2>1, <3>1, SetRefill
  <2>3. refill_head(whole).rAmount = head.rAmount
    BY <1>0, <2>2 DEF Frame, refill_head
  <2>4. head.rAmount = Sum(s)
    BY <1>4, SumSingle
  <2>5. refill_split_check(s, usage) = whole
    BY <1>2, <1>4
  <2> QED BY <2>2, <2>3, <2>4, <2>5
<1>5. CASE (refill_full(s) \/ remnant < MIN_BUDGET) /\ ~refill_single(s)
  <2>1. /\ Buffer(popped) /\ ~refill_full(popped) /\ Sum(popped) = Sum(s) - head.rAmount
        /\ popped.scPeriod = s.scPeriod /\ popped.scRefillMax = s.scRefillMax
    BY <1>5, PopHead
  <2>2. refill_split_check(s, usage) = ensure_sufficient_head(B)
    BY <1>2, <1>5
  <2> HIDE DEF popped
  <2>3. l \in Slots /\ inUse(popped, l) /\ popped.refills[l].rAmount \in Nat /\ v \in Nat
    BY <1>1, <2>1, BufferFields, EndsInUse
  <2>4. rest = [popped EXCEPT !.refills[l].rAmount = v]
    BY <2>1, BufferFields DEF Contexts, Refills
  <2>5. /\ Buffer(rest) /\ Frame(popped, rest) /\ Sum(rest) = Sum(popped) - popped.refills[l].rAmount + v
    <3> HIDE DEF rest, l, v
    <3>1. AmountSet(popped, l, v, rest)
      BY <2>1, <2>3, <2>4, SetAmount
    <3> QED BY <3>1 DEF AmountSet
  <2>6. ~refill_full(rest)
    BY <2>1, <2>5 DEF Frame, refill_full, refill_size
  <2>7. Sum(rest) = Sum(s) - head.rAmount + remnant
    BY <1>0, <1>1, <2>1, <2>3, <2>5
  <2> HIDE DEF rest, new
  <2>8. /\ Buffer(B) /\ Sum(B) = Sum(rest) + usage
        /\ B.scPeriod = rest.scPeriod /\ B.scRefillMax = rest.scRefillMax
    BY <1>1, <2>5, <2>6, ScheduleUsed
  <2>9. Sum(B) = Sum(s)
    BY <1>0, <1>1, <2>7, <2>8
  <2>10. Kept(s, B)
    BY <2>1, <2>5, <2>8, <2>9 DEF Kept, Frame
  <2> HIDE DEF B
  <2>11. Kept(B, ensure_sufficient_head(B)) /\ refill_head(ensure_sufficient_head(B)).rAmount >= MIN_BUDGET
    BY <2>8, <2>9, EnsureSufficientHead
  <2> QED BY <2>2, <2>10, <2>11, KeptTrans
<1> QED BY <1>3, <1>4, <1>5

\* A head that is used up goes to the tail whole.
LEMMA ExhaustHead ==
  ASSUME NEW c \in [s : Contexts, usage : Nat], Buffer(c.s), refill_head(c.s).rAmount <= c.usage
  PROVE  Kept(c.s, exhaustHead(c).s) /\ exhaustHead(c) \in [s : Contexts, usage : Nat]
<1> DEFINE s == c.s
           head == refill_head(s)
           used == [head EXCEPT !.rTime = @ + s.scPeriod]
           k == s.scRefillHead
           whole == [s EXCEPT !.refills[k] = used]
           popped == refill_pop_head(s)
           A == schedule_used(popped, used)
           t == IF refill_single(s) THEN whole ELSE A
<1>0. /\ head \in Refills /\ head.rAmount \in Nat /\ s.scPeriod \in Nat /\ head.rTime \in Nat
      /\ k \in Slots /\ s.refills[k] = head /\ c.usage \in Nat /\ Sum(s) \in Nat
  BY BufferFields, AmountsType DEF refill_head
<1>1. exhaustHead(c) = [usage |-> c.usage - head.rAmount, s |-> t]
  BY DEF exhaustHead
<1>2. used \in Refills /\ used.rAmount = head.rAmount
  BY <1>0 DEF Refills
<1>3. Kept(s, t)
  <2>1. CASE refill_single(s)
    <3>1. whole = [s EXCEPT !.refills[k] = used] /\ used \in Refills /\ used.rAmount = s.refills[k].rAmount
      BY <1>0, <1>2
    <3>2. t = whole
      BY <2>1
    <3> HIDE DEF s, k, used, whole, t
    <3>3. Buffer(s)
      BY DEF s
    <3>4. Kept(s, whole)
      BY <1>0, <3>1, <3>3, SetRefill
    <3> QED BY <3>2, <3>4
  <2>2. CASE ~refill_single(s)
    <3>1. /\ Buffer(popped) /\ ~refill_full(popped) /\ Sum(popped) = Sum(s) - head.rAmount
          /\ popped.scPeriod = s.scPeriod /\ popped.scRefillMax = s.scRefillMax
      BY <2>2, PopHead
    <3>2. t = A
      BY <2>2
    <3> HIDE DEF popped, used, t
    <3>3. /\ Buffer(A) /\ Sum(A) = Sum(popped) + used.rAmount
          /\ A.scPeriod = popped.scPeriod /\ A.scRefillMax = popped.scRefillMax
      BY <1>2, <3>1, ScheduleUsed
    <3>4. Sum(A) = Sum(s)
      BY <1>0, <1>2, <3>1, <3>3
    <3> QED BY <3>1, <3>2, <3>3, <3>4 DEF Kept
  <2> QED BY <2>1, <2>2
<1>4. t \in Contexts
  BY <1>3 DEF Kept, Buffer
<1>5. c.usage - head.rAmount \in Nat
  BY <1>0
<1> HIDE DEF t, head
<1> QED BY <1>1, <1>3, <1>4, <1>5

\* The head is delayed, with the refill behind it or without.
LEMMA DelayOverrun ==
  ASSUME NEW s, Buffer(s), NEW usage \in Nat
  PROVE  Kept(s, delayOverrun(s, usage))
<1> DEFINE k == s.scRefillHead
           time == s.refills[k].rTime + usage
           s1 == [s EXCEPT !.refills[k].rTime = @ + usage]
           s2 == mergeHead(s1)
           l == s2.scRefillHead
           t1 == refill_head(s1).rTime
           s3 == [s2 EXCEPT !.refills[l].rTime = t1]
<1>1. k \in Slots /\ time \in Nat
  BY BufferFields
<1>2. s1 = [s EXCEPT !.refills[k].rTime = time]
  BY BufferFields DEF Contexts, Refills
<1>3. delayOverrun(s, usage) \in {s1, s3}
  BY DEF delayOverrun
<1>4. ~refill_single(s1) \/ delayOverrun(s, usage) = s1
  BY DEF delayOverrun
<1>5. Kept(s, s1) /\ Buffer(s1)
  <2> HIDE DEF s1, k, time
  <2> QED BY <1>1, <1>2, SetTime DEF Kept, Frame
<1> HIDE DEF s1
<1>6. CASE ~refill_single(s1)
  <2>1. Kept(s1, s2) /\ Buffer(s2)
    BY <1>5, <1>6, MergeHead DEF Kept
  <2> HIDE DEF s2
  <2>2. l \in Slots /\ t1 \in Nat
    BY <1>5, <2>1, BufferFields
  <2>3. s3 = [s2 EXCEPT !.refills[l].rTime = t1]
    OBVIOUS
  <2>4. Kept(s2, s3)
    <3> HIDE DEF s3, l, t1
    <3> QED BY <2>1, <2>2, <2>3, SetTime DEF Kept, Frame
  <2>5. Kept(s, s3)
    <3> HIDE DEF s3
    <3> QED BY <1>5, <2>1, <2>4, KeptTrans
  <2> HIDE DEF s3
  <2> QED BY <1>3, <1>5, <2>5
<1> QED BY <1>4, <1>5, <1>6


Charges == [s : Contexts, usage : Nat]

\* One round of the loop of refill_budget_check.
exhaustRound(c) == IF refill_head(c.s).rAmount <= c.usage THEN exhaustHead(c) ELSE c

\* The loop of refill_budget_check loses nothing.
LEMMA ExhaustLoop ==
  ASSUME NEW s, Buffer(s), NEW usage \in Nat, NEW N \in Nat,
         NEW c, c = RepeatWhile([s |-> s, usage |-> usage], LAMBDA x : refill_head(x.s).rAmount <= x.usage,
                                exhaustHead, N)
  PROVE  c \in Charges /\ Kept(s, c.s)
<1> DEFINE c0 == [s |-> s, usage |-> usage]
           rhs(f) == [n \in 0 .. N |-> IF n = 0 THEN c0 ELSE exhaustRound(f[n - 1])]
           after == CHOOSE f : f = rhs(f)
           X == {x \in Charges : Kept(s, x.s)}
           F == [p \in (1 .. N) \X X |-> exhaustRound(p[2])]
<1>1. c = after[N]
  BY DEF RepeatWhile, exhaustRound
<1>2. ASSUME NEW x \in X PROVE exhaustRound(x) \in X
  <2>1. x \in Charges /\ Kept(s, x.s) /\ Buffer(x.s)
    BY DEF Kept
  <2>2. CASE refill_head(x.s).rAmount <= x.usage
    <3>1. Kept(x.s, exhaustHead(x).s) /\ exhaustHead(x) \in Charges
      BY <2>1, <2>2, ExhaustHead DEF Charges
    <3>2. Kept(s, exhaustHead(x).s)
      BY <2>1, <3>1, KeptTrans
    <3> QED BY <2>2, <3>1, <3>2 DEF exhaustRound
  <2>3. CASE ~(refill_head(x.s).rAmount <= x.usage)
    BY <2>3 DEF exhaustRound
  <2> QED BY <2>2, <2>3
<1>3. c0 \in X
  BY BufferFields DEF Kept, Charges
<1> HIDE DEF c0
<1>4. X \subseteq Charges /\ \A x \in X : Kept(s, x.s)
  OBVIOUS
<1> HIDE DEF X
<1>5. F \in [(1 .. N) \X X -> X]
  BY <1>2
<1>6. \A n \in 1 .. N : \A x \in X : F[<<n, x>>] = exhaustRound(x)
  OBVIOUS
<1> HIDE DEF F
<1>7. PICK g \in [0 .. N -> X] : Recursion(N, F, c0, g)
  BY <1>3, <1>5, Iterates
<1>8. g = rhs(g)
  <2>1. \A n \in 0 .. N : n # 0 => n \in 1 .. N /\ n - 1 \in 0 .. N
    OBVIOUS
  <2>2. \A n \in 0 .. N : n # 0 => F[<<n, g[n - 1]>>] = exhaustRound(g[n - 1])
    BY <2>1, <1>6
  <2> QED BY <1>7, <2>2 DEF Recursion
<1>9. after = rhs(after)
  <2> HIDE DEF rhs
  <2> QED BY <1>8
<1> HIDE DEF after
<1>10. after[0] = c0 /\ \A n \in 1 .. N : after[n] = exhaustRound(after[n - 1])
  <2>1. \A n \in 0 .. N : after[n] = IF n = 0 THEN c0 ELSE exhaustRound(after[n - 1])
    BY <1>9
  <2>2. 0 \in 0 .. N /\ \A n \in 1 .. N : n \in 0 .. N /\ n # 0
    OBVIOUS
  <2> QED BY <2>1, <2>2
<1> DEFINE G == {n \in Nat : after[n] \in X}
<1>11. 0 \in G
  BY <1>3, <1>10
<1>12. ASSUME NEW n \in 1 .. N, n - 1 \in G PROVE n \in G
  <2>1. after[n - 1] \in X
    BY <1>12
  <2>2. after[n] \in X
    BY <1>2, <1>10, <2>1
  <2> QED BY <2>2
<1>13. N \in G
  <2> HIDE DEF G
  <2>1. N \in 0 .. N
    OBVIOUS
  <2> QED BY <1>11, <1>12, <2>1, UpTo
<1> QED BY <1>1, <1>4, <1>13

\* A charge of any size, at any time, loses nothing and leaves a head that is enough.
LEMMA BudgetCheck ==
  ASSUME NEW s, Buffer(s), Sum(s) >= MIN_BUDGET, NEW usage \in Nat, NEW time \in Nat
  PROVE  /\ Kept(s, refill_budget_check(s, usage, time))
         /\ refill_head(refill_budget_check(s, usage, time)).rAmount >= MIN_BUDGET
<1> DEFINE c0 == [s |-> s, usage |-> usage]
           loop == RepeatWhile([s |-> s, usage |-> usage],
                               LAMBDA c : refill_head(c.s).rAmount <= c.usage,
                               exhaustHead, MaxRefills + usage)
           c1 == IF refill_capacity(s, usage) = 0 THEN loop ELSE c0
           s2 == IF refill_capacity(s, usage) = 0 /\ c1.usage > 0
                 THEN delayOverrun(c1.s, c1.usage) ELSE c1.s
           s3 == IF refill_capacity(s2, c1.usage) > 0 /\ refill_ready(s2, time)
                 THEN refill_split_check(s2, c1.usage) ELSE s2
<1>1. refill_budget_check(s, usage, time) = ensure_sufficient_head(s3)
  BY DEF refill_budget_check
<1>2. c1 \in Charges /\ Kept(s, c1.s)
  <2>1. c0 \in Charges /\ Kept(s, c0.s)
    BY BufferFields DEF Charges, Kept
  <2>2. MaxRefills + usage \in Nat
    BY Sizes
  <2>3. loop \in Charges /\ Kept(s, loop.s)
    BY <2>2, ExhaustLoop
  <2> HIDE DEF loop, c0
  <2> QED BY <2>1, <2>3
<1> HIDE DEF c1
<1>3. c1.usage \in Nat /\ Buffer(c1.s)
  BY <1>2 DEF Charges, Kept
<1>4. Kept(s, s2)
  <2>1. Kept(s, delayOverrun(c1.s, c1.usage))
    BY <1>2, <1>3, DelayOverrun, KeptTrans
  <2> QED BY <1>2, <2>1
<1> HIDE DEF s2
<1>5. Buffer(s2) /\ Sum(s2) >= MIN_BUDGET
  BY <1>4 DEF Kept
<1>6. Kept(s, s3)
  <2>1. CASE refill_capacity(s2, c1.usage) > 0
    <3>1. c1.usage < refill_head(s2).rAmount
      BY <2>1, <1>3, <1>5, BufferFields DEF refill_capacity
    <3>2. Kept(s2, refill_split_check(s2, c1.usage))
      BY <1>3, <1>5, <3>1, SplitCheck
    <3>3. Kept(s, refill_split_check(s2, c1.usage))
      BY <1>4, <3>2, KeptTrans
    <3> QED BY <1>4, <3>3
  <2>2. CASE ~(refill_capacity(s2, c1.usage) > 0)
    BY <1>4, <2>2
  <2> QED BY <2>1, <2>2
<1> HIDE DEF s3
<1>7. Buffer(s3) /\ Sum(s3) >= MIN_BUDGET
  BY <1>6 DEF Kept
<1>8. /\ Kept(s3, ensure_sufficient_head(s3))
      /\ refill_head(ensure_sufficient_head(s3)).rAmount >= MIN_BUDGET
  BY <1>7, EnsureSufficientHead
<1> QED BY <1>1, <1>6, <1>8, KeptTrans

\* Two refills overlap.
unblockRound(x, time) ==
  IF refill_head_overlapping(x)
  THEN [mergeHead(x) EXCEPT !.refills[mergeHead(x).scRefillHead].rTime = time] ELSE x

\* The head is moved to now, with the refills that it then overlaps: nothing is lost, and the
\* head does not get smaller.
LEMMA UnblockCheck ==
  ASSUME NEW s, Buffer(s), refill_head(s).rAmount >= MIN_BUDGET, NEW time \in Nat
  PROVE  /\ Kept(s, refill_unblock_check(s, time))
         /\ refill_head(refill_unblock_check(s, time)).rAmount >= MIN_BUDGET
         /\ isRoundRobin(s) => refill_unblock_check(s, time) = s
<1> DEFINE N == MaxRefills
           moved(x) == [x EXCEPT !.refills[x.scRefillHead].rTime = time]
           c0 == moved(s)
           rhs(f) == [n \in 0 .. N |-> IF n = 0 THEN c0 ELSE unblockRound(f[n - 1], time)]
           after == CHOOSE f : f = rhs(f)
           X == {x \in Contexts : Kept(s, x) /\ refill_head(x).rAmount >= MIN_BUDGET}
           F == [p \in (1 .. N) \X X |-> unblockRound(p[2], time)]
<1>0. N \in Nat /\ MIN_BUDGET \in Nat
  BY Sizes
<1>1. refill_unblock_check(s, time) = IF isRoundRobin(s) \/ ~refill_ready(s, time) THEN s ELSE after[N]
  BY DEF RepeatWhile, refill_unblock_check, unblockRound
<1>2. ASSUME NEW x, Buffer(x), NEW y, y = [x EXCEPT !.refills[x.scRefillHead].rTime = time]
      PROVE  Kept(x, y) /\ refill_head(y).rAmount = refill_head(x).rAmount
  <2>1. x.scRefillHead \in Slots
    BY <1>2, BufferFields
  <2>2. Buffer(y) /\ Frame(x, y) /\ Sum(y) = Sum(x) /\ \A j \in Slots : y.refills[j].rAmount = x.refills[j].rAmount
    BY <1>2, <2>1, SetTime
  <2> QED BY <2>1, <2>2 DEF Kept, Frame, refill_head
<1>3. ASSUME NEW x \in X PROVE unblockRound(x, time) \in X
  <2>1. Kept(s, x) /\ Buffer(x) /\ refill_head(x).rAmount >= MIN_BUDGET
    BY DEF Kept
  <2>2. CASE refill_head_overlapping(x)
    <3> DEFINE m == mergeHead(x)
               y == [m EXCEPT !.refills[m.scRefillHead].rTime = time]
    <3>1. Kept(x, m) /\ refill_head(m).rAmount >= refill_head(x).rAmount
      BY <2>1, <2>2, MergeHead DEF refill_head_overlapping
    <3>2. unblockRound(x, time) = y
      BY <2>2 DEF unblockRound
    <3>3. y = [m EXCEPT !.refills[m.scRefillHead].rTime = time]
      OBVIOUS
    <3> HIDE DEF m, y
    <3>4. Buffer(m)
      BY <3>1 DEF Kept
    <3>5. Kept(m, y) /\ refill_head(y).rAmount = refill_head(m).rAmount
      BY <1>2, <3>3, <3>4
    <3>6. Kept(s, y) /\ y \in Contexts
      BY <2>1, <3>1, <3>5, KeptTrans, BufferFields DEF Kept
    <3>7. refill_head(y).rAmount >= MIN_BUDGET
      <4>1. refill_head(x).rAmount \in Nat /\ refill_head(m).rAmount \in Nat
        BY <2>1, <3>4, BufferFields
      <4> QED BY <1>0, <2>1, <3>1, <3>5, <4>1
    <3> QED BY <3>2, <3>6, <3>7
  <2>3. CASE ~refill_head_overlapping(x)
    BY <2>3 DEF unblockRound
  <2> QED BY <2>2, <2>3
<1>4. c0 \in X /\ s \in X
  <2>1. c0 = [s EXCEPT !.refills[s.scRefillHead].rTime = time]
    OBVIOUS
  <2> HIDE DEF c0
  <2>2. Kept(s, c0) /\ refill_head(c0).rAmount = refill_head(s).rAmount
    BY <1>2, <2>1
  <2> QED BY <2>2, BufferFields DEF Kept
<1> HIDE DEF c0
<1>5. \A x \in X : Kept(s, x) /\ refill_head(x).rAmount >= MIN_BUDGET
  OBVIOUS
<1> HIDE DEF X
<1>6. F \in [(1 .. N) \X X -> X]
  BY <1>3
<1>7. \A n \in 1 .. N : \A x \in X : F[<<n, x>>] = unblockRound(x, time)
  OBVIOUS
<1> HIDE DEF F, N
<1>8. PICK g \in [0 .. N -> X] : Recursion(N, F, c0, g)
  BY <1>0, <1>4, <1>6, Iterates
<1>9. g = rhs(g)
  <2>1. \A n \in 0 .. N : n # 0 => n \in 1 .. N /\ n - 1 \in 0 .. N
    BY <1>0
  <2>2. \A n \in 0 .. N : n # 0 => F[<<n, g[n - 1]>>] = unblockRound(g[n - 1], time)
    BY <2>1, <1>7
  <2> QED BY <1>8, <2>2 DEF Recursion
<1>10. after = rhs(after)
  <2> HIDE DEF rhs
  <2> QED BY <1>9
<1> HIDE DEF after
<1>11. after[0] = c0 /\ \A n \in 1 .. N : after[n] = unblockRound(after[n - 1], time)
  <2>1. \A n \in 0 .. N : after[n] = IF n = 0 THEN c0 ELSE unblockRound(after[n - 1], time)
    BY <1>10
  <2>2. 0 \in 0 .. N /\ \A n \in 1 .. N : n \in 0 .. N /\ n # 0
    BY <1>0
  <2> QED BY <2>1, <2>2
<1> DEFINE G == {n \in Nat : after[n] \in X}
<1>12. 0 \in G
  BY <1>4, <1>11
<1>13. ASSUME NEW n \in 1 .. N, n - 1 \in G PROVE n \in G
  <2>1. after[n - 1] \in X
    BY <1>13
  <2>2. after[n] \in X
    BY <1>3, <1>11, <2>1
  <2> QED BY <1>0, <2>2
<1>14. N \in G
  <2> HIDE DEF G
  <2>1. N \in 0 .. N
    BY <1>0
  <2> QED BY <1>0, <1>12, <1>13, <2>1, UpTo
<1>15. refill_unblock_check(s, time) \in X
  BY <1>1, <1>4, <1>14
<1>16. isRoundRobin(s) => refill_unblock_check(s, time) = s
  BY <1>1
<1> QED BY <1>5, <1>15, <1>16

-----------------------------------------------------------------------------
(* Configuring *)

\* A scheduling context with budget b whose head is enough; a round-robin one has its
\* used time in a tail of its own.
Sound(s, b) ==
  /\ Buffer(s) /\ Sum(s) = b /\ b >= MIN_BUDGET
  /\ refill_head(s).rAmount >= MIN_BUDGET
  /\ isRoundRobin(s) => ~refill_single(s)

\* A buffer with the one refill r.
LEMMA OneRefill ==
  ASSUME NEW s \in Contexts, NEW period \in Nat, NEW max \in 2 .. MaxRefills, NEW r \in Refills,
         NEW t \in Contexts,
         t.scPeriod = period, t.scRefillHead = 0, t.scRefillTail = 0, t.scRefillMax = max, t.refills[0] = r
  PROVE  /\ Buffer(t) /\ Sum(t) = r.rAmount /\ refill_single(t) /\ ~refill_full(t)
         /\ refill_head(t) = r
<1>1. Buffer(t)
  BY Sizes DEF Buffer
<1>2. refill_single(t) /\ refill_head(t) = r
  BY DEF refill_single, refill_head
<1>3. ~refill_full(t)
  BY <1>1, <1>2, SizeType, BufferFields DEF refill_full
<1> QED BY <1>1, <1>2, <1>3, SumSingle

\* An empty tail is added to the only refill of a round-robin context.
LEMMA EmptyTail ==
  ASSUME NEW t, Buffer(t), refill_single(t), ~refill_full(t), refill_head(t).rAmount >= MIN_BUDGET,
         NEW time \in Nat
  PROVE  Sound(maybe_add_empty_tail(t, time), Sum(t))
<1> DEFINE r == [rAmount |-> 0, rTime |-> time]
           u == refill_add_tail(t, r)
<1>1. r \in Refills /\ r.rAmount = 0
  BY DEF Refills
<1>2. Sum(t) = refill_head(t).rAmount /\ Sum(t) \in Nat
  BY SumSingle, AmountsType
<1>3. CASE ~isRoundRobin(t)
  BY <1>2, <1>3 DEF maybe_add_empty_tail, Sound
<1>4. CASE isRoundRobin(t)
  <2>1. maybe_add_empty_tail(t, time) = u
    BY <1>4 DEF maybe_add_empty_tail
  <2> HIDE DEF r
  <2>2. /\ Buffer(u) /\ Sum(u) = Sum(t) + 0
        /\ u.scRefillHead = t.scRefillHead /\ u.scRefillTail = refill_next(t, t.scRefillTail)
        /\ refill_head(u) = refill_head(t)
    BY <1>1, AddTail
  <2>3. ~refill_single(u)
    BY <2>2, NextSlot, BufferFields DEF refill_single
  <2> HIDE DEF u
  <2> QED BY <1>2, <2>1, <2>2, <2>3 DEF Sound
<1> QED BY <1>3, <1>4

\* A new buffer holds the whole budget.
LEMMA RefillNew ==
  ASSUME NEW s \in Contexts, NEW max \in 2 .. MaxRefills, NEW b \in Nat, b >= MIN_BUDGET,
         NEW period \in Nat, NEW time \in Nat
  PROVE  Sound(refill_new(s, max, b, period, time), b)
<1> DEFINE r == [rAmount |-> b, rTime |-> time]
           t == [s EXCEPT !.scPeriod = period, !.scRefillHead = 0, !.scRefillTail = 0,
                          !.scRefillMax = max, !.refills[0] = r]
<1>1. r \in Refills /\ r.rAmount = b /\ 0 \in Slots /\ max \in Nat
  BY Sizes DEF Refills, Slots
<1>2. refill_new(s, max, b, period, time) = maybe_add_empty_tail(t, time)
  BY DEF refill_new
<1> HIDE DEF r
<1>3. /\ t \in Contexts /\ t.scPeriod = period /\ t.scRefillHead = 0 /\ t.scRefillTail = 0
      /\ t.scRefillMax = max /\ t.refills[0] = r
  BY <1>1 DEF Contexts
<1> HIDE DEF t
<1>4. Buffer(t) /\ Sum(t) = b /\ refill_single(t) /\ ~refill_full(t) /\ refill_head(t).rAmount = b
  BY <1>1, <1>3, OneRefill
<1> QED BY <1>2, <1>4, EmptyTail

\* A buffer that is reconfigured holds the whole new budget, what is at the head first.
LEMMA RefillUpdate ==
  ASSUME NEW s, Buffer(s), refill_head(s).rAmount >= MIN_BUDGET, NEW max \in 2 .. MaxRefills,
         NEW b \in Nat, b >= MIN_BUDGET, NEW period \in Nat, period > 0, NEW time \in Nat
  PROVE  Sound(refill_update(s, period, b, max, time), b)
<1> DEFINE head == [refill_head(s) EXCEPT !.rTime = IF refill_ready(s, time) THEN time ELSE @]
           s1 == [s EXCEPT !.refills[0] = head, !.scRefillHead = 0, !.scRefillTail = 0,
                           !.scRefillMax = max, !.scPeriod = period]
           less == [s1 EXCEPT !.refills[0].rAmount = b]
           r == [rAmount |-> b - head.rAmount, rTime |-> head.rTime + period]
           more == refill_add_tail(s1, r)
<1>1. s \in Contexts /\ 0 \in Slots /\ max \in Nat /\ MIN_BUDGET \in Nat
  BY Sizes, BufferFields DEF Slots
<1>2. /\ head \in Refills /\ head.rAmount = refill_head(s).rAmount /\ head.rAmount \in Nat /\ head.rTime \in Nat
  <2>1. refill_head(s) \in Refills
    BY BufferFields
  <2> QED BY <2>1 DEF Refills
<1>3. refill_update(s, period, b, max, time) =
        IF head.rAmount >= b THEN maybe_add_empty_tail(less, time) ELSE more
  BY DEF refill_update
<1> HIDE DEF head
<1>4. /\ s1 \in Contexts /\ s1.scPeriod = period /\ s1.scRefillHead = 0 /\ s1.scRefillTail = 0
      /\ s1.scRefillMax = max /\ s1.refills[0] = head
  BY <1>1, <1>2 DEF Contexts
<1> HIDE DEF s1
<1>5. Buffer(s1) /\ Sum(s1) = head.rAmount /\ refill_single(s1) /\ ~refill_full(s1) /\ refill_head(s1) = head
  BY <1>1, <1>2, <1>4, OneRefill
<1>6. CASE head.rAmount >= b
  <2>1. less \in Contexts /\ less.scPeriod = period /\ less.scRefillHead = 0 /\ less.scRefillTail = 0
        /\ less.scRefillMax = max /\ less.refills[0] \in Refills /\ less.refills[0].rAmount = b
    BY <1>1, <1>2, <1>4 DEF Contexts, Refills
  <2> HIDE DEF less
  <2>2. Buffer(less) /\ Sum(less) = b /\ refill_single(less) /\ ~refill_full(less)
        /\ refill_head(less).rAmount = b
    BY <1>1, <2>1, OneRefill
  <2>3. Sound(maybe_add_empty_tail(less, time), b)
    BY <2>2, EmptyTail
  <2> QED BY <1>3, <1>6, <2>3
<1>7. CASE ~(head.rAmount >= b)
  <2>1. r \in Refills /\ r.rAmount = b - head.rAmount
    BY <1>2, <1>7 DEF Refills
  <2> HIDE DEF r
  <2>2. /\ Buffer(more) /\ Sum(more) = Sum(s1) + r.rAmount
        /\ more.scPeriod = period /\ refill_head(more) = head
    BY <1>4, <1>5, <2>1, AddTail
  <2>3. Sum(more) = b
    BY <1>2, <1>5, <2>1, <2>2
  <2> HIDE DEF more
  <2> QED BY <1>2, <1>3, <1>7, <2>2, <2>3 DEF Sound, isRoundRobin
<1> QED BY <1>6, <1>7

\* SchedControl_Configure.
LEMMA Configured ==
  ASSUME NEW s \in Contexts, NEW active, active => Buffer(s) /\ refill_head(s).rAmount >= MIN_BUDGET,
         NEW p \in Params, NEW time \in Nat
  PROVE  Sound(configured(s, p, active, time), p.budget)
<1>1. /\ p.budget \in Nat /\ p.budget >= MIN_BUDGET /\ p.period \in Nat /\ p.budget <= p.period
      /\ p.max \in 2 .. MaxRefills /\ MIN_BUDGET \in Nat /\ MIN_BUDGET > 0
      /\ MIN_REFILLS \in 2 .. MaxRefills
  BY Sizes DEF MIN_REFILLS
<1>2. CASE p.budget = p.period
  BY <1>1, <1>2, RefillNew DEF configured
<1>3. CASE p.budget # p.period /\ active
  <2>1. p.period > 0
    BY <1>1
  <2>2. Sound(refill_update(s, p.period, p.budget, p.max, time), p.budget)
    BY <1>1, <1>3, <2>1, RefillUpdate
  <2> QED BY <1>3, <2>2 DEF configured
<1>4. CASE p.budget # p.period /\ ~active
  BY <1>1, <1>4, RefillNew DEF configured
<1> QED BY <1>2, <1>3, <1>4

-----------------------------------------------------------------------------
(* Kernel entries *)

\* Every entry leaves the scheduling context sound.
IInv == Sound(sc, budget) /\ now \in Nat /\ consumed \in Nat

\* What the head of a round-robin context has used goes to its tail.
LEMMA MoveToTail ==
  ASSUME NEW s, Buffer(s), ~refill_single(s), NEW x \in Nat, NEW y \in Nat,
         x + y = refill_head(s).rAmount + refill_tail(s).rAmount, x >= MIN_BUDGET,
         NEW t, t = [s EXCEPT !.refills[s.scRefillHead].rAmount = x, !.refills[s.scRefillTail].rAmount = y]
  PROVE  Kept(s, t) /\ refill_head(t).rAmount >= MIN_BUDGET /\ ~refill_single(t)
<1> DEFINE h == s.scRefillHead
           k == s.scRefillTail
           u == [s EXCEPT !.refills[h].rAmount = x]
<1>1. /\ h \in Slots /\ k \in Slots /\ h # k /\ inUse(s, h) /\ inUse(s, k)
      /\ s.refills[h].rAmount \in Nat /\ s.refills[k].rAmount \in Nat /\ Sum(s) \in Nat
  BY BufferFields, EndsInUse, AmountsType DEF refill_single
<1>2. /\ Buffer(u) /\ Frame(s, u) /\ Sum(u) = Sum(s) - s.refills[h].rAmount + x
      /\ u.refills[h].rAmount = x /\ \A j \in Slots : j # h => u.refills[j] = s.refills[j]
  <2>1. u = [s EXCEPT !.refills[h].rAmount = x]
    OBVIOUS
  <2>2. h \in Slots /\ inUse(s, h) /\ x \in Nat /\ Buffer(s)
    BY <1>1
  <2> HIDE DEF u, h
  <2> AmountSet(s, h, x, u)
    BY ONLY <2>1, <2>2, SetAmount
  <2> QED BY DEF AmountSet
<1>3. t = [u EXCEPT !.refills[k].rAmount = y]
  BY <1>1, BufferFields DEF Contexts, Refills
<1> HIDE DEF u
<1>4. inUse(u, k) /\ u.refills[k] = s.refills[k]
  BY <1>1, <1>2 DEF inUse, Frame
<1>5. /\ Buffer(t) /\ Frame(u, t) /\ Sum(t) = Sum(u) - u.refills[k].rAmount + y
      /\ \A j \in Slots : j # k => t.refills[j] = u.refills[j]
  <2>1. k \in Slots /\ inUse(u, k) /\ y \in Nat /\ Buffer(u)
    BY <1>1, <1>2, <1>4
  <2> HIDE DEF k
  <2> AmountSet(u, k, y, t)
    BY ONLY <1>3, <2>1, SetAmount
  <2> QED BY DEF AmountSet
<1>6. Sum(t) = Sum(s)
  <2>1. x + y = s.refills[h].rAmount + s.refills[k].rAmount
    BY DEF refill_head, refill_tail
  <2> DEFINE a == s.refills[h].rAmount
             b == s.refills[k].rAmount
  <2>2. /\ x + y = a + b /\ Sum(u) = Sum(s) - a + x /\ Sum(t) = Sum(u) - b + y
        /\ a \in Nat /\ b \in Nat /\ x \in Nat /\ y \in Nat /\ Sum(s) \in Nat
    BY <1>1, <1>2, <1>4, <1>5, <2>1
  <2> HIDE DEF a, b
  <2> QED BY ONLY <2>2
<1>7. refill_head(t).rAmount = x
  BY <1>1, <1>2, <1>5 DEF refill_head, Frame
<1> QED BY <1>1, <1>2, <1>5, <1>6, <1>7 DEF Kept, Frame, refill_single


\* commitTime.
LEMMA CommitTime ==
  ASSUME NEW s, NEW b, Sound(s, b), NEW usage \in Nat, refill_capacity(s, usage) >= MIN_BUDGET
  PROVE  Sound(commitTime(s, usage), b)
<1>0. Buffer(s) /\ Sum(s) = b /\ b >= MIN_BUDGET /\ (isRoundRobin(s) => ~refill_single(s))
  BY DEF Sound
<1>1. /\ refill_head(s).rAmount \in Nat /\ refill_tail(s).rAmount \in Nat
      /\ MIN_BUDGET \in Nat /\ MIN_BUDGET > 0
  BY <1>0, BufferFields, Sizes
<1>2. usage < refill_head(s).rAmount /\ refill_head(s).rAmount - usage >= MIN_BUDGET
  BY <1>1 DEF refill_capacity
<1>3. CASE isRoundRobin(s)
  <2> DEFINE x == refill_head(s).rAmount - usage
             y == refill_tail(s).rAmount + usage
             t == [s EXCEPT !.refills[s.scRefillHead].rAmount = x, !.refills[s.scRefillTail].rAmount = y]
  <2>1. commitTime(s, usage) = t
    <3>1. s.scRefillHead # s.scRefillTail /\ s.scRefillHead \in Slots /\ s.scRefillTail \in Slots /\ s \in Contexts
      BY <1>0, <1>3, BufferFields DEF refill_single
    <3> QED BY <1>3, <3>1 DEF commitTime, refill_head, refill_tail, Contexts, Refills
  <2>2. x \in Nat /\ y \in Nat /\ x >= MIN_BUDGET
        /\ x + y = refill_head(s).rAmount + refill_tail(s).rAmount
    BY <1>1, <1>2
  <2>3. Kept(s, t) /\ refill_head(t).rAmount >= MIN_BUDGET /\ ~refill_single(t)
    <3>1. t = [s EXCEPT !.refills[s.scRefillHead].rAmount = x, !.refills[s.scRefillTail].rAmount = y]
      OBVIOUS
    <3> HIDE DEF t, x, y
    <3> QED BY <1>0, <1>3, <2>2, <3>1, MoveToTail
  <2> HIDE DEF t
  <2> QED BY <1>0, <2>1, <2>3 DEF Kept, Sound
<1>4. CASE ~isRoundRobin(s)
  <2>1. commitTime(s, usage) = refill_split_check(s, usage)
    BY <1>4 DEF commitTime
  <2>2. /\ Kept(s, refill_split_check(s, usage))
        /\ refill_head(refill_split_check(s, usage)).rAmount >= MIN_BUDGET
    BY <1>0, <1>2, SplitCheck
  <2> QED BY <1>0, <1>4, <2>1, <2>2 DEF Kept, Sound, isRoundRobin
<1> QED BY <1>3, <1>4

\* chargeBudget.
LEMMA ChargeBudget ==
  ASSUME NEW s, NEW b, Sound(s, b), NEW usage \in Nat, NEW time \in Nat
  PROVE  Sound(chargeBudget(s, usage, time), b)
<1>0. /\ Buffer(s) /\ Sum(s) = b /\ b >= MIN_BUDGET /\ (isRoundRobin(s) => ~refill_single(s))
      /\ refill_head(s).rAmount >= MIN_BUDGET
  BY DEF Sound
<1>1. /\ refill_head(s).rAmount \in Nat /\ refill_tail(s).rAmount \in Nat
      /\ MIN_BUDGET \in Nat /\ MIN_BUDGET > 0
  BY <1>0, BufferFields, Sizes
<1>3. CASE isRoundRobin(s)
  <2> DEFINE x == refill_head(s).rAmount + refill_tail(s).rAmount
             t == [s EXCEPT !.refills[s.scRefillHead].rAmount = x, !.refills[s.scRefillTail].rAmount = 0]
  <2>1. chargeBudget(s, usage, time) = t
    <3>1. s.scRefillHead # s.scRefillTail /\ s.scRefillHead \in Slots /\ s.scRefillTail \in Slots /\ s \in Contexts
      BY <1>0, <1>3, BufferFields DEF refill_single
    <3> QED BY <1>3, <3>1 DEF chargeBudget, refill_head, refill_tail, Contexts, Refills
  <2>2. x \in Nat /\ 0 \in Nat /\ x >= MIN_BUDGET
        /\ x + 0 = refill_head(s).rAmount + refill_tail(s).rAmount
    BY <1>0, <1>1
  <2>3. Kept(s, t) /\ refill_head(t).rAmount >= MIN_BUDGET /\ ~refill_single(t)
    <3>1. t = [s EXCEPT !.refills[s.scRefillHead].rAmount = x, !.refills[s.scRefillTail].rAmount = 0]
      OBVIOUS
    <3> HIDE DEF t, x
    <3> QED BY <1>0, <1>3, <2>2, <3>1, MoveToTail
  <2> HIDE DEF t
  <2> QED BY <1>0, <2>1, <2>3 DEF Kept, Sound
<1>4. CASE ~isRoundRobin(s)
  <2>1. chargeBudget(s, usage, time) = refill_budget_check(s, usage, time)
    BY <1>4 DEF chargeBudget
  <2>2. /\ Kept(s, refill_budget_check(s, usage, time))
        /\ refill_head(refill_budget_check(s, usage, time)).rAmount >= MIN_BUDGET
    BY <1>0, BudgetCheck
  <2> QED BY <1>0, <1>4, <2>1, <2>2 DEF Kept, Sound, isRoundRobin
<1> QED BY <1>3, <1>4

\* The scheduling context starts sound.
LEMMA InitSound == Init => IInv
<1> SUFFICES ASSUME Init PROVE IInv
  OBVIOUS
<1>1. PICK p \in Params : sc = configured(Inactive, p, FALSE, 0) /\ budget = p.budget
  BY DEF Init
<1>2. Inactive \in Contexts
  BY DEF Inactive, Contexts, Refills, Blank, Slots
<1>3. Sound(configured(Inactive, p, FALSE, 0), p.budget)
  BY <1>2, Configured
<1> QED BY <1>1, <1>3 DEF Init, IInv

\* Every kernel entry leaves it sound.
LEMMA NextSound == IInv /\ [Next]_vars => IInv'
<1> SUFFICES ASSUME IInv, [Next]_vars PROVE IInv'
  OBVIOUS
<1> USE DEF IInv
<1>0. /\ Sound(sc, budget) /\ now \in Nat /\ consumed \in Nat /\ Buffer(sc) /\ sc \in Contexts
      /\ refill_head(sc).rAmount \in Nat /\ refill_head(sc).rAmount >= MIN_BUDGET
      /\ MaxTime \in Nat /\ MaxStep \in Nat
  BY BufferFields, ParamsAssumption DEF Sound
<1>1. ASSUME NEW d \in 1 .. MaxTime, EntryAfter(d)
      PROVE  now' = now + d /\ now' \in Nat /\ consumed + d \in Nat
  BY <1>0, <1>1 DEF EntryAfter
<1>2. ASSUME NEW d \in 1 .. MaxTime, BudgetExpired(d) PROVE IInv'
  <2>1. sc' = chargeBudget(sc, consumed + d, now') /\ consumed' = 0 /\ budget' = budget /\ EntryAfter(d)
    BY <1>2 DEF BudgetExpired
  <2>2. Sound(sc', budget)
    BY <1>0, <1>1, <2>1, ChargeBudget
  <2> QED BY <1>1, <2>1, <2>2
<1>3. ASSUME NEW d \in 1 .. MaxTime, RunOn(d) PROVE IInv'
  BY <1>0, <1>1, <1>3 DEF RunOn
<1>4. ASSUME NEW d \in 1 .. MaxTime, EntryAfter(d), checkBudget(consumed + d)
      PROVE  Sound(commitTime(sc, consumed + d), budget)
  BY <1>0, <1>1, <1>4, CommitTime DEF checkBudget
<1>5. ASSUME NEW d \in 1 .. MaxTime, Commit(d) PROVE IInv'
  <2>1. /\ sc' = commitTime(sc, consumed + d) /\ consumed' = 0 /\ budget' = budget
        /\ EntryAfter(d) /\ checkBudget(consumed + d)
    BY <1>5 DEF Commit
  <2> QED BY <1>1, <1>4, <2>1
<1>6. ASSUME NEW d \in 1 .. MaxTime, Yield(d) PROVE IInv'
  <2>1. /\ sc' = chargeBudget(sc, refill_head(sc).rAmount, now') /\ consumed' = 0 /\ budget' = budget
        /\ EntryAfter(d)
    BY <1>6 DEF Yield
  <2>2. Sound(sc', budget)
    BY <1>0, <1>1, <2>1, ChargeBudget
  <2> QED BY <1>1, <2>1, <2>2
<1>7. ASSUME NEW d \in 1 .. MaxTime, NEW p \in Params, ConfigureSelf(d, p) PROVE IInv'
  <2> DEFINE s == commitTime(sc, consumed + d)
  <2>1. /\ sc' = configured(s, p, TRUE, now') /\ consumed' = 0 /\ budget' = p.budget
        /\ EntryAfter(d) /\ checkBudget(consumed + d)
    BY <1>7 DEF ConfigureSelf
  <2>2. Sound(s, budget)
    BY <1>4, <2>1
  <2> HIDE DEF s
  <2>3. Buffer(s) /\ refill_head(s).rAmount >= MIN_BUDGET /\ s \in Contexts
    BY <2>2, BufferFields DEF Sound
  <2>4. Sound(configured(s, p, TRUE, now'), p.budget)
    BY <1>1, <2>1, <2>3, Configured
  <2> QED BY <1>1, <2>1, <2>4
<1>8. ASSUME NEW d \in 1 .. MaxStep, Elapse(d) PROVE IInv'
  BY <1>0, <1>8 DEF Elapse
<1>9. CASE Dispatch
  <2>1. /\ sc' = refill_unblock_check(sc, now)
        /\ now' = now /\ consumed' = consumed /\ budget' = budget
    BY <1>9 DEF Dispatch
  <2>2. /\ Kept(sc, refill_unblock_check(sc, now))
        /\ refill_head(refill_unblock_check(sc, now)).rAmount >= MIN_BUDGET
        /\ isRoundRobin(sc) => refill_unblock_check(sc, now) = sc
    BY <1>0, UnblockCheck
  <2>3. Sound(refill_unblock_check(sc, now), budget)
    BY <1>0, <2>2 DEF Kept, Sound, isRoundRobin
  <2> QED BY <1>0, <2>1, <2>3
<1>10. CASE Wake
  BY <1>0, <1>10 DEF Wake
<1>11. CASE Suspend
  BY <1>0, <1>11 DEF Suspend
<1>12. ASSUME NEW p \in Params, ConfigureOther(p) PROVE IInv'
  <2>1. /\ sc' = configured(sc, p, place # "blocked", now)
        /\ budget' = p.budget /\ now' = now /\ consumed' = consumed
    BY <1>12 DEF ConfigureOther
  <2>2. Sound(configured(sc, p, place # "blocked", now), p.budget)
    BY <1>0, Configured
  <2> QED BY <1>0, <2>1, <2>2
<1>13. CASE DispatchAfterDeleted
  <2>1. sc' = sc /\ now' = now /\ budget' = budget
    BY <1>13 DEF DispatchAfterDeleted
  <2>2. consumed' = 0 \/ \E used \in 1 .. OtherBudget : consumed' = used
    BY <1>13 DEF DispatchAfterDeleted
  <2> QED BY <1>0, <2>1, <2>2
<1>14. CASE UNCHANGED vars
  BY <1>0, <1>14 DEF vars
<1> QED BY <1>2, <1>3, <1>5, <1>6, <1>7, <1>8, <1>9, <1>10, <1>11, <1>12, <1>13, <1>14 DEF Next

\* IInv is an invariant.
LEMMA AlwaysSound == Spec => []IInv
BY InitSound, NextSound, PTL DEF Spec

\* The refills of a scheduling context sum to its budget after every kernel entry, and the buffer's
\* indices are inside it: for every budget, period and size of the buffer, however late the timer is.
THEOREM RefillsSumToBudget == Spec => []RefillSanity
<1>1. IInv => RefillSanity
  <2> SUFFICES ASSUME IInv PROVE RefillSanity
    OBVIOUS
  <2>1. Buffer(sc) /\ Sum(sc) = budget
    BY DEF IInv, Sound
  <2>2. {sc.scRefillHead, sc.scRefillTail} \subseteq 0 .. sc.scRefillMax - 1
    BY <2>1, BufferFields
  <2> QED BY <2>1, <2>2 DEF RefillSanity, Sum
<1> QED BY <1>1, AlwaysSound, PTL

\* The head refill of a scheduling context is never less than MIN_BUDGET: a thread that awaken() or a
\* dispatch lets run can get through a kernel entry.
THEOREM HeadAlwaysSufficient == Spec => []HeadSufficient
<1>1. IInv => HeadSufficient
  BY DEF IInv, Sound, HeadSufficient
<1> QED BY <1>1, AlwaysSound, PTL

=============================================================================
