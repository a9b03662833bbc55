--------------------------- MODULE SharingProofs ---------------------------
(***************************************************************************)
(* The arithmetic by which a GEMM is shared, for every problem, block size *)
(* and number of threads.                                                  *)
(*                                                                         *)
(* First, dlp_thread_task_range shares a loop exactly.  With whole blocks  *)
(* q * n_way + r and r < n_way, the range of work id w starts after w*q    *)
(* blocks and one block more for each larger range below it; both formulas *)
(* of the code, for the larger and for the smaller ranges, say so where    *)
(* they meet.                                                              *)
(*                                                                         *)
(* Then, the threading functions return a factorisation.  The greedy loop  *)
(* of dlp_thread_partition_2x2 keeps t1 * t2 * (factor left) * (rest) equal *)
(* to the thread count; each heuristic moves from a pair of co-factors to  *)
(* the neighbouring pair, which the two independent searches of            *)
(* dlp_next_factor and dlp_prev_factor reach together.                     *)
(***************************************************************************)
EXTENDS TaskRange, ThreadFactors, FiniteSetTheorems, TLAPS

\* Quotient and remainder of the two divisions in dlp_thread_task_range.
LEMMA DivMod ==
  ASSUME NEW x \in Nat, NEW d \in Nat \ {0}
  PROVE  /\ x \div d \in Nat /\ x % d \in Nat
         /\ x % d < d /\ x = (x \div d) * d + (x % d)
<1> DEFINE q == x \div d
           r == x % d
<1>1. q \in Int /\ r \in Int /\ 0 <= r /\ r < d /\ x = d * q + r
  OBVIOUS
<1> HIDE DEF q, r
<1>2. q > -1
  BY <1>1
<1>3. q \in Nat /\ r \in Nat /\ r < d /\ x = q * d + r
  BY <1>1, <1>2
<1>4. x \div d = q /\ x % d = r
  BY DEF q, r
<1> QED
  BY <1>3, <1>4

\* A product of naturals is one, and a multiple leaves no remainder.
LEMMA Multiple ==
  ASSUME NEW a \in Nat, NEW d \in Nat \ {0}
  PROVE  a * d \in Nat /\ (a * d) % d = 0
<1> DEFINE q == (a * d) \div d
           r == (a * d) % d
<1>1. a * d \in Nat
  OBVIOUS
<1>2. q \in Nat /\ r \in Nat /\ r < d /\ a * d = q * d + r
  BY <1>1, DivMod
<1> HIDE DEF q, r
<1>3. (a - q) * d = r
  BY <1>2
<1>4. a - q < 1
  BY <1>2, <1>3
<1>5. a - q > -1
  BY <1>2, <1>3
<1> QED
  BY <1>1, <1>2, <1>3, <1>4, <1>5 DEF r

----------------------------------------------------------------------------
\* Whole blocks of each range, and blocks over.
Each(n_way, n, bf) == (n \div bf) \div n_way
Over(n_way, n, bf) == (n \div bf) % n_way

\* Together with the fringe they make up the loop.
LEMMA BlockCounts ==
  ASSUME NEW n_way \in Nat \ {0}, NEW n \in Nat, NEW bf \in Nat \ {0}
  PROVE  /\ Each(n_way, n, bf) \in Nat
         /\ Over(n_way, n, bf) \in Nat
         /\ Over(n_way, n, bf) < n_way
         /\ n % bf \in Nat
         /\ n = (Each(n_way, n, bf) * n_way + Over(n_way, n, bf)) * bf + (n % bf)
<1> DEFINE whole == n \div bf
<1>1. whole \in Nat /\ n % bf \in Nat /\ n = whole * bf + (n % bf)
  BY DivMod
<1> HIDE DEF whole
<1>2. /\ whole \div n_way \in Nat /\ whole % n_way \in Nat /\ whole % n_way < n_way
      /\ whole = (whole \div n_way) * n_way + (whole % n_way)
  BY <1>1, DivMod
<1>3. Each(n_way, n, bf) = whole \div n_way /\ Over(n_way, n, bf) = whole % n_way
  BY DEF Each, Over, whole
<1> QED
  BY <1>1, <1>2, <1>3

----------------------------------------------------------------------------
\* The start of range w with the fringe at the high end, in blocks: q each,
\* and one more for each of the first r ranges below it.
HighBlocks(q, r, w) == IF w < r THEN w * (q + 1) ELSE r * (q + 1) + (w - r) * q

\* The code's two groups, read as one formula.
LEMMA EdgeHighBounds ==
  ASSUME NEW n_way \in Nat \ {0}, NEW n \in Nat, NEW bf \in Nat \ {0},
         NEW w \in 0 .. n_way - 1, NEW q, NEW r, NEW left,
         q = Each(n_way, n, bf), r = Over(n_way, n, bf), left = n % bf
  PROVE  /\ EdgeHigh(n_way, w, n, bf).start = HighBlocks(q, r, w) * bf
         /\ EdgeHigh(n_way, w, n, bf).end =
              HighBlocks(q, r, w + 1) * bf + (IF w = n_way - 1 THEN left ELSE 0)
<1>1. left \in Nat
  BY BlockCounts
<1>2. q \in Nat /\ r \in Nat /\ r < n_way
  BY BlockCounts
<1>3. EdgeHigh(n_way, w, n, bf) =
        LET lo == q + (IF r # 0 THEN 1 ELSE 0)
            hs == r * (lo * bf)
        IN  IF w < r THEN Span(w * (lo * bf), (w + 1) * (lo * bf))
            ELSE Span(hs + (w - r) * (q * bf),
                      hs + (w - r + 1) * (q * bf) + (IF w = n_way - 1 THEN left ELSE 0))
  BY DEF EdgeHigh, Each, Over
<1>4. CASE w < r
  <2>1. EdgeHigh(n_way, w, n, bf) = Span(w * ((q + 1) * bf), (w + 1) * ((q + 1) * bf))
    BY <1>2, <1>3, <1>4
  <2>2. w # n_way - 1
    BY <1>2, <1>4
  <2>3. HighBlocks(q, r, w + 1) = (w + 1) * (q + 1)
    BY <1>2, <1>4 DEF HighBlocks
  <2>4. HighBlocks(q, r, w) = w * (q + 1)
    BY <1>4 DEF HighBlocks
  <2>5. w * ((q + 1) * bf) = (w * (q + 1)) * bf
    BY <1>2
  <2>6. (w + 1) * ((q + 1) * bf) = ((w + 1) * (q + 1)) * bf + 0
    BY <1>2
  <2> QED
    BY <2>1, <2>2, <2>3, <2>4, <2>5, <2>6 DEF Span
<1>5. CASE ~(w < r)
  <2> DEFINE fringe == IF w = n_way - 1 THEN left ELSE 0
  <2>0. fringe \in Nat
    BY <1>1
  <2>1. EdgeHigh(n_way, w, n, bf)
          = Span(r * ((q + 1) * bf) + (w - r) * (q * bf),
                 r * ((q + 1) * bf) + (w - r + 1) * (q * bf) + fringe)
    <3>1. CASE r = 0
      <4>1. EdgeHigh(n_way, w, n, bf)
              = Span(0 * (q * bf) + (w - 0) * (q * bf),
                     0 * (q * bf) + (w - 0 + 1) * (q * bf) + fringe)
        BY <1>2, <1>3, <1>5, <3>1
      <4>2. 0 * (q * bf) = 0 * ((q + 1) * bf)
        BY <1>2
      <4> QED
        BY <4>1, <4>2, <3>1
    <3>2. CASE r # 0
      BY <1>2, <1>3, <1>5, <3>2
    <3> QED
      BY <3>1, <3>2
  <2> HIDE DEF fringe
  <2>2. HighBlocks(q, r, w) = r * (q + 1) + (w - r) * q
    BY <1>5 DEF HighBlocks
  <2>3. HighBlocks(q, r, w + 1) = r * (q + 1) + (w - r + 1) * q
    BY <1>2, <1>5 DEF HighBlocks
  <2>4. r * ((q + 1) * bf) + (w - r) * (q * bf) = (r * (q + 1) + (w - r) * q) * bf
    BY <1>2
  <2>5. r * ((q + 1) * bf) + (w - r + 1) * (q * bf) + fringe
          = (r * (q + 1) + (w - r + 1) * q) * bf + fringe
    BY <1>2, <2>0
  <2> QED
    BY <2>1, <2>2, <2>3, <2>4, <2>5 DEF Span, fringe
<1> QED
  BY <1>4, <1>5

\* The formula starts at 0, ends with the last block and never decreases.
LEMMA HighBlocksMonotone ==
  ASSUME NEW q \in Nat, NEW r \in Nat, NEW n_way \in Nat \ {0}, r < n_way
  PROVE  /\ HighBlocks(q, r, 0) = 0
         /\ HighBlocks(q, r, n_way) = q * n_way + r
         /\ \A w \in Nat : /\ HighBlocks(q, r, w) \in Nat
                           /\ HighBlocks(q, r, w) <= HighBlocks(q, r, w + 1)
<1>1. HighBlocks(q, r, 0) = 0
  <2>1. CASE r = 0
    BY <2>1 DEF HighBlocks
  <2>2. CASE r # 0
    BY <2>2 DEF HighBlocks
  <2> QED
    BY <2>1, <2>2
<1>2. HighBlocks(q, r, n_way) = q * n_way + r
  <2>1. HighBlocks(q, r, n_way) = r * (q + 1) + (n_way - r) * q
    BY DEF HighBlocks
  <2> QED
    BY <2>1
<1>3. ASSUME NEW w \in Nat
      PROVE  HighBlocks(q, r, w) \in Nat /\ HighBlocks(q, r, w) <= HighBlocks(q, r, w + 1)
  <2>1. CASE w < r
    <3>1. HighBlocks(q, r, w) = w * (q + 1)
      BY <2>1 DEF HighBlocks
    <3>2. HighBlocks(q, r, w + 1) = (w + 1) * (q + 1)
      BY <2>1 DEF HighBlocks
    <3> QED
      BY <3>1, <3>2
  <2>2. CASE ~(w < r)
    <3>1. HighBlocks(q, r, w) = r * (q + 1) + (w - r) * q
      BY <2>2 DEF HighBlocks
    <3>2. HighBlocks(q, r, w + 1) = r * (q + 1) + (w - r + 1) * q
      BY <2>2 DEF HighBlocks
    <3>3. r * (q + 1) \in Nat /\ (w - r) * q \in Nat
      BY <2>2
    <3>4. (w - r + 1) * q = (w - r) * q + q
      BY <2>2
    <3> QED
      BY <3>1, <3>2, <3>3, <3>4
  <2> QED
    BY <2>1, <2>2
<1> QED
  BY <1>1, <1>2, <1>3
----------------------------------------------------------------------------
\* The start of range w with the fringe at the low end, in blocks: the r
\* larger ranges are the last.
LowBlocks(q, lo, w) == IF w < lo THEN w * q ELSE lo * q + (w - lo) * (q + 1)

\* The code's two groups, read as one formula; the fringe shifts every range
\* but the first.
LEMMA EdgeLowBounds ==
  ASSUME NEW n_way \in Nat \ {0}, NEW n \in Nat, NEW bf \in Nat \ {0},
         NEW w \in 0 .. n_way - 1, NEW q, NEW r, NEW left, NEW lo,
         q = Each(n_way, n, bf), r = Over(n_way, n, bf), left = n % bf,
         lo = n_way - r
  PROVE  /\ EdgeLow(n_way, w, n, bf).start =
              LowBlocks(q, lo, w) * bf + (IF w = 0 THEN 0 ELSE left)
         /\ EdgeLow(n_way, w, n, bf).end = LowBlocks(q, lo, w + 1) * bf + left
<1>1. left \in Nat
  BY BlockCounts
<1>2. q \in Nat /\ r \in Nat /\ r < n_way
  BY BlockCounts
<1>3. lo \in Nat \ {0}
  BY <1>2
<1>4. EdgeLow(n_way, w, n, bf) =
        LET hi == q + (IF r # 0 THEN 1 ELSE 0)
            hs == lo * (q * bf) + left
        IN  IF w < lo THEN Span(w * (q * bf) + (IF w = 0 THEN 0 ELSE left),
                                (w + 1) * (q * bf) + left)
            ELSE Span(hs + (w - lo) * (hi * bf), hs + (w - lo + 1) * (hi * bf))
  BY DEF EdgeLow, Each, Over
<1>5. CASE w < lo
  <2> DEFINE shift == IF w = 0 THEN 0 ELSE left
  <2>0. shift \in Nat
    BY <1>1
  <2>1. EdgeLow(n_way, w, n, bf) = Span(w * (q * bf) + shift, (w + 1) * (q * bf) + left)
    BY <1>4, <1>5
  <2> HIDE DEF shift
  <2>2. LowBlocks(q, lo, w) = w * q
    BY <1>5 DEF LowBlocks
  <2>3. LowBlocks(q, lo, w + 1) = (w + 1) * q
    BY <1>2, <1>3, <1>5 DEF LowBlocks
  <2>4. w * (q * bf) + shift = (w * q) * bf + shift
    BY <1>2, <2>0
  <2>5. (w + 1) * (q * bf) + left = ((w + 1) * q) * bf + left
    BY <1>1, <1>2
  <2> QED
    BY <2>1, <2>2, <2>3, <2>4, <2>5 DEF Span, shift
<1>6. CASE ~(w < lo)
  <2>1. r # 0 /\ w # 0
    BY <1>2, <1>6
  <2>2. EdgeLow(n_way, w, n, bf)
          = Span(lo * (q * bf) + left + (w - lo) * ((q + 1) * bf),
                 lo * (q * bf) + left + (w - lo + 1) * ((q + 1) * bf))
    BY <1>4, <1>6, <2>1
  <2>3. LowBlocks(q, lo, w) = lo * q + (w - lo) * (q + 1)
    BY <1>6 DEF LowBlocks
  <2>4. LowBlocks(q, lo, w + 1) = lo * q + (w - lo + 1) * (q + 1)
    BY <1>3, <1>6 DEF LowBlocks
  <2>5. lo * (q * bf) + left + (w - lo) * ((q + 1) * bf)
          = (lo * q + (w - lo) * (q + 1)) * bf + left
    BY <1>1, <1>2, <1>3
  <2>6. lo * (q * bf) + left + (w - lo + 1) * ((q + 1) * bf)
          = (lo * q + (w - lo + 1) * (q + 1)) * bf + left
    BY <1>1, <1>2, <1>3
  <2> QED
    BY <2>1, <2>2, <2>3, <2>4, <2>5, <2>6 DEF Span
<1> QED
  BY <1>5, <1>6

\* The formula starts at 0, ends with the last block and never decreases.
LEMMA LowBlocksMonotone ==
  ASSUME NEW q \in Nat, NEW r \in Nat, NEW n_way \in Nat \ {0}, r < n_way
  PROVE  /\ LowBlocks(q, n_way - r, 0) = 0
         /\ LowBlocks(q, n_way - r, n_way) = q * n_way + r
         /\ \A w \in Nat : /\ LowBlocks(q, n_way - r, w) \in Nat
                           /\ LowBlocks(q, n_way - r, w) <= LowBlocks(q, n_way - r, w + 1)
<1> DEFINE lo == n_way - r
<1>0. lo \in Nat \ {0} /\ r = n_way - lo
  OBVIOUS
<1> HIDE DEF lo
<1>1. LowBlocks(q, lo, 0) = 0
  BY <1>0 DEF LowBlocks
<1>2. LowBlocks(q, lo, n_way) = q * n_way + r
  <2>1. LowBlocks(q, lo, n_way) = lo * q + (n_way - lo) * (q + 1)
    BY <1>0 DEF LowBlocks
  <2> QED
    BY <2>1, <1>0
<1>3. ASSUME NEW w \in Nat
      PROVE  LowBlocks(q, lo, w) \in Nat /\ LowBlocks(q, lo, w) <= LowBlocks(q, lo, w + 1)
  <2>1. CASE w < lo
    <3>1. LowBlocks(q, lo, w) = w * q
      BY <2>1 DEF LowBlocks
    <3>2. LowBlocks(q, lo, w + 1) = (w + 1) * q
      BY <1>0, <2>1 DEF LowBlocks
    <3> QED
      BY <3>1, <3>2
  <2>2. CASE ~(w < lo)
    <3>1. LowBlocks(q, lo, w) = lo * q + (w - lo) * (q + 1)
      BY <2>2 DEF LowBlocks
    <3>2. LowBlocks(q, lo, w + 1) = lo * q + (w - lo + 1) * (q + 1)
      BY <1>0, <2>2 DEF LowBlocks
    <3>3. lo * q \in Nat /\ (w - lo) * (q + 1) \in Nat
      BY <1>0, <2>2
    <3>4. (w - lo + 1) * (q + 1) = (w - lo) * (q + 1) + (q + 1)
      BY <1>0, <2>2
    <3> QED
      BY <3>1, <3>2, <3>3, <3>4
  <2> QED
    BY <2>1, <2>2
<1> QED
  BY <1>1, <1>2, <1>3 DEF lo

----------------------------------------------------------------------------
\* The ranges dlp_thread_task_range hands out tile the loop: nothing is done
\* twice and nothing is left out, whatever the length of the loop, the block
\* size, the number of threads and the end the fringe goes to.
THEOREM TaskRangesTile ==
  ASSUME NEW n_way \in Nat \ {0}, NEW n \in Nat, NEW bf \in Nat \ {0}, NEW low \in BOOLEAN
  PROVE  RangesTile(n_way, n, bf, low)
<1> DEFINE R(w) == dlp_thread_task_range(n_way, w, n, bf, low)
<1> SUFFICES /\ R(0).start = 0
             /\ R(n_way - 1).end = n
             /\ \A w \in 0 .. n_way - 1 : R(w).start <= R(w).end
             /\ \A w \in 0 .. n_way - 2 : R(w).end = R(w + 1).start
  BY DEF RangesTile
<1>1. CASE n_way = 1
  <2>1. R(0) = Span(0, n)
    BY <1>1 DEF dlp_thread_task_range
  <2>2. n_way - 1 = 0 /\ 0 .. n_way - 1 = {0} /\ 0 .. n_way - 2 = {}
    BY <1>1
  <2> HIDE DEF R
  <2> QED
    BY <2>1, <2>2 DEF Span
<1>2. CASE n_way # 1
  <2> DEFINE left == n % bf
             q == Each(n_way, n, bf)
             r == Over(n_way, n, bf)
             lo == n_way - r
  <2>1. left \in Nat /\ n = (q * n_way + r) * bf + left
    BY BlockCounts
  <2>2. q \in Nat /\ r \in Nat /\ r < n_way
    BY BlockCounts
  <2>3. CASE ~low
    <3>1. ASSUME NEW w \in 0 .. n_way - 1
          PROVE  /\ R(w).start = HighBlocks(q, r, w) * bf
                 /\ R(w).end = HighBlocks(q, r, w + 1) * bf
                                 + (IF w = n_way - 1 THEN left ELSE 0)
      <4>1. R(w) = EdgeHigh(n_way, w, n, bf)
        BY <1>2, <2>3 DEF dlp_thread_task_range
      <4> QED
        BY <4>1, EdgeHighBounds
    <3> HIDE DEF R, q, r, left
    <3>2. /\ HighBlocks(q, r, 0) = 0
          /\ HighBlocks(q, r, n_way) = q * n_way + r
          /\ \A w \in Nat : /\ HighBlocks(q, r, w) \in Nat
                            /\ HighBlocks(q, r, w) <= HighBlocks(q, r, w + 1)
      BY <2>2, HighBlocksMonotone
    <3>3. R(0).start = 0
      BY <3>1, <3>2
    <3>4. R(n_way - 1).end = n
      BY <2>1, <3>1, <3>2
    <3>5. ASSUME NEW w \in 0 .. n_way - 1 PROVE R(w).start <= R(w).end
      <4> DEFINE a == HighBlocks(q, r, w)
                 b == HighBlocks(q, r, w + 1)
      <4>1. a \in Nat /\ b \in Nat /\ a <= b
        BY <3>2
      <4>2. R(w).start = a * bf /\ (R(w).end = b * bf + left \/ R(w).end = b * bf + 0)
        BY <3>1
      <4> HIDE DEF a, b
      <4>3. a * bf <= b * bf
        BY <4>1
      <4> QED
        BY <2>1, <4>1, <4>2, <4>3
    <3>6. ASSUME NEW w \in 0 .. n_way - 2 PROVE R(w).end = R(w + 1).start
      <4>1. R(w).end = HighBlocks(q, r, w + 1) * bf + 0
        BY <3>1
      <4>2. R(w + 1).start = HighBlocks(q, r, w + 1) * bf
        BY <3>1
      <4>3. HighBlocks(q, r, w + 1) \in Nat
        BY <3>2
      <4> QED
        BY <4>1, <4>2, <4>3
    <3> QED
      BY <3>3, <3>4, <3>5, <3>6
  <2>4. CASE low
    <3>1. ASSUME NEW w \in 0 .. n_way - 1
          PROVE  /\ R(w).start = LowBlocks(q, lo, w) * bf + (IF w = 0 THEN 0 ELSE left)
                 /\ R(w).end = LowBlocks(q, lo, w + 1) * bf + left
      <4>1. R(w) = EdgeLow(n_way, w, n, bf)
        BY <1>2, <2>4 DEF dlp_thread_task_range
      <4> QED
        BY <4>1, EdgeLowBounds
    <3>2. /\ LowBlocks(q, lo, 0) = 0
          /\ LowBlocks(q, lo, n_way) = q * n_way + r
          /\ \A w \in Nat : /\ LowBlocks(q, lo, w) \in Nat
                            /\ LowBlocks(q, lo, w) <= LowBlocks(q, lo, w + 1)
      BY <2>2, LowBlocksMonotone
    <3> HIDE DEF R, q, r, left, lo
    <3>3. R(0).start = 0
      <4>1. R(0).start = LowBlocks(q, lo, 0) * bf + 0
        BY <3>1
      <4>2. LowBlocks(q, lo, 0) = 0
        BY <3>2
      <4>3. 0 * bf + 0 = 0
        OBVIOUS
      <4> QED
        BY <4>1, <4>2, <4>3
    <3>4. R(n_way - 1).end = n
      BY <2>1, <2>2, <3>1, <3>2
    <3>5. ASSUME NEW w \in 0 .. n_way - 1 PROVE R(w).start <= R(w).end
      <4> DEFINE a == LowBlocks(q, lo, w)
                 b == LowBlocks(q, lo, w + 1)
      <4>1. a \in Nat /\ b \in Nat /\ a <= b
        BY <3>2
      <4>2. R(w).end = b * bf + left /\ (R(w).start = a * bf + left \/ R(w).start = a * bf + 0)
        BY <3>1
      <4> HIDE DEF a, b
      <4>3. a * bf <= b * bf
        BY <4>1
      <4> QED
        BY <2>1, <4>1, <4>2, <4>3
    <3>6. ASSUME NEW w \in 0 .. n_way - 2 PROVE R(w).end = R(w + 1).start
      BY <3>1
    <3> QED
      BY <3>3, <3>4, <3>5, <3>6
  <2> QED
    BY <2>3, <2>4
<1> QED
  BY <1>1, <1>2

\* Every range begins at a multiple of the block size when the fringe is at
\* the high end, as all the drivers ask for.
THEOREM TaskRangesAligned ==
  ASSUME NEW n_way \in Nat \ {0}, NEW n \in Nat, NEW bf \in Nat \ {0}
  PROVE  RangesAligned(n_way, n, bf)
<1> SUFFICES ASSUME NEW w \in 0 .. n_way - 1
             PROVE  dlp_thread_task_range(n_way, w, n, bf, FALSE).start % bf = 0
  BY DEF RangesAligned
<1>1. CASE n_way = 1
  <2>1. dlp_thread_task_range(n_way, w, n, bf, FALSE).start = 0 * bf
    BY <1>1 DEF dlp_thread_task_range, Span
  <2> QED
    BY <2>1, Multiple
<1>2. CASE n_way # 1
  <2> DEFINE q == Each(n_way, n, bf)
             r == Over(n_way, n, bf)
  <2>2. q \in Nat /\ r \in Nat /\ r < n_way
    BY BlockCounts
  <2>3. dlp_thread_task_range(n_way, w, n, bf, FALSE).start = HighBlocks(q, r, w) * bf
    <3>1. dlp_thread_task_range(n_way, w, n, bf, FALSE) = EdgeHigh(n_way, w, n, bf)
      BY <1>2 DEF dlp_thread_task_range
    <3>2. EdgeHigh(n_way, w, n, bf).start = HighBlocks(q, r, w) * bf
      BY EdgeHighBounds
    <3> QED
      BY <3>1, <3>2
  <2> HIDE DEF q, r
  <2>4. \A v \in Nat : HighBlocks(q, r, v) \in Nat
    BY <2>2, HighBlocksMonotone
  <2>5. (HighBlocks(q, r, w) * bf) % bf = 0
    BY <2>4, Multiple
  <2> QED
    BY <2>3, <2>5
<1> QED
  BY <1>1, <1>2

----------------------------------------------------------------------------
(* With the fringe at the high end, as the drivers have it: every iteration *)
(* belongs to one work id.                                                  *)

\* The larger of two products.
LEMMA TimesMonotone ==
  ASSUME NEW a \in Nat, NEW b \in Nat, NEW d \in Nat, a <= b
  PROVE  a * d \in Nat /\ b * d \in Nat /\ a * d <= b * d
<1>1. PICK e \in Nat : b = a + e
  <2>1. b - a \in Nat /\ b = a + (b - a)
    OBVIOUS
  <2> QED BY <2>1
<1>2. b * d = a * d + e * d
  BY <1>1
<1>3. a * d \in Nat /\ e * d \in Nat
  OBVIOUS
<1> QED
  BY <1>2, <1>3

\* The blocks below a range grow with the work id, also over several of them.
LEMMA HighBlocksOrdered ==
  ASSUME NEW q \in Nat, NEW r \in Nat, NEW v \in Nat, NEW w \in Nat, v <= w
  PROVE  HighBlocks(q, r, v) \in Nat /\ HighBlocks(q, r, v) <= HighBlocks(q, r, w)
<1>1. ASSUME NEW x \in Nat
      PROVE  HighBlocks(q, r, x) = x * q + (IF x < r THEN x ELSE r)
  <2>1. CASE x < r
    BY <2>1 DEF HighBlocks
  <2>2. CASE ~(x < r)
    <3>1. HighBlocks(q, r, x) = r * (q + 1) + (x - r) * q
      BY <2>2 DEF HighBlocks
    <3>2. r * (q + 1) + (x - r) * q = x * q + r
      OBVIOUS
    <3> QED BY <2>2, <3>1, <3>2
  <2> QED BY <2>1, <2>2
<1>2. v * q \in Nat /\ w * q \in Nat /\ v * q <= w * q
  BY TimesMonotone
<1>3. (IF v < r THEN v ELSE r) <= (IF w < r THEN w ELSE r)
  OBVIOUS
<1>4. HighBlocks(q, r, v) = v * q + (IF v < r THEN v ELSE r)
  BY <1>1
<1>5. HighBlocks(q, r, w) = w * q + (IF w < r THEN w ELSE r)
  BY <1>1
<1> QED
  BY <1>2, <1>3, <1>4, <1>5

\* The range of a work id in terms of blocks.
LEMMA HighRange ==
  ASSUME NEW n_way \in Nat \ {0}, NEW n \in Nat, NEW bf \in Nat \ {0}, NEW w \in 0 .. n_way - 1
  PROVE  LET q == Each(n_way, n, bf)
             r == Over(n_way, n, bf)
             R == dlp_thread_task_range(n_way, w, n, bf, FALSE)
         IN  /\ R.start = HighBlocks(q, r, w) * bf
             /\ R.end = HighBlocks(q, r, w + 1) * bf + (IF w = n_way - 1 THEN n % bf ELSE 0)
<1> DEFINE q == Each(n_way, n, bf)
           r == Over(n_way, n, bf)
           left == n % bf
           R == dlp_thread_task_range(n_way, w, n, bf, FALSE)
<1>0. /\ q \in Nat /\ r \in Nat /\ r < n_way /\ n % bf \in Nat
      /\ n = (q * n_way + r) * bf + (n % bf)
  BY BlockCounts
<1>1. CASE n_way # 1
  <2>1. R = EdgeHigh(n_way, w, n, bf)
    BY <1>1 DEF dlp_thread_task_range
  <2>2. /\ EdgeHigh(n_way, w, n, bf).start = HighBlocks(q, r, w) * bf
        /\ EdgeHigh(n_way, w, n, bf).end =
             HighBlocks(q, r, w + 1) * bf + (IF w = n_way - 1 THEN left ELSE 0)
    <3>1. q = Each(n_way, n, bf) /\ r = Over(n_way, n, bf) /\ left = n % bf
      OBVIOUS
    <3> HIDE DEF q, r, left, R
    <3> QED BY <3>1, EdgeHighBounds
  <2> QED BY <2>1, <2>2
<1>2. CASE n_way = 1
  <2>1. w = 0 /\ r = 0 /\ n_way - 1 = 0 /\ w + 1 = 1
    BY <1>0, <1>2
  <2>2. R.start = 0 /\ R.end = n
    BY <1>2, <2>1 DEF dlp_thread_task_range, Span
  <2> HIDE DEF q, r, R
  <2>3. HighBlocks(q, r, w) = 0 /\ HighBlocks(q, r, w + 1) = q
    BY <1>0, <2>1 DEF HighBlocks
  <2>4. n = q * bf + (n % bf)
    BY <1>0, <1>2, <2>1
  <2>5. R.start = HighBlocks(q, r, w) * bf
    BY <2>2, <2>3
  <2>6. R.end = HighBlocks(q, r, w + 1) * bf + (n % bf)
    BY <2>2, <2>3, <2>4
  <2> QED BY <2>1, <2>5, <2>6 DEF q, r, R
<1> QED
  BY <1>1, <1>2

\* A range lies within the loop.
LEMMA RangeWithin ==
  ASSUME NEW n_way \in Nat \ {0}, NEW n \in Nat, NEW bf \in Nat \ {0}, NEW w \in 0 .. n_way - 1
  PROVE  LET R == dlp_thread_task_range(n_way, w, n, bf, FALSE)
         IN  R.start \in Nat /\ R.end \in Nat /\ R.start <= R.end /\ R.end <= n
<1> DEFINE q == Each(n_way, n, bf)
           r == Over(n_way, n, bf)
           left == n % bf
           R == dlp_thread_task_range(n_way, w, n, bf, FALSE)
           a == HighBlocks(q, r, w)
           b == HighBlocks(q, r, w + 1)
           z == HighBlocks(q, r, n_way)
<1>1. /\ q \in Nat /\ r \in Nat /\ r < n_way /\ left \in Nat
      /\ n = (q * n_way + r) * bf + left
  BY BlockCounts
<1>2. R.start = a * bf /\ (R.end = b * bf + left \/ R.end = b * bf + 0)
  BY HighRange
<1> HIDE DEF q, r, left, R
<1>3. z = q * n_way + r
  BY <1>1, HighBlocksMonotone
<1>4. a \in Nat /\ a <= b /\ b \in Nat /\ b <= z /\ z \in Nat
  <2>1. w \in Nat /\ w + 1 \in Nat /\ n_way \in Nat /\ w <= w + 1 /\ w + 1 <= n_way /\ n_way <= n_way
    OBVIOUS
  <2>2. a \in Nat /\ a <= b
    BY <1>1, <2>1, HighBlocksOrdered
  <2>3. b \in Nat /\ b <= z
    BY <1>1, <2>1, HighBlocksOrdered
  <2>4. z \in Nat
    BY <1>1, <2>1, HighBlocksOrdered
  <2> QED BY <2>2, <2>3, <2>4
<1> HIDE DEF a, b, z
<1>5. a * bf \in Nat /\ b * bf \in Nat /\ a * bf <= b * bf /\ z * bf \in Nat /\ b * bf <= z * bf
  BY <1>4, TimesMonotone
<1>6. n = z * bf + left
  BY <1>1, <1>3
<1>7. R.start \in Nat /\ R.end \in Nat /\ R.start <= R.end /\ R.end <= n
  BY <1>1, <1>2, <1>5, <1>6
<1> QED
  BY <1>7 DEF R

\* Ranges of different work ids do not meet.
LEMMA RangesApart ==
  ASSUME NEW n_way \in Nat \ {0}, NEW n \in Nat, NEW bf \in Nat \ {0},
         NEW v \in 0 .. n_way - 1, NEW w \in 0 .. n_way - 1, v # w
  PROVE  Indices(dlp_thread_task_range(n_way, v, n, bf, FALSE))
           \cap Indices(dlp_thread_task_range(n_way, w, n, bf, FALSE)) = {}
<1> DEFINE R(x) == dlp_thread_task_range(n_way, x, n, bf, FALSE)
           q == Each(n_way, n, bf)
           r == Over(n_way, n, bf)
<1>1. q \in Nat /\ r \in Nat /\ r < n_way
  BY BlockCounts
<1>2. ASSUME NEW x \in 0 .. n_way - 1, NEW y \in 0 .. n_way - 1, x < y
      PROVE  R(x).end <= R(y).start
  <2> DEFINE a == HighBlocks(q, r, x + 1)
             b == HighBlocks(q, r, y)
  <2>1. R(x).end = a * bf + (IF x = n_way - 1 THEN n % bf ELSE 0) /\ R(y).start = b * bf
    BY HighRange
  <2>2. x # n_way - 1 /\ x + 1 \in Nat /\ y \in Nat /\ x + 1 <= y
    BY <1>2
  <2> HIDE DEF R, q, r
  <2>3. a \in Nat /\ b \in Nat /\ a <= b
    BY <1>1, <2>2, HighBlocksOrdered
  <2> HIDE DEF a, b
  <2>4. a * bf <= b * bf /\ a * bf \in Nat
    BY <2>3, TimesMonotone
  <2> QED BY <2>1, <2>2, <2>4
<1>3. \A x \in 0 .. n_way - 1 : R(x).start \in Nat /\ R(x).end \in Nat
  BY RangeWithin
<1> HIDE DEF R
<1>4. Indices(R(v)) \cap Indices(R(w)) = {}
  BY <1>2, <1>3 DEF Indices
<1> QED
  BY <1>4 DEF R

\* A block of a loop of q * n_way + r blocks belongs to a work id.
LEMMA BlockOwner ==
  ASSUME NEW q \in Nat, NEW r \in Nat, NEW n_way \in Nat \ {0}, r < n_way,
         NEW x \in Nat, x < q * n_way + r
  PROVE  \E w \in 0 .. n_way - 1 : HighBlocks(q, r, w) <= x /\ x < HighBlocks(q, r, w + 1)
<1>1. CASE x < r * (q + 1)
  <2> DEFINE w == x \div (q + 1)
             m == x % (q + 1)
  <2>1. w \in Nat /\ m \in Nat /\ m < q + 1 /\ x = w * (q + 1) + m
    <3>1. q + 1 \in Nat \ {0}
      OBVIOUS
    <3> QED BY <3>1, DivMod
  <2> HIDE DEF w, m
  <2>2. w < r
    <3>1. SUFFICES ASSUME r <= w PROVE FALSE
      BY <2>1
    <3>2. r * (q + 1) <= w * (q + 1)
      BY <2>1, <3>1, TimesMonotone
    <3>3. w * (q + 1) \in Nat /\ r * (q + 1) \in Nat
      BY <2>1
    <3> QED BY <1>1, <2>1, <3>2, <3>3
  <2>3. HighBlocks(q, r, w) = w * (q + 1)
    BY <2>2 DEF HighBlocks
  <2>4. HighBlocks(q, r, w + 1) = (w + 1) * (q + 1)
    <3>1. CASE w + 1 < r
      BY <3>1 DEF HighBlocks
    <3>2. CASE ~(w + 1 < r)
      <4>1. w + 1 = r
        BY <2>1, <2>2, <3>2
      <4>2. HighBlocks(q, r, r) = r * (q + 1) + (r - r) * q
        BY DEF HighBlocks
      <4>3. (r - r) * q = 0 /\ r * (q + 1) \in Nat
        OBVIOUS
      <4> QED BY <4>1, <4>2, <4>3
    <3> QED BY <3>1, <3>2
  <2>5. (w + 1) * (q + 1) = w * (q + 1) + (q + 1)
    BY <2>1
  <2>6. w \in 0 .. n_way - 1
    BY <2>1, <2>2
  <2>7. w * (q + 1) \in Nat
    BY <2>1
  <2> QED BY <2>1, <2>3, <2>4, <2>5, <2>6, <2>7
<1>2. CASE ~(x < r * (q + 1))
  <2> DEFINE y == x - r * (q + 1)
  <2>0. r * (q + 1) \in Nat /\ r * (q + 1) = r * q + r /\ r * q \in Nat /\ q * n_way \in Nat
    OBVIOUS
  <2>1. y \in Nat /\ x = r * (q + 1) + y
    BY <1>2, <2>0
  <2>2. y < (n_way - r) * q
    <3>1. (n_way - r) * q = n_way * q - r * q
      OBVIOUS
    <3>2. y = x - (r * q + r)
      BY <2>0
    <3> QED BY <2>0, <3>1, <3>2
  <2>3. q # 0
    <3>1. q = 0 => (n_way - r) * q = 0
      OBVIOUS
    <3> QED BY <2>1, <2>2, <3>1
  <2> HIDE DEF y
  <2> DEFINE z == y \div q
             m == y % q
             w == r + z
  <2>4. z \in Nat /\ m \in Nat /\ m < q /\ y = z * q + m
    BY <2>1, <2>3, DivMod
  <2> HIDE DEF z, m
  <2>5. z < n_way - r
    <3>1. SUFFICES ASSUME n_way - r <= z PROVE FALSE
      BY <2>4
    <3>2. (n_way - r) * q <= z * q
      BY <2>4, <3>1, TimesMonotone
    <3>3. z * q \in Nat /\ (n_way - r) * q \in Nat
      BY <2>4
    <3> QED BY <2>2, <2>4, <3>2, <3>3
  <2>6. w \in 0 .. n_way - 1 /\ ~(w < r) /\ ~(w + 1 < r) /\ w - r = z /\ w + 1 - r = z + 1
    BY <2>4, <2>5
  <2> HIDE DEF w
  <2>7. HighBlocks(q, r, w) = r * (q + 1) + z * q
    BY <2>6 DEF HighBlocks
  <2>8. HighBlocks(q, r, w + 1) = r * (q + 1) + (z + 1) * q
    BY <2>6 DEF HighBlocks
  <2>9. (z + 1) * q = z * q + q /\ z * q \in Nat
    BY <2>4
  <2>10. HighBlocks(q, r, w) <= x /\ x < HighBlocks(q, r, w + 1)
    BY <2>0, <2>1, <2>4, <2>7, <2>8, <2>9
  <2> QED BY <2>6, <2>10
<1> QED
  BY <1>1, <1>2

\* No iteration is left out.
LEMMA RangesCover ==
  ASSUME NEW n_way \in Nat \ {0}, NEW n \in Nat, NEW bf \in Nat \ {0}, NEW c \in 0 .. n - 1
  PROVE  \E w \in 0 .. n_way - 1 : c \in Indices(dlp_thread_task_range(n_way, w, n, bf, FALSE))
<1> DEFINE R(x) == dlp_thread_task_range(n_way, x, n, bf, FALSE)
           q == Each(n_way, n, bf)
           r == Over(n_way, n, bf)
           left == n % bf
           whole == q * n_way + r
           x == c \div bf
           m == c % bf
<1>1. /\ q \in Nat /\ r \in Nat /\ r < n_way /\ left \in Nat
      /\ n = whole * bf + left
  BY BlockCounts
<1>2. c \in Nat /\ x \in Nat /\ m \in Nat /\ m < bf /\ c = x * bf + m
  BY DivMod
<1>3. \A w \in 0 .. n_way - 1 :
        /\ R(w).start = HighBlocks(q, r, w) * bf
        /\ R(w).end = HighBlocks(q, r, w + 1) * bf + (IF w = n_way - 1 THEN left ELSE 0)
  BY HighRange
<1>4. \A w \in 0 .. n_way - 1 : R(w).start \in Nat /\ R(w).end \in Nat
  BY RangeWithin
<1> HIDE DEF R, q, r, left, x, m
<1>5. whole \in Nat
  BY <1>1
<1>6. CASE x < whole
  <2>1. PICK w \in 0 .. n_way - 1 : HighBlocks(q, r, w) <= x /\ x < HighBlocks(q, r, w + 1)
    BY <1>1, <1>2, <1>6, BlockOwner
  <2> DEFINE a == HighBlocks(q, r, w)
             b == HighBlocks(q, r, w + 1)
  <2>2. a \in Nat /\ b \in Nat
    <3>1. w \in Nat /\ w + 1 \in Nat /\ w <= w /\ w + 1 <= w + 1
      OBVIOUS
    <3> QED BY <1>1, <3>1, HighBlocksOrdered
  <2>3. a <= x /\ x + 1 <= b
    BY <1>2, <2>1, <2>2
  <2>4. R(w).start = a * bf /\ (R(w).end = b * bf + left \/ R(w).end = b * bf + 0)
    BY <1>3
  <2> HIDE DEF a, b
  <2>5. a * bf <= x * bf /\ (x + 1) * bf <= b * bf /\ a * bf \in Nat /\ b * bf \in Nat
    BY <1>2, <2>2, <2>3, TimesMonotone
  <2>6. (x + 1) * bf = x * bf + bf /\ x * bf \in Nat
    BY <1>2
  <2>7. R(w).start <= c /\ c < R(w).end
    BY <1>1, <1>2, <2>4, <2>5, <2>6
  <2>8. c \in Indices(R(w))
    BY <1>2, <1>4, <2>7 DEF Indices
  <2> QED BY <2>8 DEF R
<1>7. CASE ~(x < whole)
  <2> DEFINE w == n_way - 1
             a == HighBlocks(q, r, w)
             b == HighBlocks(q, r, n_way)
  <2>1. w \in 0 .. n_way - 1 /\ w + 1 = n_way
    OBVIOUS
  <2>2. a \in Nat /\ b \in Nat /\ a <= b /\ b = whole
    <3>1. w \in Nat /\ n_way \in Nat /\ w <= n_way
      OBVIOUS
    <3>2. a \in Nat /\ a <= b
      BY <1>1, <3>1, HighBlocksOrdered
    <3>3. b = whole
      BY <1>1, HighBlocksMonotone
    <3> QED BY <1>5, <3>2, <3>3
  <2>3. R(w).start = a * bf /\ R(w).end = b * bf + left
    BY <1>3, <2>1
  <2> HIDE DEF a, b, w
  <2>4. a * bf <= x * bf /\ x * bf \in Nat /\ a * bf \in Nat
    <3>1. a <= x
      BY <1>2, <1>7, <2>2
    <3> QED BY <1>2, <2>2, <3>1, TimesMonotone
  <2>5. R(w).start <= c /\ c < R(w).end
    BY <1>1, <1>2, <2>2, <2>3, <2>4
  <2>6. c \in Indices(R(w))
    BY <1>2, <1>4, <2>1, <2>5 DEF Indices
  <2> QED BY <2>1, <2>6 DEF R
<1> QED
  BY <1>6, <1>7

----------------------------------------------------------------------------
(* Least and greatest elements.  The well-ordering of the naturals, applied *)
(* to a set of counterexamples, also stands for induction.                  *)

\* A set of naturals has a least element.
LEMMA NatMin ==
  ASSUME NEW T, T \subseteq Nat, T # {}
  PROVE  \E x \in T : \A y \in T : x <= y
<1> DEFINE R == OpToRel(<, Nat)
<1>1. IsWellFoundedOn(R, Nat)
  BY NatLessThanWellFounded, Zenon
<1>2. R = {ss \in Nat \X Nat : ss[1] < ss[2]}
  BY DEF OpToRel
<1> HIDE DEF R
<1>3. PICK x \in T : \A y \in T : ~(<<y, x>> \in R)
  BY <1>1, WFMin
<1>4. \A y \in T : ~(y < x)
  BY <1>2, <1>3
<1> QED BY <1>3, <1>4

\* Min is the least element.
LEMMA MinIs ==
  ASSUME NEW T, T \subseteq Nat, T # {}
  PROVE  Min(T) \in T /\ \A y \in T : Min(T) <= y
<1>1. \E x \in T : \A y \in T : x <= y
  BY NatMin
<1> QED BY <1>1 DEF Min

\* Max of a bounded set is the greatest element.
LEMMA MaxIs ==
  ASSUME NEW T, T \subseteq Nat, T # {}, NEW b \in Nat, \A x \in T : x <= b
  PROVE  Max(T) \in T /\ \A y \in T : Max(T) >= y
<1> DEFINE U == {b - x : x \in T}
<1>1. U \subseteq Nat /\ U # {}
  OBVIOUS
<1>2. PICK u \in U : \A y \in U : u <= y
  BY <1>1, NatMin
<1>3. PICK x \in T : u = b - x
  OBVIOUS
<1>4. ASSUME NEW y \in T PROVE x >= y
  <2>1. b - x <= b - y
    BY <1>2, <1>3
  <2> QED BY <2>1
<1>5. \E z \in T : \A y \in T : z >= y
  BY <1>3, <1>4
<1> QED BY <1>5 DEF Max

----------------------------------------------------------------------------
(* Divisors.                                                               *)

\* What % 0 says.
LEMMA DivisorIs ==
  ASSUME NEW x \in Nat \ {0}, NEW d \in Nat \ {0}
  PROVE  x % d = 0 <=> \E e \in Nat \ {0} : x = d * e
<1>1. ASSUME x % d = 0 PROVE \E e \in Nat \ {0} : x = d * e
  <2> DEFINE q == x \div d
  <2>1. q \in Nat /\ x = q * d + (x % d)
    BY DivMod
  <2> HIDE DEF q
  <2>2. x = q * d
    BY <1>1, <2>1
  <2>3. q # 0
    BY <2>2
  <2> QED BY <2>1, <2>2, <2>3
<1>2. ASSUME NEW e \in Nat \ {0}, x = d * e PROVE x % d = 0
  <2>1. x = e * d
    BY <1>2
  <2> QED BY <2>1, Multiple
<1> QED BY <1>1, <1>2

\* Of two factorisations the one with the larger first factor has the smaller second one.
LEMMA FactorsOpposite ==
  ASSUME NEW a \in Nat \ {0}, NEW b \in Nat \ {0}, NEW x \in Nat \ {0}, NEW y \in Nat \ {0},
         a * b = x * y, x > a
  PROVE  y < b
<1> SUFFICES ASSUME y >= b PROVE FALSE
  OBVIOUS
<1>1. a * b <= a * y
  BY TimesMonotone
<1>2. a * y < x * y
  <2>1. PICK e \in Nat : x = a + 1 + e
    <3>1. x - a - 1 \in Nat /\ x = a + 1 + (x - a - 1)
      OBVIOUS
    <3> QED BY <3>1
  <2>2. x * y = a * y + y + e * y /\ e * y \in Nat /\ a * y \in Nat
    BY <2>1
  <2> DEFINE ay == a * y
             ey == e * y
             xy == x * y
  <2>3. xy = ay + y + ey /\ ey \in Nat /\ ay \in Nat
    BY <2>2
  <2> HIDE DEF ay, ey, xy
  <2>4. ay < xy
    BY <2>3
  <2> QED BY <2>4 DEF ay, xy
<1> DEFINE ab == a * b
           ay == a * y
<1>3. ab \in Nat /\ ay \in Nat /\ ab <= ay /\ ay < ab
  BY <1>1, <1>2
<1> HIDE DEF ab, ay
<1> QED BY <1>3

\* A split into positive ways of all the threads it counts.
IsSplit(s) ==
  /\ s \in [nt : Nat \ {0}, ic : Nat \ {0}, jc : Nat \ {0}]
  /\ s.nt = s.ic * s.jc

\* Both ways are at most the number of threads.
LEMMA WaysBelow ==
  ASSUME NEW a \in Nat \ {0}, NEW b \in Nat \ {0}
  PROVE  a * b \in Nat \ {0} /\ a <= a * b /\ b <= a * b /\ a * b = b * a
<1>1. PICK c \in Nat, d \in Nat : a = c + 1 /\ b = d + 1
  <2>1. a - 1 \in Nat /\ b - 1 \in Nat /\ a = (a - 1) + 1 /\ b = (b - 1) + 1
    OBVIOUS
  <2> QED BY <2>1
<1>2. a * b = c * d + c + d + 1 /\ c * d \in Nat
  BY <1>1
<1>3. b * a = c * d + c + d + 1
  BY <1>1
<1> DEFINE cd == c * d
           ab == a * b
<1>4. ab = cd + c + d + 1 /\ cd \in Nat
  BY <1>2
<1> HIDE DEF cd, ab
<1>5. ab \in Nat \ {0} /\ a <= ab /\ b <= ab
  BY <1>1, <1>4
<1> QED BY <1>2, <1>3, <1>5 DEF ab

\* The next factor up of one way is the co-factor of the next one down of the
\* other: the two searches, each on its own, land on one factorisation.
LEMMA NeighboursMeet ==
  ASSUME NEW a \in Nat \ {0}, NEW b \in Nat \ {0}, NEW nt, nt = a * b
  PROVE  /\ dlp_next_factor(nt, a) \in Nat \ {0} /\ dlp_prev_factor(nt, b) \in Nat \ {0}
         /\ nt = dlp_next_factor(nt, a) * dlp_prev_factor(nt, b)
<1>0. nt \in Nat \ {0} /\ a <= nt /\ b <= nt
  BY WaysBelow
<1>1. CASE a = nt
  <2>1. b = 1
    <3>1. a * b = a * 1
      BY <1>1
    <3> QED
      <4>1. CASE b > 1
        <5>1. 1 < b /\ a * b = a * 1 /\ b * a = 1 * a
          BY <4>1, <3>1
        <5>2. a < a
          BY <5>1, FactorsOpposite
        <5> QED BY <5>2
      <4> QED BY <4>1
  <2> QED BY <1>1, <2>1, <1>0 DEF dlp_next_factor, dlp_prev_factor
<1>2. CASE a # nt
  <2>0. b # 1 /\ a < nt
    BY <1>0, <1>2
  <2> DEFINE U == {d \in a + 1 .. nt : nt % d = 0}
             D == {d \in 1 .. b - 1 : nt % d = 0}
  <2>1. U \subseteq Nat /\ nt \in U /\ \A d \in U : d \in Nat \ {0} /\ d > a
    <3>1. nt % nt = 0
      <4>1. nt = nt * 1
        BY <1>0
      <4> QED BY <1>0, <4>1, DivisorIs
    <3> QED BY <1>0, <2>0, <3>1
  <2>2. D \subseteq Nat /\ 1 \in D /\ \A d \in D : d \in Nat \ {0} /\ d < b /\ d <= b
    <3>1. nt % 1 = 0
      <4>1. nt = 1 * nt
        BY <1>0
      <4> QED BY <1>0, <4>1, DivisorIs
    <3> QED BY <1>0, <2>0, <3>1
  <2> DEFINE x == Min(U)
             y == Max(D)
  <2>3. x \in U /\ \A d \in U : x <= d
    BY <2>1, MinIs
  <2>4. y \in D /\ \A d \in D : y >= d
    BY <2>2, MaxIs
  <2>5. dlp_next_factor(nt, a) = x /\ dlp_prev_factor(nt, b) = y
    BY <1>2, <2>0 DEF dlp_next_factor, dlp_prev_factor
  <2>6. x \in Nat \ {0} /\ x > a /\ nt % x = 0 /\ y \in Nat \ {0} /\ y < b /\ nt % y = 0
    BY <2>1, <2>2, <2>3, <2>4
  <2> HIDE DEF x, y
  <2>7. PICK xx \in Nat \ {0} : nt = x * xx
    BY <1>0, <2>6, DivisorIs
  <2>8. PICK yy \in Nat \ {0} : nt = y * yy
    BY <1>0, <2>6, DivisorIs
  <2>9. xx <= y
    <3>1. xx < b
      BY <2>6, <2>7, FactorsOpposite
    <3>2. nt = xx * x
      BY <2>6, <2>7
    <3>3. nt % xx = 0
      BY <1>0, <2>6, <3>2, DivisorIs
    <3>4. xx \in D
      BY <3>1, <3>3
    <3> QED BY <2>4, <2>6, <3>4
  <2>10. x <= yy
    <3>1. yy > a
      <4>1. SUFFICES ASSUME yy <= a PROVE FALSE
        OBVIOUS
      <4>2. y * yy <= y * a
        <5>1. yy * y <= a * y
          BY <2>6, <4>1, TimesMonotone
        <5> QED BY <2>6, <5>1, WaysBelow
      <4>3. y * a = a * y /\ y * a \in Nat
        BY <2>6, WaysBelow
      <4>4. y * a < a * b
        <5>1. SUFFICES ASSUME y * a >= a * b PROVE FALSE
          BY <1>0, <4>3
        <5>2. CASE y * a = a * b
          <6>1. b * a = y * a
            BY <5>2, WaysBelow
          <6>2. a < a
            BY <2>6, <6>1, FactorsOpposite
          <6> QED BY <6>2
        <5>3. CASE y * a > a * b
          <6>1. y * a <= b * a
            BY <2>6, TimesMonotone
          <6>2. b * a = a * b
            BY WaysBelow
          <6> QED BY <1>0, <4>3, <5>3, <6>1, <6>2
        <5> QED BY <1>0, <4>3, <5>1, <5>2, <5>3
      <4>5. nt \in Nat /\ nt <= y * a /\ y * a < nt
        BY <1>0, <2>8, <4>2, <4>4
      <4> QED BY <4>3, <4>5
    <3>2. nt = yy * y
      BY <2>6, <2>8
    <3>3. nt % yy = 0
      BY <1>0, <2>6, <3>2, DivisorIs
    <3>4. yy <= nt
      BY <2>6, <3>2, WaysBelow
    <3>5. yy \in U
      BY <1>0, <3>1, <3>3, <3>4
    <3> QED BY <2>3, <3>5
  <2>11. x * y <= nt
    <3>1. x * y <= yy * y
      BY <2>6, <2>10, TimesMonotone
    <3> QED BY <2>6, <2>8, <3>1, WaysBelow
  <2>12. x * y >= nt
    <3>1. xx * x <= y * x
      BY <2>6, <2>9, TimesMonotone
    <3>2. xx * x = x * xx /\ y * x = x * y
      BY <2>6, WaysBelow
    <3> QED BY <2>7, <3>1, <3>2
  <2>13. x * y \in Nat
    BY <2>6, WaysBelow
  <2> QED BY <1>0, <2>5, <2>6, <2>11, <2>12, <2>13
<1> QED BY <1>1, <1>2

\* Moving threads from one side to the other keeps the split one.
LEMMA MovesKeep ==
  ASSUME NEW s, IsSplit(s)
  PROVE  /\ IsSplit(MoreIc(s)) /\ MoreIc(s).nt = s.nt
         /\ IsSplit(MoreJc(s)) /\ MoreJc(s).nt = s.nt
<1>1. s.nt \in Nat \ {0} /\ s.ic \in Nat \ {0} /\ s.jc \in Nat \ {0} /\ s.nt = s.ic * s.jc
      /\ s \in [nt : Nat \ {0}, ic : Nat \ {0}, jc : Nat \ {0}]
  BY DEF IsSplit
<1>2. /\ dlp_next_factor(s.nt, s.ic) \in Nat \ {0} /\ dlp_prev_factor(s.nt, s.jc) \in Nat \ {0}
      /\ s.nt = dlp_next_factor(s.nt, s.ic) * dlp_prev_factor(s.nt, s.jc)
  BY <1>1, NeighboursMeet
<1>3. /\ dlp_next_factor(s.nt, s.jc) \in Nat \ {0} /\ dlp_prev_factor(s.nt, s.ic) \in Nat \ {0}
      /\ s.nt = dlp_next_factor(s.nt, s.jc) * dlp_prev_factor(s.nt, s.ic)
  <2>1. s.nt = s.jc * s.ic
    BY <1>1, WaysBelow
  <2> QED BY <1>1, <2>1, NeighboursMeet
<1> DEFINE a == dlp_next_factor(s.nt, s.ic)
           b == dlp_prev_factor(s.nt, s.jc)
           c == dlp_next_factor(s.nt, s.jc)
           d == dlp_prev_factor(s.nt, s.ic)
<1>4. MoreIc(s) = [s EXCEPT !.ic = a, !.jc = b] /\ MoreJc(s) = [s EXCEPT !.ic = d, !.jc = c]
  BY DEF MoreIc, MoreJc
<1>5. d * c = c * d
  BY <1>3, WaysBelow
<1> HIDE DEF a, b, c, d
<1>6. a \in Nat \ {0} /\ b \in Nat \ {0} /\ c \in Nat \ {0} /\ d \in Nat \ {0}
      /\ s.nt = a * b /\ s.nt = d * c
  BY <1>2, <1>3, <1>5 DEF a, b, c, d
<1> QED BY <1>1, <1>4, <1>6 DEF IsSplit

----------------------------------------------------------------------------
(* The greedy assignment of prime factors.                                 *)

\* The integer square root is a natural number.
LEMMA SqrtType == ASSUME NEW m \in Nat PROVE Sqrt(m) \in Nat
<1> DEFINE T == {s \in 0 .. m : s * s <= m}
<1>1. T \subseteq Nat /\ 0 \in T /\ \A s \in T : s <= m
  OBVIOUS
<1>2. Max(T) \in T
  BY <1>1, MaxIs
<1> QED BY <1>1, <1>2 DEF Sqrt

\* A factor is split off; 1 comes only when nothing is left.
LEMMA FactorSplitOff ==
  ASSUME NEW st, st.n \in Nat \ {0}, NEW sq \in Nat
  PROVE  LET q == NextPrimeFactor(st, sq)
         IN  /\ q.factor \in Nat \ {0} /\ q.n \in Nat \ {0}
             /\ q.factor * q.n = st.n
             /\ q.factor <= 1 => q.n = 1
<1> DEFINE hits == {d \in Trials(sq) : d >= st.f /\ st.n % d = 0}
           q == NextPrimeFactor(st, sq)
<1>1. CASE hits = {}
  <2>1. q = [factor |-> st.n, n |-> 1, f |-> sq + 1]
    BY <1>1 DEF NextPrimeFactor
  <2>2. q.factor = st.n /\ q.n = 1
    BY <2>1
  <2>3. st.n * 1 = st.n
    OBVIOUS
  <2> QED BY <2>2, <2>3
<1>2. CASE hits # {}
  <2> DEFINE d == Min(hits)
  <2>1. q = [factor |-> d, n |-> st.n \div d, f |-> d]
    BY <1>2 DEF NextPrimeFactor
  <2>2. \A x \in hits : x \in Nat /\ x >= 2 /\ st.n % x = 0
    BY DEF Trials
  <2>3. d \in hits
    BY <1>2, <2>2, MinIs
  <2>4. d \in Nat /\ d >= 2 /\ st.n % d = 0
    BY <2>2, <2>3
  <2>5. q.factor = d /\ q.n = st.n \div d
    BY <2>1
  <2> HIDE DEF d, hits
  <2> DEFINE e == st.n \div d
  <2>6. e \in Nat /\ st.n = e * d + (st.n % d)
    <3>1. d \in Nat \ {0} /\ st.n \in Nat
      BY <2>4
    <3> QED BY <3>1, DivMod
  <2> HIDE DEF e
  <2>7. st.n = e * d
    BY <2>4, <2>6
  <2>8. e # 0
    BY <2>4, <2>7
  <2>9. d * e = st.n
    BY <2>4, <2>6, <2>7
  <2> QED BY <2>4, <2>5, <2>6, <2>8, <2>9 DEF e
<1> QED BY <1>1, <1>2

\* The loop of dlp_thread_partition_2x2: its first state, and one round.
GreedyStart(nt, work1, work2) ==
  [p |-> NextPrimeFactor([n |-> nt, f |-> 2], Sqrt(nt)),
   w1 |-> work1, w2 |-> work2, t1 |-> 1, t2 |-> 1]
GreedyRound(s, sq) ==
  LET f1 == IF s.w1 > s.w2 THEN s.p.factor ELSE 1
      f2 == IF s.w1 > s.w2 THEN 1 ELSE s.p.factor
  IN  IF s.p.factor <= 1 THEN s
      ELSE [p |-> NextPrimeFactor(s.p, sq),
            w1 |-> s.w1 \div f1, w2 |-> s.w2 \div f2,
            t1 |-> s.t1 * f1, t2 |-> s.t2 * f2]

\* What is assigned, what comes next and what is left make up the team; after
\* i rounds the assigned part has grown past i, or the factors are used up.
GreedyInv(s, i, nt) ==
  /\ s.t1 \in Nat \ {0} /\ s.t2 \in Nat \ {0} /\ s.p.factor \in Nat \ {0} /\ s.p.n \in Nat \ {0}
  /\ (s.t1 * s.t2) * (s.p.factor * s.p.n) = nt
  /\ s.p.factor <= 1 => s.p.n = 1
  /\ s.p.factor <= 1 \/ s.t1 * s.t2 >= i + 1

\* At first nothing is assigned.
LEMMA GreedyBegins ==
  ASSUME NEW nt \in Nat \ {0}, NEW work1, NEW work2
  PROVE  GreedyInv(GreedyStart(nt, work1, work2), 0, nt)
<1> DEFINE st == [n |-> nt, f |-> 2]
           p == NextPrimeFactor(st, Sqrt(nt))
           g == GreedyStart(nt, work1, work2)
<1>1. st.n = nt /\ Sqrt(nt) \in Nat
  BY SqrtType
<1> HIDE DEF st
<1>2. p.factor \in Nat \ {0} /\ p.n \in Nat \ {0} /\ p.factor * p.n = nt
      /\ (p.factor <= 1 => p.n = 1)
  BY <1>1, FactorSplitOff
<1>3. g.p = p /\ g.t1 = 1 /\ g.t2 = 1
  BY DEF GreedyStart, st
<1> HIDE DEF p, g
<1>4. (1 * 1) * (p.factor * p.n) = nt /\ 1 * 1 >= 0 + 1
  BY <1>2
<1>5. GreedyInv(g, 0, nt)
  BY <1>2, <1>3, <1>4 DEF GreedyInv
<1> QED BY <1>5 DEF g

\* A round assigns one factor and splits off the next.
LEMMA GreedyGoesOn ==
  ASSUME NEW nt \in Nat \ {0}, NEW i \in Nat, NEW s, NEW sq \in Nat, GreedyInv(s, i, nt)
  PROVE  GreedyInv(GreedyRound(s, sq), i + 1, nt)
<1>1. CASE s.p.factor <= 1
  <2>1. GreedyRound(s, sq) = s
    BY <1>1 DEF GreedyRound
  <2> QED BY <1>1, <2>1 DEF GreedyInv
<1>2. CASE ~(s.p.factor <= 1)
  <2> DEFINE f1 == IF s.w1 > s.w2 THEN s.p.factor ELSE 1
             f2 == IF s.w1 > s.w2 THEN 1 ELSE s.p.factor
             p == NextPrimeFactor(s.p, sq)
             r == GreedyRound(s, sq)
  <2>0. /\ s.t1 \in Nat \ {0} /\ s.t2 \in Nat \ {0} /\ s.p.factor \in Nat \ {0}
        /\ s.p.n \in Nat \ {0} /\ (s.t1 * s.t2) * (s.p.factor * s.p.n) = nt
        /\ s.t1 * s.t2 >= i + 1 /\ s.p.factor >= 2
    BY <1>2 DEF GreedyInv
  <2>1. r.p = p /\ r.t1 = s.t1 * f1 /\ r.t2 = s.t2 * f2
    BY <1>2 DEF GreedyRound
  <2>2. p.factor \in Nat \ {0} /\ p.n \in Nat \ {0} /\ p.factor * p.n = s.p.n
        /\ (p.factor <= 1 => p.n = 1)
    BY <2>0, FactorSplitOff
  <2> HIDE DEF p, r
  <2>3. \/ f1 = s.p.factor /\ f2 = 1
        \/ f1 = 1 /\ f2 = s.p.factor
    OBVIOUS
  <2> HIDE DEF f1, f2
  <2>4. PICK a, b, f, m : a = s.t1 /\ b = s.t2 /\ f = s.p.factor /\ m = s.p.n
    OBVIOUS
  <2>5. a \in Nat \ {0} /\ b \in Nat \ {0} /\ f \in Nat \ {0} /\ m \in Nat \ {0} /\ f >= 2
        /\ (a * b) * (f * m) = nt /\ a * b >= i + 1
    BY <2>0, <2>4
  <2>6. /\ r.t1 \in Nat \ {0} /\ r.t2 \in Nat \ {0} /\ r.t1 * r.t2 = (a * b) * f
    <3>1. CASE f1 = s.p.factor /\ f2 = 1
      <4>1. r.t1 = a * f /\ r.t2 = b
        BY <2>1, <2>4, <2>5, <3>1
      <4>2. a * f \in Nat \ {0}
        BY <2>5, WaysBelow
      <4>3. (a * f) * b = (a * b) * f
        BY <2>5
      <4> QED BY <2>5, <4>1, <4>2, <4>3
    <3>2. CASE f1 = 1 /\ f2 = s.p.factor
      <4>1. r.t1 = a /\ r.t2 = b * f
        BY <2>1, <2>4, <2>5, <3>2
      <4>2. b * f \in Nat \ {0}
        BY <2>5, WaysBelow
      <4>3. a * (b * f) = (a * b) * f
        BY <2>5
      <4> QED BY <2>5, <4>1, <4>2, <4>3
    <3> QED BY <2>3, <3>1, <3>2
  <2>7. ((a * b) * f) * m = nt
    BY <2>5
  <2>8. (r.t1 * r.t2) * (p.factor * p.n) = nt
    BY <2>2, <2>4, <2>6, <2>7
  <2>9. (a * b) * f >= i + 2
    <3> DEFINE c == a * b
    <3>1. c \in Nat /\ c >= i + 1
      BY <2>5
    <3> HIDE DEF c
    <3>2. PICK g \in Nat : f = 2 + g
      <4>1. f - 2 \in Nat /\ f = 2 + (f - 2)
        BY <2>5
      <4> QED BY <4>1
    <3>3. c * f = c + c + c * g /\ c * g \in Nat
      BY <3>1, <3>2
    <3> DEFINE cf == c * f
               cg == c * g
    <3>4. cf = c + c + cg /\ cg \in Nat
      BY <3>3
    <3> HIDE DEF cf, cg
    <3>5. cf >= i + 2
      BY <3>1, <3>4
    <3> QED BY <3>5 DEF c, cf
  <2>10. r.t1 * r.t2 >= (i + 1) + 1
    BY <2>6, <2>9
  <2>11. GreedyInv(r, i + 1, nt)
    BY <2>1, <2>2, <2>6, <2>8, <2>10 DEF GreedyInv
  <2> QED BY <2>11 DEF r
<1> QED BY <1>1, <1>2

\* The loop is what its recursive definition says.
LEMMA GreedyLoop ==
  ASSUME NEW nt \in Nat \ {0}, NEW work1, NEW work2
  PROVE  \E g : /\ g = [i \in 0 .. nt |-> IF i = 0 THEN GreedyStart(nt, work1, work2)
                                          ELSE GreedyRound(g[i - 1], Sqrt(nt))]
                /\ GreedyFactors(nt, work1, work2) = g[nt]
<1> DEFINE start == GreedyStart(nt, work1, work2)
           Round(s) == GreedyRound(s, Sqrt(nt))
           Loop(g, m) == g = [i \in 0 .. m |-> IF i = 0 THEN start ELSE Round(g[i - 1])]
<1> HIDE DEF start, Round
<1>1. ASSUME NEW m \in Nat PROVE \E g : Loop(g, m)
  <2> DEFINE T == {x \in Nat : ~ \E g : Loop(g, x)}
  <2> SUFFICES ASSUME T # {} PROVE FALSE
    OBVIOUS
  <2>1. PICK x \in T : \A y \in T : x <= y
    BY NatMin
  <2>2. x # 0
    <3> DEFINE g == [i \in 0 .. 0 |-> start]
    <3>1. Loop(g, 0)
      OBVIOUS
    <3> QED BY <2>1, <3>1
  <2>3. x - 1 \in Nat /\ ~(x <= x - 1)
    BY <2>1, <2>2
  <2>4. PICK g : Loop(g, x - 1)
    BY <2>1, <2>3
  <2> DEFINE h == [i \in 0 .. x |-> IF i < x THEN g[i] ELSE Round(g[x - 1])]
  <2>5. ASSUME NEW i \in 0 .. x PROVE h[i] = IF i = 0 THEN start ELSE Round(h[i - 1])
    <3>1. CASE i = 0
      BY <2>2, <2>3, <2>4, <3>1
    <3>2. CASE i # 0 /\ i < x
      <4>1. i \in 0 .. x - 1 /\ i - 1 \in 0 .. x /\ i - 1 < x
        BY <3>2
      <4>2. h[i] = g[i] /\ h[i - 1] = g[i - 1]
        BY <3>2, <4>1
      <4>3. g[i] = Round(g[i - 1])
        BY <2>4, <3>2, <4>1
      <4> QED BY <3>2, <4>2, <4>3
    <3>3. CASE i # 0 /\ ~(i < x)
      <4>1. i = x /\ x - 1 \in 0 .. x /\ x - 1 < x
        BY <3>3, <2>2
      <4>2. h[x - 1] = g[x - 1] /\ h[x] = Round(g[x - 1])
        BY <4>1
      <4> QED BY <3>3, <4>1, <4>2
    <3> QED BY <3>1, <3>2, <3>3
  <2>6. Loop(h, x)
    BY <2>5
  <2> QED BY <2>1, <2>6
<1> DEFINE loop == CHOOSE g : Loop(g, nt)
<1>2. Loop(loop, nt)
  BY <1>1
<1>3. GreedyFactors(nt, work1, work2) = loop[nt]
  BY DEF GreedyFactors, GreedyStart, GreedyRound, start, Round
<1> QED BY <1>2, <1>3 DEF start, Round

\* The greedy loop has assigned all the threads when it ends.
LEMMA GreedyAssignsAll ==
  ASSUME NEW nt \in Nat \ {0}, NEW work1, NEW work2
  PROVE  LET g == GreedyFactors(nt, work1, work2)
         IN  g.t1 \in Nat \ {0} /\ g.t2 \in Nat \ {0} /\ g.t1 * g.t2 = nt
<1> DEFINE start == GreedyStart(nt, work1, work2)
           sq == Sqrt(nt)
<1>1. PICK g : /\ g = [i \in 0 .. nt |-> IF i = 0 THEN start ELSE GreedyRound(g[i - 1], sq)]
               /\ GreedyFactors(nt, work1, work2) = g[nt]
  BY GreedyLoop
<1>2. GreedyInv(start, 0, nt) /\ sq \in Nat
  BY GreedyBegins, SqrtType
<1> HIDE DEF start, sq
<1>3. GreedyInv(g[nt], nt, nt)
  <2> DEFINE T == {x \in 0 .. nt : ~GreedyInv(g[x], x, nt)}
  <2>1. SUFFICES ASSUME T # {} PROVE FALSE
    OBVIOUS
  <2>2. PICK x \in T : \A y \in T : x <= y
    <3>1. T \subseteq Nat
      OBVIOUS
    <3> QED BY <2>1, <3>1, NatMin
  <2>3. x # 0
    BY <1>1, <1>2, <2>2
  <2>4. x \in 0 .. nt /\ x - 1 \in 0 .. nt /\ x - 1 \in Nat /\ ~(x <= x - 1) /\ (x - 1) + 1 = x
    BY <2>2, <2>3
  <2>5. GreedyInv(g[x - 1], x - 1, nt)
    BY <2>2, <2>4
  <2>6. GreedyInv(GreedyRound(g[x - 1], sq), (x - 1) + 1, nt)
    BY <1>2, <2>4, <2>5, GreedyGoesOn
  <2>7. g[x] = GreedyRound(g[x - 1], sq)
    BY <1>1, <2>3, <2>4
  <2> QED BY <2>2, <2>4, <2>6, <2>7
<1>4. PICK s : s = g[nt]
  OBVIOUS
<1>5. /\ s.t1 \in Nat \ {0} /\ s.t2 \in Nat \ {0} /\ s.p.factor \in Nat \ {0} /\ s.p.n \in Nat \ {0}
      /\ (s.t1 * s.t2) * (s.p.factor * s.p.n) = nt
      /\ s.p.factor <= 1 => s.p.n = 1
      /\ s.p.factor <= 1 \/ s.t1 * s.t2 >= nt + 1
  BY <1>3, <1>4 DEF GreedyInv
<1>6. s.p.factor = 1 /\ s.p.n = 1
  <2>1. SUFFICES ASSUME ~(s.p.factor <= 1) PROVE FALSE
    BY <1>5
  <2>2. s.t1 * s.t2 >= nt + 1 /\ s.t1 * s.t2 \in Nat \ {0} /\ s.p.factor * s.p.n \in Nat \ {0}
    BY <1>5, <2>1, WaysBelow
  <2>3. s.t1 * s.t2 <= nt
    BY <1>5, <2>2, WaysBelow
  <2> QED BY <2>2, <2>3
<1>7. s.t1 * s.t2 = nt
  <2>1. (s.t1 * s.t2) * (1 * 1) = nt /\ s.t1 * s.t2 \in Nat
    BY <1>5, <1>6
  <2> QED BY <2>1
<1> QED BY <1>1, <1>4, <1>5, <1>7

\* One factor of two may change sides.
LEMMA RebalanceKeeps ==
  ASSUME NEW g, g.t1 \in Nat \ {0}, g.t2 \in Nat \ {0}
  PROVE  /\ Rebalance(g)[1] \in Nat \ {0} /\ Rebalance(g)[2] \in Nat \ {0}
         /\ Rebalance(g)[1] * Rebalance(g)[2] = g.t1 * g.t2
<1>1. ASSUME NEW a \in Nat \ {0}, NEW b \in Nat \ {0}, b % 2 = 0
      PROVE  a * 2 \in Nat \ {0} /\ b \div 2 \in Nat \ {0} /\ (a * 2) * (b \div 2) = a * b
             /\ (b \div 2) * (a * 2) = b * a
  <2> DEFINE c == b \div 2
  <2>1. c \in Nat /\ b = c * 2
    BY <1>1, DivMod
  <2>2. c # 0
    BY <2>1
  <2> HIDE DEF c
  <2>3. (a * 2) * c = a * (c * 2) /\ c * (a * 2) = (c * 2) * a
    BY <2>1
  <2> QED BY <2>1, <2>2, <2>3 DEF c
<1> DEFINE r == Rebalance(g)
<1>2. \/ r = <<g.t1 * 2, g.t2 \div 2>> /\ g.t2 % 2 = 0
      \/ r = <<g.t1 \div 2, g.t2 * 2>> /\ g.t1 % 2 = 0
      \/ r = <<g.t1, g.t2>>
  BY DEF Rebalance
<1> HIDE DEF r
<1>3. CASE r = <<g.t1 * 2, g.t2 \div 2>> /\ g.t2 % 2 = 0
  <2>1. r[1] = g.t1 * 2 /\ r[2] = g.t2 \div 2
    BY <1>3
  <2> QED BY <1>1, <1>3, <2>1 DEF r
<1>4. CASE r = <<g.t1 \div 2, g.t2 * 2>> /\ g.t1 % 2 = 0
  <2>1. r[1] = g.t1 \div 2 /\ r[2] = g.t2 * 2
    BY <1>4
  <2> QED BY <1>1, <1>4, <2>1 DEF r
<1>5. CASE r = <<g.t1, g.t2>>
  <2>1. r[1] = g.t1 /\ r[2] = g.t2
    BY <1>5
  <2> QED BY <2>1 DEF r
<1> QED BY <1>2, <1>3, <1>4, <1>5

\* dlp_thread_partition_2x2 uses every thread, for every count and any work.
LEMMA PartitionUsesAll ==
  ASSUME NEW nt \in Nat \ {0}, NEW work1, NEW work2
  PROVE  LET f == dlp_thread_partition_2x2(nt, work1, work2)
         IN  f[1] \in Nat \ {0} /\ f[2] \in Nat \ {0} /\ f[1] * f[2] = nt
<1> DEFINE f == dlp_thread_partition_2x2(nt, work1, work2)
           g == GreedyFactors(nt, work1, work2)
<1>1. CASE nt < 4
  <2>1. f = <<nt, 1>> \/ f = <<1, nt>>
    BY <1>1 DEF dlp_thread_partition_2x2
  <2> HIDE DEF f
  <2>2. (f[1] = nt /\ f[2] = 1) \/ (f[1] = 1 /\ f[2] = nt)
    BY <2>1
  <2>3. nt * 1 = nt /\ 1 * nt = nt
    OBVIOUS
  <2> QED BY <2>2, <2>3 DEF f
<1>2. CASE ~(nt < 4)
  <2>1. f = Rebalance(g)
    BY <1>2 DEF dlp_thread_partition_2x2
  <2>2. g.t1 \in Nat \ {0} /\ g.t2 \in Nat \ {0} /\ g.t1 * g.t2 = nt
    BY GreedyAssignsAll
  <2> HIDE DEF f, g
  <2>3. /\ Rebalance(g)[1] \in Nat \ {0} /\ Rebalance(g)[2] \in Nat \ {0}
        /\ Rebalance(g)[1] * Rebalance(g)[2] = g.t1 * g.t2
    BY <2>2, RebalanceKeeps
  <2> QED BY <2>1, <2>2, <2>3 DEF f
<1> QED BY <1>1, <1>2

\* The first split is one.
LEMMA PartitionSplit ==
  ASSUME NEW nt \in Nat \ {0}, NEW p
  PROVE  IsSplit(Partition(nt, p)) /\ Partition(nt, p).nt = nt
<1> DEFINE f == dlp_thread_partition_2x2(nt, p.m, p.n)
<1>1. Partition(nt, p) = [nt |-> nt, ic |-> f[1], jc |-> f[2]]
  BY DEF Partition, Split
<1>2. f[1] \in Nat \ {0} /\ f[2] \in Nat \ {0} /\ f[1] * f[2] = nt
  BY PartitionUsesAll
<1> HIDE DEF f
<1> QED BY <1>1, <1>2 DEF IsSplit

----------------------------------------------------------------------------
(* The heuristics.                                                         *)

\* What the heuristics ask of a problem.
IsProblem(p) ==
  p.m \in Nat \ {0} /\ p.n \in Nat \ {0} /\ p.MR \in Nat \ {0} /\ p.NR \in Nat \ {0}

\* Rounding up gives at least one, and one when the divisor is large enough.
LEMMA CeilDivIs ==
  ASSUME NEW a \in Nat \ {0}, NEW b \in Nat \ {0}
  PROVE  CeilDiv(a, b) \in Nat \ {0} /\ (a <= b => CeilDiv(a, b) = 1)
<1> DEFINE x == a + b - 1
           q == x \div b
           r == x % b
<1>1. x \in Nat /\ x >= b
  OBVIOUS
<1>2. CeilDiv(a, b) = q
  BY DEF CeilDiv
<1> HIDE DEF x
<1>3. q \in Nat /\ r \in Nat /\ r < b /\ x = q * b + r
  BY <1>1, DivMod
<1> HIDE DEF q, r
<1>4. q # 0
  BY <1>1, <1>3
<1>5. ASSUME a <= b PROVE q = 1
  <2>1. x < b + b
    BY <1>5 DEF x
  <2>2. SUFFICES ASSUME q >= 2 PROVE FALSE
    BY <1>3, <1>4
  <2>3. 2 * b <= q * b
    BY <1>3, <2>2, TimesMonotone
  <2> DEFINE qb == q * b
  <2>4. qb \in Nat /\ x = qb + r /\ 2 * b <= qb
    BY <1>3, <2>3
  <2> HIDE DEF qb
  <2> QED BY <1>1, <1>3, <2>1, <2>4
<1> QED BY <1>2, <1>3, <1>4, <1>5

\* There are blocks of A and panels of B, and everybody has work.
LEMMA WorkIs ==
  ASSUME NEW p, IsProblem(p)
  PROVE  /\ mr_blks(p) \in Nat \ {0} /\ nr_blks(p) \in Nat \ {0}
         /\ \A s : s.ic \in Nat \ {0} /\ s.jc \in Nat \ {0} =>
              PanelWork(s, p) \in Nat /\ PanelWork(s, p) >= 2
<1>1. p.m \in Nat \ {0} /\ p.n \in Nat \ {0} /\ p.MR \in Nat \ {0} /\ p.NR \in Nat \ {0}
  BY DEF IsProblem
<1>2. mr_blks(p) \in Nat \ {0} /\ nr_blks(p) \in Nat \ {0}
  BY <1>1, CeilDivIs DEF mr_blks, nr_blks
<1>3. ASSUME NEW s, s.ic \in Nat \ {0}, s.jc \in Nat \ {0}
      PROVE  PanelWork(s, p) \in Nat /\ PanelWork(s, p) >= 2
  <2> DEFINE a == CeilDiv(mr_blks(p), s.ic)
             b == CeilDiv(nr_blks(p), s.jc)
  <2>1. a \in Nat \ {0} /\ b \in Nat \ {0}
    BY <1>2, <1>3, CeilDivIs
  <2>2. PanelWork(s, p) = a + b
    BY DEF PanelWork
  <2> HIDE DEF a, b
  <2> QED BY <2>1, <2>2
<1> QED BY <1>2, <1>3

\* One look of the panel heuristic at the next split towards ic.
Look(st, p) ==
  LET cand == MoreIc(st.looked)
  IN  IF nr_blks(p) % st.best.jc # 0 /\ st.looked.ic < st.looked.nt
      THEN [looked |-> cand,
            best |-> IF PanelWork(cand, p) < PanelWork(st.best, p) THEN cand ELSE st.best]
      ELSE st

\* Three looks: the recursive function of the model, unrolled.
LEMMA ThreeLooks ==
  ASSUME NEW s, NEW p
  PROVE  dlp_gemm_pnl_wrk_heur_adjust_ic_jc_ways(s, p) =
           Look(Look(Look([looked |-> s, best |-> s], p), p), p).best
<1> DEFINE st0 == [looked |-> s, best |-> s]
           L(st) == Look(st, p)
           Moves(g) == g = [i \in 0 .. 3 |-> IF i = 0 THEN st0 ELSE L(g[i - 1])]
           move == CHOOSE g : Moves(g)
<1>1. dlp_gemm_pnl_wrk_heur_adjust_ic_jc_ways(s, p) = move[3].best
  BY DEF dlp_gemm_pnl_wrk_heur_adjust_ic_jc_ways, Look
<1> HIDE DEF st0, L
<1>2. \E g : Moves(g)
  <2> DEFINE g == [i \in 0 .. 3 |-> IF i = 0 THEN st0 ELSE IF i = 1 THEN L(st0)
                                    ELSE IF i = 2 THEN L(L(st0)) ELSE L(L(L(st0)))]
  <2>1. g[0] = st0 /\ g[1] = L(st0) /\ g[2] = L(L(st0)) /\ g[3] = L(L(L(st0)))
    OBVIOUS
  <2>2. ASSUME NEW i \in 0 .. 3 PROVE g[i] = IF i = 0 THEN st0 ELSE L(g[i - 1])
    <3>1. CASE i = 0
      BY <2>1, <3>1
    <3>2. CASE i = 1
      <4>1. i - 1 = 0
        BY <3>2
      <4> QED BY <2>1, <3>2, <4>1
    <3>3. CASE i = 2
      <4>1. i - 1 = 1
        BY <3>3
      <4> QED BY <2>1, <3>3, <4>1
    <3>4. CASE i = 3
      <4>1. i - 1 = 2
        BY <3>4
      <4> QED BY <2>1, <3>4, <4>1
    <3> QED BY <3>1, <3>2, <3>3, <3>4
  <2>3. Moves(g)
    BY <2>2
  <2> QED BY <2>3
<1>3. Moves(move)
  BY <1>2
<1> HIDE DEF move
<1>4. move[0] = st0
  BY <1>3
<1>5. move[1] = L(move[0])
  BY <1>3
<1>6. move[2] = L(move[1])
  BY <1>3
<1>7. move[3] = L(move[2])
  BY <1>3
<1>8. move[3] = L(L(L(st0)))
  BY <1>4, <1>5, <1>6, <1>7
<1> QED BY <1>1, <1>8 DEF L, st0

\* A look leaves splits of the same team, and the best is never worse.
LookInv(st, s, p) ==
  /\ IsSplit(st.looked) /\ st.looked.nt = s.nt /\ IsSplit(st.best) /\ st.best.nt = s.nt
  /\ PanelWork(st.best, p) <= PanelWork(s, p)

\* A further look keeps that.
LEMMA LookKeeps ==
  ASSUME NEW st, NEW s, NEW p, IsProblem(p), IsSplit(s), LookInv(st, s, p)
  PROVE  LookInv(Look(st, p), s, p)
<1> DEFINE cand == MoreIc(st.looked)
           r == Look(st, p)
<1>1. IsSplit(cand) /\ cand.nt = s.nt
  BY MovesKeep DEF LookInv
<1>2. PanelWork(cand, p) \in Nat /\ PanelWork(st.best, p) \in Nat /\ PanelWork(s, p) \in Nat
  <2>1. /\ cand.ic \in Nat \ {0} /\ cand.jc \in Nat \ {0} /\ st.best.ic \in Nat \ {0}
        /\ st.best.jc \in Nat \ {0} /\ s.ic \in Nat \ {0} /\ s.jc \in Nat \ {0}
    BY <1>1 DEF IsSplit, LookInv
  <2> QED BY <2>1, WorkIs
<1>3. \/ r = st
      \/ r = [looked |-> cand, best |-> cand] /\ PanelWork(cand, p) < PanelWork(st.best, p)
      \/ r = [looked |-> cand, best |-> st.best]
  BY DEF Look
<1> HIDE DEF r, cand
<1>4. CASE r = st
  BY <1>4 DEF r
<1>5. CASE r = [looked |-> cand, best |-> cand] /\ PanelWork(cand, p) < PanelWork(st.best, p)
  <2>1. r.looked = cand /\ r.best = cand
    BY <1>5
  <2>2. PanelWork(cand, p) <= PanelWork(s, p)
    <3>1. PanelWork(st.best, p) <= PanelWork(s, p)
      BY DEF LookInv
    <3> QED BY <1>2, <1>5, <3>1
  <2>3. LookInv(r, s, p)
    BY <1>1, <2>1, <2>2 DEF LookInv
  <2> QED BY <2>3 DEF r
<1>6. CASE r = [looked |-> cand, best |-> st.best]
  <2>1. r.looked = cand /\ r.best = st.best
    BY <1>6
  <2>2. LookInv(r, s, p)
    BY <1>1, <2>1 DEF LookInv
  <2> QED BY <2>2 DEF r
<1> QED BY <1>3, <1>4, <1>5, <1>6

\* The panel heuristic returns a split of the same team with no more work.
LEMMA AdjustKeeps ==
  ASSUME NEW s, NEW p, IsProblem(p), IsSplit(s)
  PROVE  LET a == dlp_gemm_pnl_wrk_heur_adjust_ic_jc_ways(s, p)
         IN  IsSplit(a) /\ a.nt = s.nt /\ PanelWork(a, p) <= PanelWork(s, p)
<1> DEFINE st0 == [looked |-> s, best |-> s]
<1>1. PanelWork(s, p) \in Nat
  <2>1. s.ic \in Nat \ {0} /\ s.jc \in Nat \ {0}
    BY DEF IsSplit
  <2> QED BY <2>1, WorkIs
<1>2. LookInv(st0, s, p)
  BY <1>1 DEF LookInv
<1>3. dlp_gemm_pnl_wrk_heur_adjust_ic_jc_ways(s, p) = Look(Look(Look(st0, p), p), p).best
  BY ThreeLooks
<1> HIDE DEF st0
<1>4. LookInv(Look(st0, p), s, p)
  BY <1>2, LookKeeps
<1>5. LookInv(Look(Look(st0, p), p), s, p)
  BY <1>4, LookKeeps
<1>6. LookInv(Look(Look(Look(st0, p), p), p), s, p)
  BY <1>5, LookKeeps
<1> QED BY <1>3, <1>6 DEF LookInv

\* With the panel heuristic the split is one of all threads, and no worse than
\* the first.
LEMMA ByPanelsKeeps ==
  ASSUME NEW nt \in Nat \ {0}, NEW p, IsProblem(p)
  PROVE  LET a == PartitionByPanels(nt, p)
         IN  IsSplit(a) /\ a.nt = nt /\ PanelWork(a, p) <= PanelWork(Partition(nt, p), p)
<1> DEFINE s == Partition(nt, p)
<1>1. IsSplit(s) /\ s.nt = nt
  BY PartitionSplit
<1>2. PartitionByPanels(nt, p) =
        IF mr_blks(p) >= s.ic THEN dlp_gemm_pnl_wrk_heur_adjust_ic_jc_ways(s, p) ELSE s
  BY DEF PartitionByPanels
<1> HIDE DEF s
<1>3. PanelWork(s, p) \in Nat
  <2>1. s.ic \in Nat \ {0} /\ s.jc \in Nat \ {0}
    BY <1>1 DEF IsSplit
  <2> QED BY <2>1, WorkIs
<1>4. CASE mr_blks(p) >= s.ic
  <2>1. PartitionByPanels(nt, p) = dlp_gemm_pnl_wrk_heur_adjust_ic_jc_ways(s, p)
    BY <1>2, <1>4
  <2> QED BY <1>1, <2>1, AdjustKeeps DEF s
<1>5. CASE ~(mr_blks(p) >= s.ic)
  <2>1. PartitionByPanels(nt, p) = s
    BY <1>2, <1>5
  <2> QED BY <1>1, <1>3, <2>1 DEF s
<1> QED BY <1>4, <1>5

\* The f32 heuristic moves at most twice.
LEMMA AdjustF32Keeps ==
  ASSUME NEW s, NEW p, IsSplit(s)
  PROVE  IsSplit(dlp_gemm_adjust_ic_jc_ways(s, p)) /\ dlp_gemm_adjust_ic_jc_ways(s, p).nt = s.nt
<1> DEFINE a == dlp_gemm_adjust_ic_jc_ways(s, p)
<1>1. a = MoreIc(MoreIc(s)) \/ a = MoreIc(s) \/ a = MoreJc(s) \/ a = s
  BY DEF dlp_gemm_adjust_ic_jc_ways
<1> HIDE DEF a
<1>2. /\ IsSplit(MoreIc(s)) /\ MoreIc(s).nt = s.nt
      /\ IsSplit(MoreJc(s)) /\ MoreJc(s).nt = s.nt
  BY MovesKeep
<1>3. IsSplit(MoreIc(MoreIc(s))) /\ MoreIc(MoreIc(s)).nt = s.nt
  BY <1>2, MovesKeep
<1> QED BY <1>1, <1>2, <1>3 DEF a

\* The greater and the smaller of two numbers.
LEMMA Pairs ==
  ASSUME NEW a \in Int, NEW b \in Int
  PROVE  /\ Max({a, b}) \in {a, b} /\ Max({a, b}) >= a /\ Max({a, b}) >= b
         /\ Min({a, b}) \in {a, b} /\ Min({a, b}) <= a /\ Min({a, b}) <= b
<1>1. \E x \in {a, b} : \A y \in {a, b} : x >= y
  <2>1. CASE a >= b
    BY <2>1
  <2>2. CASE b >= a
    BY <2>2
  <2> QED BY <2>1, <2>2
<1>2. \E x \in {a, b} : \A y \in {a, b} : x <= y
  <2>1. CASE a >= b
    BY <2>1
  <2>2. CASE b >= a
    BY <2>2
  <2> QED BY <2>1, <2>2
<1> QED BY <1>1, <1>2 DEF Max, Min

\* Positive ways make a split.
LEMMA SplitIs ==
  ASSUME NEW a \in Nat \ {0}, NEW b \in Nat \ {0}
  PROVE  IsSplit(Split(a * b, a, b)) /\ Split(a * b, a, b).nt = a * b
         /\ Split(a * b, a, b).ic = a /\ Split(a * b, a, b).jc = b
  BY WaysBelow DEF IsSplit, Split

\* The caller's ways.
LEMMA GivenWays ==
  ASSUME NEW x \in Int, NEW y \in Int
  PROVE  IsSplit(LET ic == Max({x, 1})  jc == Max({y, 1}) IN Split(jc * ic, ic, jc))
<1> DEFINE ic == Max({x, 1})
           jc == Max({y, 1})
<1>1. ic \in Nat \ {0} /\ jc \in Nat \ {0}
  <2>1. ic \in {x, 1} /\ ic >= 1
    BY Pairs
  <2>2. jc \in {y, 1} /\ jc >= 1
    BY Pairs
  <2> HIDE DEF ic, jc
  <2> QED BY <2>1, <2>2
<1> HIDE DEF ic, jc
<1>2. jc * ic = ic * jc
  BY <1>1, WaysBelow
<1>3. IsSplit(Split(jc * ic, ic, jc))
  BY <1>1, <1>2, SplitIs
<1> QED BY <1>3 DEF ic, jc

\* A quotient by no more than the dividend.
LEMMA QuotientIs ==
  ASSUME NEW x \in Nat \ {0}, NEW d \in Nat \ {0}, d <= x
  PROVE  x \div d \in Nat \ {0} /\ d * (x \div d) <= x
<1> DEFINE q == x \div d
           r == x % d
<1>1. q \in Nat /\ r \in Nat /\ r < d /\ x = q * d + r
  BY DivMod
<1> HIDE DEF q, r
<1>2. q # 0
  BY <1>1
<1>3. d * q = q * d /\ q * d \in Nat
  BY <1>1
<1> DEFINE qd == q * d
<1>4. qd \in Nat /\ x = qd + r /\ d * q = qd
  BY <1>1, <1>3
<1> HIDE DEF qd
<1>5. d * q <= x
  BY <1>1, <1>4
<1> QED BY <1>1, <1>2, <1>5 DEF q

\* A quotient is at least what fits.
LEMMA QuotientAbove ==
  ASSUME NEW x \in Nat \ {0}, NEW d \in Nat \ {0}, NEW e \in Nat \ {0}, d * e <= x
  PROVE  e <= x \div d
<1> DEFINE q == x \div d
           r == x % d
<1>1. q \in Nat /\ r \in Nat /\ r < d /\ x = q * d + r
  BY DivMod
<1> HIDE DEF q, r
<1>2. SUFFICES ASSUME e >= q + 1 PROVE FALSE
  BY <1>1 DEF q
<1>3. (q + 1) * d <= e * d
  BY <1>1, <1>2, TimesMonotone
<1>4. e * d = d * e
  BY WaysBelow
<1>5. (q + 1) * d = q * d + d
  BY <1>1
<1> DEFINE qd == q * d
           de == d * e
<1>6. qd + d <= de /\ de <= x /\ x = qd + r /\ qd \in Nat /\ de \in Nat
  BY <1>1, <1>3, <1>4, <1>5
<1> HIDE DEF qd, de
<1> QED BY <1>1, <1>6

\* The frame of the *_get_threading functions: a split, of all but a few threads.
LEMMA FrameSplit ==
  ASSUME NEW r \in [nt : Int, ic : Int, jc : Int], NEW p, IsProblem(p), NEW chosen,
         r.nt > 1 => IsSplit(chosen) /\ chosen.nt <= r.nt /\ r.nt - chosen.nt < low_freq_thres
  PROVE  LET s == GetThreading(r, p, chosen)
         IN  /\ IsSplit(s)
             /\ r.ic <= 0 /\ r.jc <= 0 /\ r.nt > 0 =>
                  s.nt <= r.nt /\ r.nt - s.nt < low_freq_thres
<1> DEFINE s == GetThreading(r, p, chosen)
           nt == r.nt
           mr == mr_blks(p)
           nr == nr_blks(p)
<1>0. nt \in Int /\ r.ic \in Int /\ r.jc \in Int /\ mr \in Nat \ {0} /\ nr \in Nat \ {0}
      /\ low_freq_thres = 6
  BY WorkIs DEF low_freq_thres
<1>1. CASE r.ic > 0 \/ r.jc > 0
  <2>1. s = LET ic == Max({r.ic, 1})  jc == Max({r.jc, 1}) IN Split(jc * ic, ic, jc)
    BY <1>1 DEF GetThreading
  <2>2. IsSplit(s)
    BY <1>0, <2>1, GivenWays
  <2>3. ~(r.ic <= 0 /\ r.jc <= 0)
    BY <1>0, <1>1
  <2> QED BY <2>2, <2>3
<1>2. CASE ~(r.ic > 0 \/ r.jc > 0) /\ nt <= 1
  <2>1. s = Split(1, 1, 1)
    BY <1>2 DEF GetThreading
  <2>2. 1 = 1 * 1
    OBVIOUS
  <2>3. IsSplit(s) /\ s.nt = 1
    BY <2>1, <2>2 DEF IsSplit, Split
  <2>4. nt > 0 => nt = 1
    BY <1>0, <1>2
  <2>5. nt > 0 => s.nt <= nt /\ nt - s.nt < low_freq_thres
    BY <1>0, <2>3, <2>4
  <2> HIDE DEF s
  <2> QED BY <2>3, <2>5 DEF s
<1>3. CASE ~(r.ic > 0 \/ r.jc > 0) /\ ~(nt <= 1)
  <2>0. nt \in Nat \ {0} /\ nt > 1
    BY <1>0, <1>3
  <2>1. \/ s = Split(nt, nt, 1)
        \/ s = Split(nt, 1, nt)
        \/ /\ mr * nr <= nt /\ nt - (nt \div mr) * mr < low_freq_thres
           /\ s = Split(mr * (nt \div mr), mr, nt \div mr)
        \/ s = chosen
    BY <1>3 DEF GetThreading
  <2>2. CASE s = Split(nt, nt, 1) \/ s = Split(nt, 1, nt)
    <3>1. nt = nt * 1 /\ nt = 1 * nt
      BY <2>0
    <3>2. IsSplit(s) /\ s.nt = nt
      BY <2>0, <2>2, <3>1 DEF IsSplit, Split
    <3>3. s.nt <= nt /\ nt - s.nt < low_freq_thres
      BY <1>0, <2>0, <3>2
    <3> HIDE DEF s
    <3> QED BY <3>2, <3>3 DEF s
  <2>3. CASE /\ mr * nr <= nt /\ nt - (nt \div mr) * mr < low_freq_thres
             /\ s = Split(mr * (nt \div mr), mr, nt \div mr)
    <3> DEFINE q == nt \div mr
    <3>1. mr * nr \in Nat /\ mr <= mr * nr
      BY <1>0, WaysBelow
    <3>2. mr <= nt
      BY <1>0, <2>0, <2>3, <3>1
    <3>3. q \in Nat \ {0} /\ mr * q <= nt
      BY <1>0, <2>0, <3>2, QuotientIs
    <3>4. IsSplit(s) /\ s.nt = mr * q
      <4>1. s = Split(mr * q, mr, q)
        BY <2>3
      <4> HIDE DEF s, q, mr
      <4>2. mr \in Nat \ {0} /\ q \in Nat \ {0}
        BY <1>0, <3>3
      <4> QED BY <4>1, <4>2, SplitIs
    <3>5. mr * q = q * mr
      BY <1>0, <3>3, WaysBelow
    <3>6. nt - q * mr < low_freq_thres
      BY <2>3
    <3> HIDE DEF s, q, mr
    <3>7. s.nt <= nt /\ nt - s.nt < low_freq_thres
      BY <3>3, <3>4, <3>5, <3>6
    <3> QED BY <3>4, <3>7 DEF s
  <2>4. CASE s = chosen
    BY <2>0, <2>4
  <2> QED BY <2>1, <2>2, <2>3, <2>4
<1> HIDE DEF s
<1> QED BY <1>1, <1>2, <1>3 DEF s

\* In the frame the work per thread stays below any bound that the chosen split meets.
LEMMA FrameWork ==
  ASSUME NEW r \in [nt : Int, ic : Int, jc : Int], NEW p, IsProblem(p), NEW chosen, NEW b \in Nat,
         r.ic <= 0, r.jc <= 0, r.nt > 1, p.m > p.MR, p.n > p.NR,
         b >= 2, PanelWork(chosen, p) <= b
  PROVE  PanelWork(GetThreading(r, p, chosen), p) <= b
<1> DEFINE s == GetThreading(r, p, chosen)
           nt == r.nt
           mr == mr_blks(p)
           nr == nr_blks(p)
<1>0. nt \in Nat \ {0} /\ mr \in Nat \ {0} /\ nr \in Nat \ {0}
      /\ ~(r.ic > 0 \/ r.jc > 0) /\ ~(nt <= 1) /\ ~(p.n <= p.NR) /\ ~(p.m <= p.MR)
  BY WorkIs DEF IsProblem
<1>1. \/ mr * nr <= nt /\ s = Split(mr * (nt \div mr), mr, nt \div mr)
      \/ s = chosen
  BY <1>0 DEF GetThreading
<1>2. CASE mr * nr <= nt /\ s = Split(mr * (nt \div mr), mr, nt \div mr)
  <2> DEFINE q == nt \div mr
  <2>1. q \in Nat /\ nr <= q
    BY <1>0, <1>2, QuotientAbove, DivMod
  <2>2. s.ic = mr /\ s.jc = q
    BY <1>2 DEF Split
  <2>3. CeilDiv(mr, mr) = 1 /\ CeilDiv(nr, q) = 1
    <3>1. q \in Nat \ {0} /\ mr <= mr
      BY <1>0, <2>1
    <3> QED BY <1>0, <2>1, <3>1, CeilDivIs
  <2>4. PanelWork(s, p) = 1 + 1
    BY <2>2, <2>3 DEF PanelWork
  <2> HIDE DEF s
  <2>5. PanelWork(s, p) <= b
    BY <2>4
  <2> QED BY <2>5 DEF s
<1>3. CASE s = chosen
  BY <1>3
<1> QED BY <1>1, <1>2, <1>3

\* A prime count loses one thread at most, and only for less work.
LEMMA ReduceKeeps ==
  ASSUME NEW nt \in Nat \ {0}, nt > 1, NEW p, IsProblem(p), NEW reduce \in BOOLEAN
  PROVE  LET a == PartitionOrReduce(nt, p, reduce)
         IN  /\ IsSplit(a) /\ (a.nt = nt \/ a.nt = nt - 1)
             /\ PanelWork(a, p) <= PanelWork(Partition(nt, p), p)
<1> DEFINE s == PartitionByPanels(nt, p)
           t == PartitionByPanels(nt - 1, p)
           a == PartitionOrReduce(nt, p, reduce)
           b == PanelWork(Partition(nt, p), p)
<1>1. IsSplit(s) /\ s.nt = nt /\ PanelWork(s, p) <= b
  BY ByPanelsKeeps
<1>2. IsSplit(t) /\ t.nt = nt - 1
  <2>1. nt - 1 \in Nat \ {0}
    OBVIOUS
  <2> QED BY <2>1, ByPanelsKeeps
<1>3. \/ a = s
      \/ a = t /\ PanelWork(t, p) < PanelWork(s, p)
  BY DEF PartitionOrReduce, dlp_gemm_pnl_wrk_heur_adjust_threading_for_prime_nt
<1>4. PanelWork(s, p) \in Nat /\ PanelWork(t, p) \in Nat /\ b \in Nat
  <2>1. IsSplit(Partition(nt, p))
    BY PartitionSplit
  <2> HIDE DEF s, t
  <2>2. /\ s.ic \in Nat \ {0} /\ s.jc \in Nat \ {0} /\ t.ic \in Nat \ {0} /\ t.jc \in Nat \ {0}
        /\ Partition(nt, p).ic \in Nat \ {0} /\ Partition(nt, p).jc \in Nat \ {0}
    BY <1>1, <1>2, <2>1 DEF IsSplit
  <2> QED BY <2>2, WorkIs
<1> HIDE DEF s, t, a, b
<1>5. IsSplit(a) /\ (a.nt = nt \/ a.nt = nt - 1) /\ PanelWork(a, p) <= b
  <2>1. CASE a = s
    BY <1>1, <2>1
  <2>2. CASE a = t /\ PanelWork(t, p) < PanelWork(s, p)
    <3>1. PanelWork(t, p) <= b
      BY <1>1, <1>4, <2>2
    <3> QED BY <1>2, <2>2, <3>1
  <2> QED BY <1>3, <2>1, <2>2
<1> QED BY <1>5 DEF a, b

\* The three threading functions return a split; the GEMM ones leave fewer than
\* low_freq_thres threads idle.
LEMMA PanelThreading ==
  ASSUME NEW r \in [nt : Int, ic : Int, jc : Int], NEW p, IsProblem(p), NEW reduce \in BOOLEAN
  PROVE  LET s == PanelGetThreading(r, p, reduce)
         IN  /\ IsSplit(s)
             /\ r.ic <= 0 /\ r.jc <= 0 /\ r.nt > 0 =>
                  s.nt <= r.nt /\ r.nt - s.nt < low_freq_thres
             /\ r.ic <= 0 /\ r.jc <= 0 /\ r.nt > 1 /\ p.m > p.MR /\ p.n > p.NR =>
                  PanelWork(s, p) <= PanelWork(Partition(r.nt, p), p)
<1> DEFINE c == PartitionOrReduce(r.nt, p, reduce)
<1>1. r.nt \in Int /\ (r.nt > 1 => r.nt \in Nat \ {0})
  OBVIOUS
<1>2. r.nt > 1 =>
        /\ IsSplit(c) /\ (c.nt = r.nt \/ c.nt = r.nt - 1)
        /\ PanelWork(c, p) <= PanelWork(Partition(r.nt, p), p)
  BY <1>1, ReduceKeeps
<1>3. PanelGetThreading(r, p, reduce) = GetThreading(r, p, c)
  BY DEF PanelGetThreading
<1> HIDE DEF c
<1>4. r.nt > 1 => IsSplit(c) /\ c.nt <= r.nt /\ r.nt - c.nt < low_freq_thres
  BY <1>1, <1>2 DEF low_freq_thres
<1>5. /\ IsSplit(GetThreading(r, p, c))
      /\ r.ic <= 0 /\ r.jc <= 0 /\ r.nt > 0 =>
           GetThreading(r, p, c).nt <= r.nt /\ r.nt - GetThreading(r, p, c).nt < low_freq_thres
  BY <1>4, FrameSplit
<1>6. ASSUME r.ic <= 0, r.jc <= 0, r.nt > 1, p.m > p.MR, p.n > p.NR
      PROVE  PanelWork(GetThreading(r, p, c), p) <= PanelWork(Partition(r.nt, p), p)
  <2> DEFINE b == PanelWork(Partition(r.nt, p), p)
  <2>1. IsSplit(Partition(r.nt, p))
    BY <1>1, <1>6, PartitionSplit
  <2>2. b \in Nat /\ b >= 2
    <3>1. Partition(r.nt, p).ic \in Nat \ {0} /\ Partition(r.nt, p).jc \in Nat \ {0}
      BY <2>1 DEF IsSplit
    <3> QED BY <3>1, WorkIs
  <2>3. PanelWork(c, p) <= b
    BY <1>2, <1>6
  <2> HIDE DEF b
  <2>4. PanelWork(GetThreading(r, p, c), p) <= b
    BY <1>6, <2>2, <2>3, FrameWork
  <2> QED BY <2>4 DEF b
<1> QED BY <1>3, <1>5, <1>6

\* The f32 function.
LEMMA F32Threading ==
  ASSUME NEW r \in [nt : Int, ic : Int, jc : Int], NEW p, IsProblem(p)
  PROVE  LET s == dlp_gemm_f32f32f32of32_get_threading(r, p)
         IN  /\ IsSplit(s)
             /\ r.ic <= 0 /\ r.jc <= 0 /\ r.nt > 0 =>
                  s.nt <= r.nt /\ r.nt - s.nt < low_freq_thres
<1> DEFINE c == PartitionF32(r.nt, p)
           s == Partition(r.nt, p)
<1>1. r.nt \in Int /\ (r.nt > 1 => r.nt \in Nat \ {0})
  OBVIOUS
<1>2. r.nt > 1 => IsSplit(c) /\ c.nt = r.nt
  <2>1. c = dlp_gemm_adjust_ic_jc_ways(s, p) \/ c = s
    BY DEF PartitionF32
  <2>2. r.nt > 1 => IsSplit(s) /\ s.nt = r.nt
    BY <1>1, PartitionSplit
  <2> HIDE DEF c, s
  <2>3. r.nt > 1 => IsSplit(dlp_gemm_adjust_ic_jc_ways(s, p))
                    /\ dlp_gemm_adjust_ic_jc_ways(s, p).nt = r.nt
    BY <2>2, AdjustF32Keeps
  <2> QED BY <2>1, <2>2, <2>3
<1>3. dlp_gemm_f32f32f32of32_get_threading(r, p) = GetThreading(r, p, c)
  BY DEF dlp_gemm_f32f32f32of32_get_threading
<1> HIDE DEF c
<1>4. r.nt > 1 => IsSplit(c) /\ c.nt <= r.nt /\ r.nt - c.nt < low_freq_thres
  BY <1>1, <1>2 DEF low_freq_thres
<1> QED BY <1>3, <1>4, FrameSplit

\* With one side fixed, the other takes the threads that are left or its
\* number of blocks.
LEMMA ShareIs ==
  ASSUME NEW nt \in Nat \ {0}, NEW a \in Nat \ {0}, NEW c \in Nat \ {0}, a <= nt
  PROVE  LET b == Min({nt \div a, c})
         IN  b \in Nat \ {0} /\ a * b \in Nat \ {0} /\ a * b <= nt
<1> DEFINE q == nt \div a
           b == Min({q, c})
<1>1. q \in Nat \ {0} /\ a * q <= nt
  BY QuotientIs
<1> HIDE DEF q
<1>2. b \in {q, c} /\ b <= q
  BY <1>1, Pairs
<1> HIDE DEF b
<1>3. b \in Nat \ {0}
  BY <1>1, <1>2
<1>4. b * a <= q * a
  BY <1>1, <1>2, <1>3, TimesMonotone
<1>5. b * a = a * b /\ q * a = a * q /\ a * b \in Nat \ {0} /\ a * q \in Nat
  BY <1>1, <1>3, WaysBelow
<1>6. a * b <= nt
  BY <1>1, <1>4, <1>5
<1> QED BY <1>3, <1>5, <1>6 DEF b, q

\* The element-wise operations: a split of at most the threads asked for.
LEMMA EltwiseThreading ==
  ASSUME NEW r \in [nt : Int, ic : Int, jc : Int], NEW p, IsProblem(p)
  PROVE  LET s == dlp_gemm_eltwise_ops_get_threading(r, p)
         IN  IsSplit(s) /\ (r.ic <= 0 /\ r.jc <= 0 /\ r.nt > 0 => s.nt <= r.nt)
<1> DEFINE s == dlp_gemm_eltwise_ops_get_threading(r, p)
           nt == r.nt
           mr == mr_blks(p)
           nr == nr_blks(p)
           f == Partition(nt, p)
           kj == Min({nt \div mr, nr})
           ki == Min({nt \div nr, mr})
           lm == Min({mr, nt})
           ln == Min({nr, nt})
<1>0. nt \in Int /\ r.ic \in Int /\ r.jc \in Int /\ mr \in Nat \ {0} /\ nr \in Nat \ {0}
  BY WorkIs
<1>1. CASE r.ic > 0 \/ r.jc > 0
  <2>1. s = LET ic == Max({r.ic, 1})  jc == Max({r.jc, 1}) IN Split(jc * ic, ic, jc)
    BY <1>1 DEF dlp_gemm_eltwise_ops_get_threading
  <2>2. IsSplit(s)
    BY <1>0, <2>1, GivenWays
  <2>3. ~(r.ic <= 0 /\ r.jc <= 0)
    BY <1>0, <1>1
  <2> QED BY <2>2, <2>3
<1>2. CASE ~(r.ic > 0 \/ r.jc > 0) /\ nt <= 1
  <2>1. s = Split(1, 1, 1)
    BY <1>2 DEF dlp_gemm_eltwise_ops_get_threading
  <2>2. 1 = 1 * 1
    OBVIOUS
  <2>3. IsSplit(s) /\ s.nt = 1
    BY <2>1, <2>2 DEF IsSplit, Split
  <2> HIDE DEF s
  <2>4. nt > 0 => s.nt <= nt
    BY <1>0, <2>3
  <2> QED BY <2>3, <2>4 DEF s
<1>3. CASE ~(r.ic > 0 \/ r.jc > 0) /\ ~(nt <= 1)
  <2>0. nt \in Nat \ {0} /\ nt > 1
    BY <1>0, <1>3
  <2>1. \/ s = Split(lm, lm, 1)
        \/ s = Split(ln, 1, ln)
        \/ s = Split(nt, nt, 1)
        \/ ~(mr >= nt) /\ s = Split(mr * kj, mr, kj)
        \/ mr < f.ic /\ nr < f.jc /\ s = Split(mr * nr, mr, nr)
        \/ nr < f.jc /\ s = Split(ki * nr, ki, nr)
        \/ s = f
    BY <1>3 DEF dlp_gemm_eltwise_ops_get_threading
  <2>2. IsSplit(f) /\ f.nt = nt
    BY <2>0, PartitionSplit
  <2>3. lm \in Nat \ {0} /\ lm <= nt /\ ln \in Nat \ {0} /\ ln <= nt
    <3>0. mr \in Int /\ nr \in Int /\ nt \in Int
      BY <1>0
    <3> HIDE DEF mr, nr, nt
    <3>1. lm \in {mr, nt} /\ lm <= nt
      BY <3>0, Pairs
    <3>2. ln \in {nr, nt} /\ ln <= nt
      BY <3>0, Pairs
    <3> HIDE DEF lm, ln
    <3> QED BY <1>0, <2>0, <3>1, <3>2
  <2>4. mr <= nt => kj \in Nat \ {0} /\ mr * kj \in Nat \ {0} /\ mr * kj <= nt
    BY <1>0, <2>0, ShareIs
  <2>5. nr <= nt => ki \in Nat \ {0} /\ nr * ki \in Nat \ {0} /\ nr * ki <= nt
    BY <1>0, <2>0, ShareIs
  <2> HIDE DEF s, f, kj, ki, lm, ln, mr, nr, nt
  <2>6. f.ic \in Nat \ {0} /\ f.jc \in Nat \ {0} /\ f.ic * f.jc = nt /\ f.ic <= nt /\ f.jc <= nt
    BY <2>2, WaysBelow DEF IsSplit
  <2>7. \A x \in Nat \ {0} : x * 1 = x /\ 1 * x = x
    OBVIOUS
  <2>8. IsSplit(s) /\ s.nt <= nt
    <3>1. CASE s = Split(lm, lm, 1) \/ s = Split(ln, 1, ln) \/ s = Split(nt, nt, 1)
      <4>1. IsSplit(s) /\ (s.nt = lm \/ s.nt = ln \/ s.nt = nt)
        BY <2>0, <2>3, <2>7, <3>1 DEF IsSplit, Split
      <4> QED BY <2>0, <2>3, <4>1
    <3>2. CASE ~(mr >= nt) /\ s = Split(mr * kj, mr, kj)
      <4>1. mr <= nt
        BY <1>0, <2>0, <3>2
      <4> QED BY <1>0, <2>4, <3>2, <4>1, SplitIs
    <3>3. CASE mr < f.ic /\ nr < f.jc /\ s = Split(mr * nr, mr, nr)
      <4>1. mr * nr <= f.ic * nr
        BY <1>0, <2>6, <3>3, TimesMonotone
      <4>2. nr * f.ic <= f.jc * f.ic
        BY <1>0, <2>6, <3>3, TimesMonotone
      <4>3. nr * f.ic = f.ic * nr /\ f.jc * f.ic = f.ic * f.jc /\ mr * nr \in Nat /\ f.ic * nr \in Nat
        BY <1>0, <2>6, WaysBelow
      <4>4. mr * nr <= nt
        BY <2>0, <2>6, <4>1, <4>2, <4>3
      <4> QED BY <1>0, <3>3, <4>4, SplitIs
    <3>4. CASE nr < f.jc /\ s = Split(ki * nr, ki, nr)
      <4>1. nr <= nt
        BY <1>0, <2>0, <2>6, <3>4
      <4>2. ki \in Nat \ {0} /\ nr * ki <= nt /\ ki * nr = nr * ki
        BY <1>0, <2>5, <4>1, WaysBelow
      <4>3. IsSplit(s) /\ s.nt = ki * nr
        BY <1>0, <3>4, <4>2, SplitIs
      <4> QED BY <4>2, <4>3
    <3>5. CASE s = f
      <4>1. s.nt = nt
        BY <2>2, <3>5
      <4> QED BY <2>0, <2>2, <3>5, <4>1
    <3> QED BY <2>1, <3>1, <3>2, <3>3, <3>4, <3>5
  <2> QED BY <2>8 DEF s, nt
<1> HIDE DEF s
<1> QED BY <1>1, <1>2, <1>3 DEF s

----------------------------------------------------------------------------
(* Who has what: the places of the thread ids and the owners of iterations. *)

\* A quotient and a remainder are determined by what they satisfy.
LEMMA DivUnique ==
  ASSUME NEW q \in Nat, NEW d \in Nat \ {0}, NEW r \in Nat, r < d
  PROVE  (q * d + r) \div d = q /\ (q * d + r) % d = r
<1> DEFINE x == q * d + r
           p == x \div d
           e == x % d
<1>1. x \in Nat
  OBVIOUS
<1>2. p \in Nat /\ e \in Nat /\ e < d /\ x = p * d + e
  BY <1>1, DivMod
<1>3. q * d + r = p * d + e
  BY <1>2
<1> HIDE DEF x, p, e
<1>4. (q - p) * d = e - r
  BY <1>2, <1>3
<1>5. q - p < 1
  BY <1>2, <1>4
<1>6. q - p > -1
  BY <1>2, <1>4
<1>7. q = p
  BY <1>2, <1>5, <1>6
<1>8. e = r
  BY <1>2, <1>4, <1>7
<1> QED
  BY <1>7, <1>8 DEF p, e, x

----------------------------------------------------------------------------
(* The grid of work ids.                                                   *)

\* Work id w alone has iteration c in its range.
Owns(n_way, w, n, bf, c) ==
  \A v \in Nat : c \in Indices(dlp_thread_task_range(n_way, v, n, bf, FALSE)) <=> v = w

\* Every iteration of a shared loop belongs to one work id, also when ids from
\* beyond n_way ask for a range.
LEMMA OneOwner ==
  ASSUME NEW n_way \in Nat \ {0}, NEW n \in Nat, NEW bf \in Nat \ {0}, NEW c \in 0 .. n - 1
  PROVE  \E w \in 0 .. n_way - 1 : Owns(n_way, w, n, bf, c)
<1> DEFINE R(x) == dlp_thread_task_range(n_way, x, n, bf, FALSE)
<1>1. PICK w \in 0 .. n_way - 1 : c \in Indices(R(w))
  BY RangesCover
<1>2. ASSUME NEW v \in Nat PROVE c \in Indices(R(v)) <=> v = w
  <2>1. CASE v >= n_way
    <3>1. R(v) = Span(n, n)
      BY <2>1 DEF dlp_thread_task_range
    <3> HIDE DEF R
    <3>2. Indices(R(v)) = n .. n - 1
      BY <3>1 DEF Indices, Span
    <3> QED BY <2>1, <3>2
  <2>2. CASE v < n_way /\ v # w
    <3>1. v \in 0 .. n_way - 1
      BY <2>2
    <3>2. Indices(R(v)) \cap Indices(R(w)) = {}
      BY <2>2, <3>1, RangesApart
    <3> HIDE DEF R
    <3> QED BY <1>1, <2>2, <3>2
  <2>3. CASE v = w
    BY <1>1, <2>3
  <2>4. v >= n_way \/ (v < n_way /\ v # w) \/ v = w
    OBVIOUS
  <2> HIDE DEF R
  <2> QED BY <2>1, <2>2, <2>3, <2>4
<1> QED BY <1>2 DEF Owns

\* The thread ids are the places of the ic_ways x jc_ways grid.
LEMMA PlaceOfTid ==
  ASSUME NEW a \in Nat \ {0}, NEW b \in Nat \ {0}, NEW t \in 0 .. a * b - 1
  PROVE  /\ ic_work_id(t, a) \in 0 .. a - 1 /\ jc_work_id(t, a) \in 0 .. b - 1
         /\ t = jc_work_id(t, a) * a + ic_work_id(t, a)
<1> DEFINE q == t \div a
           r == t % a
           ab == a * b
           qa == q * a
<1>0. ab \in Nat /\ t \in Nat /\ t < ab
  BY WaysBelow
<1>1. q \in Nat /\ r \in Nat /\ r < a /\ t = q * a + r
  BY <1>0, DivMod
<1> HIDE DEF q, r
<1>2. b <= q => ab <= qa
  <2>1. b <= q => b * a <= q * a
    BY <1>1, TimesMonotone
  <2>2. a * b = b * a
    BY WaysBelow
  <2> QED BY <2>1, <2>2
<1>3. qa \in Nat /\ t = qa + r
  BY <1>1
<1> HIDE DEF ab, qa
<1>4. q < b
  BY <1>0, <1>1, <1>2, <1>3
<1>5. ic_work_id(t, a) = r /\ jc_work_id(t, a) = q
  BY DEF ic_work_id, jc_work_id, q, r
<1> QED BY <1>1, <1>4, <1>5

\* The thread id at row u of column g.
TidAt(g, u, a) == g * a + u
Taken(g, u, a, b) ==
  /\ TidAt(g, u, a) \in 0 .. a * b - 1
  /\ ic_work_id(TidAt(g, u, a), a) = u /\ jc_work_id(TidAt(g, u, a), a) = g

\* ... and every place is taken.
LEMMA TidOfPlace ==
  ASSUME NEW a \in Nat \ {0}, NEW b \in Nat \ {0}, NEW u \in 0 .. a - 1, NEW g \in 0 .. b - 1
  PROVE  Taken(g, u, a, b)
<1> DEFINE x == g * a + u
           ga == g * a
           ab == a * b
<1>1. x \in Nat /\ x \div a = g /\ x % a = u
  BY DivUnique
<1>2. ga + a <= ab
  <2>1. (g + 1) * a <= b * a
    BY TimesMonotone
  <2>2. (g + 1) * a = g * a + a
    OBVIOUS
  <2>3. a * b = b * a
    BY WaysBelow
  <2> QED BY <2>1, <2>2, <2>3
<1>3. x = ga + u /\ ga \in Nat /\ ab \in Nat
  BY WaysBelow
<1> HIDE DEF ga, ab
<1>4. x \in 0 .. ab - 1
  BY <1>1, <1>2, <1>3
<1> QED BY <1>1, <1>4 DEF Taken, ic_work_id, jc_work_id, ab, TidAt

\* A seating of n threads: each has a number below n, and each number is had by
\* one thread.
Seating(f, n) ==
  /\ f \in [0 .. n - 1 -> 0 .. n - 1]
  /\ \A x \in 0 .. n - 1 : \E t \in 0 .. n - 1 : \A u \in 0 .. n - 1 : f[u] = x <=> u = t

\* The threads of a team seated by f that are in column g.
Members(f, a, b, g) == {t \in 0 .. a * b - 1 : jc_work_id(f[t], a) = g}
ColumnFull(f, a, b, g) ==
  /\ Cardinality(Members(f, a, b, g)) = a
  /\ {ic_work_id(f[t], a) : t \in Members(f, a, b, g)} = 0 .. a - 1

\* The threads of one jc team are those of its column of the grid, one for each
\* row.
LEMMA Column ==
  ASSUME NEW a \in Nat \ {0}, NEW b \in Nat \ {0}, NEW f, Seating(f, a * b), NEW g \in 0 .. b - 1
  PROVE  ColumnFull(f, a, b, g)
<1> DEFINE members == {t \in 0 .. a * b - 1 : jc_work_id(f[t], a) = g}
           h == [t \in members |-> ic_work_id(f[t], a)]
<1>0. /\ a * b \in Nat \ {0}
      /\ \A t \in 0 .. a * b - 1 : f[t] \in 0 .. a * b - 1
  BY WaysBelow DEF Seating
<1>1. \A t \in members : f[t] \in 0 .. a * b - 1 /\ jc_work_id(f[t], a) = g
  BY <1>0
<1>2. \A t \in members : ic_work_id(f[t], a) \in 0 .. a - 1 /\ f[t] = g * a + ic_work_id(f[t], a)
  <2> SUFFICES ASSUME NEW t \in members
               PROVE  ic_work_id(f[t], a) \in 0 .. a - 1 /\ f[t] = g * a + ic_work_id(f[t], a)
    OBVIOUS
  <2>1. f[t] \in 0 .. a * b - 1 /\ jc_work_id(f[t], a) = g
    BY <1>1
  <2>2. /\ ic_work_id(f[t], a) \in 0 .. a - 1
        /\ f[t] = jc_work_id(f[t], a) * a + ic_work_id(f[t], a)
    BY <2>1, PlaceOfTid
  <2> QED BY <2>1, <2>2
<1>3. ASSUME NEW u \in 0 .. a - 1 PROVE \E t \in members : ic_work_id(f[t], a) = u
  <2>1. PICK x : x = TidAt(g, u, a)
    OBVIOUS
  <2>2. x \in 0 .. a * b - 1 /\ ic_work_id(x, a) = u /\ jc_work_id(x, a) = g
    <3>1. Taken(g, u, a, b)
      BY TidOfPlace
    <3> QED BY <2>1, <3>1 DEF Taken
  <2>3. PICK t \in 0 .. a * b - 1 : f[t] = x
    BY <2>2 DEF Seating
  <2> QED BY <2>2, <2>3
<1>4. \A t, v \in 0 .. a * b - 1 : f[t] = f[v] => t = v
  BY <1>0 DEF Seating
<1>5. \A t \in members : t \in 0 .. a * b - 1
  OBVIOUS
<1> HIDE DEF members
<1>6. h \in [members -> 0 .. a - 1]
  BY <1>2
<1>7. \A t, v \in members : h[t] = h[v] => t = v
  BY <1>2, <1>4, <1>5
<1>8. \A u \in 0 .. a - 1 : \E t \in members : h[t] = u
  BY <1>3
<1>9. DOMAIN h = members
  OBVIOUS
<1> HIDE DEF h
<1>10. h \in Bijection(members, 0 .. a - 1)
  BY <1>6, <1>7, <1>8, <1>9 DEF Bijection, Injection, Surjection, IsInjective
<1>11. IsFiniteSet(members)
  <2>1. IsFiniteSet(0 .. a * b - 1)
    BY <1>0, FS_Interval
  <2>2. members \in SUBSET (0 .. a * b - 1)
    BY <1>5
  <2> QED BY <2>1, <2>2, FS_Subset
<1>12. Cardinality(0 .. a - 1) = Cardinality(members)
  BY <1>10, <1>11, FS_Bijection DEF ExistsBijection
<1>13. Cardinality(0 .. a - 1) = a
  <2>1. Cardinality(0 .. a - 1) = IF 0 > a - 1 THEN 0 ELSE a - 1 - 0 + 1
    BY FS_Interval
  <2> QED BY <2>1
<1>14. {ic_work_id(f[t], a) : t \in members} = 0 .. a - 1
  BY <1>2, <1>3
<1> QED BY <1>12, <1>13, <1>14 DEF members, Members, ColumnFull

\* A range has the whole blocks of every other, or one more.
LEMMA BlocksEach ==
  ASSUME NEW n_way \in Nat \ {0}, NEW n \in Nat, NEW bf \in Nat \ {0}, NEW w \in 0 .. n_way - 1
  PROVE  LET R == dlp_thread_task_range(n_way, w, n, bf, FALSE)
         IN  (R.end - R.start) \div bf \in {Each(n_way, n, bf), Each(n_way, n, bf) + 1}
<1> DEFINE q == Each(n_way, n, bf)
           r == Over(n_way, n, bf)
           left == n % bf
           R == dlp_thread_task_range(n_way, w, n, bf, FALSE)
           a == HighBlocks(q, r, w)
           b == HighBlocks(q, r, w + 1)
<1>1. q \in Nat /\ r \in Nat /\ r < n_way /\ left \in Nat /\ left < bf
  BY BlockCounts, DivMod
<1>2. R.start = a * bf /\ (R.end = b * bf + left \/ R.end = b * bf + 0)
  BY HighRange
<1> HIDE DEF q, r, left, R
<1>3. a \in Nat /\ (b = a + q \/ b = a + q + 1)
  <2>1. CASE w < r
    <3>1. a = w * (q + 1)
      BY <2>1 DEF HighBlocks
    <3>2. b = (w + 1) * (q + 1)
      BY <1>1, <2>1 DEF HighBlocks
    <3>3. (w + 1) * (q + 1) = w * (q + 1) + q + 1 /\ w * (q + 1) \in Nat
      BY <1>1
    <3> HIDE DEF a, b
    <3>4. b = a + q + 1 /\ a \in Nat
      BY <3>1, <3>2, <3>3
    <3> QED BY <3>4
  <2>2. CASE ~(w < r)
    <3> DEFINE z == w - r
    <3>0. z \in Nat
      BY <1>1, <2>2
    <3>1. a = r * (q + 1) + z * q
      BY <2>2 DEF HighBlocks
    <3>2. b = r * (q + 1) + (w + 1 - r) * q
      BY <1>1, <2>2 DEF HighBlocks
    <3>3. (w + 1 - r) * q = z * q + q
      BY <1>1
    <3> HIDE DEF z
    <3> DEFINE rq == r * (q + 1)
               zq == z * q
    <3>4. rq \in Nat /\ zq \in Nat /\ a = rq + zq /\ b = rq + (zq + q)
      BY <1>1, <3>0, <3>1, <3>2, <3>3
    <3> HIDE DEF a, b, rq, zq
    <3>5. b = a + q /\ a \in Nat
      BY <1>1, <3>4
    <3> QED BY <3>5
  <2> QED BY <2>1, <2>2
<1> HIDE DEF a, b
<1>4. PICK e, l, x : /\ e = b - a /\ l = (IF R.end = b * bf + left THEN left ELSE 0)
                     /\ x = R.end - R.start
  OBVIOUS
<1>5. e \in {q, q + 1} /\ e \in Nat /\ b = a + e
  BY <1>1, <1>3, <1>4
<1>6. l \in Nat /\ l < bf /\ R.end = b * bf + l
  BY <1>1, <1>2, <1>4
<1>7. b * bf = a * bf + e * bf
  BY <1>3, <1>5
<1>8. x = e * bf + l
  <2> DEFINE ab == a * bf
             eb == e * bf
  <2>1. ab \in Nat /\ eb \in Nat /\ R.start = ab /\ R.end = ab + eb + l
    BY <1>2, <1>3, <1>5, <1>6, <1>7
  <2> HIDE DEF ab, eb
  <2>2. x = eb + l
    BY <1>4, <1>6, <2>1
  <2> QED BY <2>2 DEF eb
<1>9. x \div bf = e
  BY <1>5, <1>6, <1>8, DivUnique
<1> QED BY <1>4, <1>5, <1>9 DEF q, R
=============================================================================
