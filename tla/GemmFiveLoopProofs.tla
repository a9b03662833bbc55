------------------------ MODULE GemmFiveLoopProofs ------------------------
(***************************************************************************)
(* The five-loop driver packs, reads and frees its shared buffer safely    *)
(* and computes all of C, for every shape, blocking and team.              *)
(*                                                                         *)
(* The argument: a thread has passed two barriers for each panel it is     *)
(* done with (Base).  Two barriers a panel keep a team at most one panel   *)
(* apart: whoever packs is at the same panel as all the others, and        *)
(* whoever computes leaves the others only as far as the next panel's      *)
(* first barrier.  So the slice of a thread keeps what it was packed with  *)
(* until the last reader is through (Contents).                            *)
(***************************************************************************)
EXTENDS GemmFiveLoop, SharingProofs

Locations == {"begin", "send", "arriveAlloc", "waitAlloc", "receive", "pack", "arrivePack",
              "waitPack", "compute", "arriveLast", "waitLast", "release", "done"}
Waiting == {"waitAlloc", "waitPack", "waitLast"}
InBlock == {"send", "arriveAlloc", "waitAlloc", "receive", "pack", "arrivePack", "waitPack",
            "compute"}

Teams == 0 .. s.jc_ways - 1
Lead(t) == JcId(t) * s.ic_ways

\* The barriers passed since the block was begun, and the barriers before it:
\* two for each block done.
Off(t) == IF at[t] \in {"receive", "pack", "arrivePack", "waitPack", "release", "done"} THEN 1
          ELSE IF at[t] = "compute" THEN 2 ELSE 0
Base(t) == passed[t] - Off(t)

Begun(t) == at[t] # "begin"

\* The block of columns after the one that begins with j, and the panel after
\* panel <<j, p>>.
NextStart(j) == (IF Reordered THEN PanelStart(j) ELSE j) + s.NC
NextPanel(j, p) == IF p + s.KC < s.k THEN <<j, p + s.KC>> ELSE <<NextStart(j), 0>>

\* The width and the size of a team's buffer.
Width(t) == MinOf(JcLoop(t).end - JcLoop(t).start, s.NC)
Depth == MakeMultiple(MinOf(s.k, s.KC), PadK) + (IF s.mtag_b = "PACK" THEN 4 ELSE 0)
Size(t) == MakeMultiple(Width(t), PadN) * Depth

Columns == UNION {[0 .. w - 1 -> Int \X Int] : w \in Nat}
Sums == UNION {[0 .. w - 1 -> SUBSET (Int \X Int)] : w \in Nat}
PackBuffers == [live : BOOLEAN, size : Int, panel : Columns, sums : Sums]
Elements == (0 .. s.m - 1) \X (0 .. s.n - 1)

----------------------------------------------------------------------------
Typed ==
  /\ s \in Shapes
  /\ at \in [Threads -> Locations]
  /\ jcs \in [Threads -> [start : Int, end : Int]]
  /\ ics \in [Threads -> [start : Int, end : Int]]
  /\ jc \in [Threads -> Nat] /\ pc \in [Threads -> Nat] /\ ic \in [Threads -> Nat]
  /\ nc0 \in [Threads -> Int]
  /\ buf \in [Threads -> Nat]
  /\ sent_object \in [Teams -> Nat]
  /\ heap \in Seq(PackBuffers)
  /\ temp \in [Threads -> Int]
  /\ entered \in [Threads -> Nat] /\ passed \in [Threads -> Nat]
  /\ added \in [Elements -> Nat]

\* Where a thread is says which barrier calls are open, and which way it came.
Control ==
  \A t \in Threads :
    /\ entered[t] = passed[t] + (IF at[t] \in Waiting THEN 1 ELSE 0)
    /\ at[t] = "begin" => passed[t] = 0 /\ temp[t] = -1
    /\ s.mtag_b = "UNPACKED" => at[t] \in {"begin", "done"}
    /\ ~Packs => at[t] \in {"begin", "compute", "release", "done"}

\* The loops a thread is in.
Loops ==
  \A t \in Threads : Begun(t) /\ s.mtag_b # "UNPACKED" =>
    /\ jcs[t] = JcLoop(t) /\ ics[t] = IcLoop(t)
    /\ JcLoop(t).start <= jc[t] /\ IcLoop(t).start <= ic[t]
    /\ at[t] \in InBlock <=> jc[t] < JcLoop(t).end
    /\ nc0[t] = BlockWidth(jc[t], JcLoop(t).end)
    /\ pc[t] < s.k /\ pc[t] % s.KC = 0

\* A thread in a block has the buffer it accumulates C in.
Accumulator ==
  \A t \in Threads :
    at[t] \in InBlock /\ s.downscale /\ s.k > s.KC =>
      temp[t] = Width(t) * (IcLoop(t).end - IcLoop(t).start)

\* The team goes through the same panels in the same order, at most one apart.
InStep(t, u) ==
  /\ passed[t] <= entered[u]
  /\ Begun(t) /\ Begun(u) =>
       /\ Base(u) \in {Base(t) - 2, Base(t), Base(t) + 2}
       /\ Base(u) = Base(t) => Panel(u) = Panel(t)
       /\ Base(u) = Base(t) + 2 => at[t] \in InBlock /\ Panel(u) = NextPanel(jc[t], pc[t])
Lockstep ==
  Packs =>
    /\ \A t \in Threads :
         /\ Base(t) >= 0
         /\ Begun(t) /\ Base(t) = 0 => jc[t] = JcLoop(t).start /\ pc[t] = 0
    /\ \A t \in Threads : \A u \in TeamOf(t) : InStep(t, u)

\* The buffer of a team: whose it is, when it is there, and how large.
Sent(t) == sent_object[JcId(t)]
Holding == {"pack", "arrivePack", "waitPack", "compute"}
PastSend == InBlock \ {"send"}
Buffers ==
  /\ \A t \in Threads : Chief(t) /\ at[t] # "done" => buf[t] = Sent(t)
  /\ Packs => \A t \in Threads :
       /\ at[t] \in Holding => buf[t] = Sent(t)
       /\ Chief(t) /\ (at[t] \in PastSend \/ Base(t) > 0) => Sent(t) # 0
  /\ ~Packs => Len(heap) = 0
  /\ \A g \in Teams : sent_object[g] <= Len(heap)
  /\ \A g, h \in Teams : sent_object[g] # 0 /\ sent_object[g] = sent_object[h] => g = h
  /\ \A b \in 1 .. Len(heap) : \E g \in Teams : sent_object[g] = b
  /\ \A t \in Threads : Chief(t) /\ Sent(t) # 0 =>
       /\ heap[Sent(t)].live <=> at[t] # "done"
       /\ heap[Sent(t)].size = Size(t)
       /\ DOMAIN heap[Sent(t)].panel = 0 .. Width(t) - 1
       /\ DOMAIN heap[Sent(t)].sums = 0 .. Width(t) - 1

\* What the slice of a work id holds, of a panel of width w.
Slice(t, w) == Indices(dlp_thread_task_range(s.ic_ways, IcId(t), w, s.NR, FALSE))
PanelsBefore(t) == {<<jc[t], x>> : x \in {y \in 0 .. pc[t] - 1 : y % s.KC = 0}}
Holds(u, t) ==
  \A c \in Slice(u, nc0[t]) : /\ heap[Sent(t)].panel[c] = Panel(t)
                              /\ heap[Sent(t)].sums[c] = PanelsUpTo(t)
Contents ==
  Packs => \A t \in Threads :
    /\ at[t] \in {"arrivePack", "waitPack", "compute"} => Holds(t, t)
    /\ at[t] \in {"waitPack", "compute"} =>
         \A u \in TeamOf(t) : Base(u) = Base(t) + 2 => Holds(u, t)
    /\ at[t] \in {"send", "arriveAlloc", "waitAlloc", "receive", "pack"} /\ pc[t] > 0 =>
         \A c \in Slice(t, nc0[t]) : heap[Sent(t)].sums[c] = PanelsBefore(t)

\* The k blocks a thread has added to element i, j of its part of C.
AddedBy(t, i, j) ==
  IF at[t] = "begin" \/ s.mtag_b = "UNPACKED" THEN 0
  ELSE IF at[t] \notin InBlock \/ j < jc[t] THEN KBlocks
  ELSE IF j < jc[t] + nc0[t] THEN (pc[t] \div s.KC) + (IF i < ic[t] THEN 1 ELSE 0)
  ELSE 0
Result ==
  \A t \in Threads : \A i \in Indices(IcLoop(t)), j \in Indices(JcLoop(t)) :
    added[<<i, j>>] = AddedBy(t, i, j)

IInv == Typed /\ Control /\ Loops /\ Accumulator /\ Lockstep /\ Buffers /\ Contents /\ Result

----------------------------------------------------------------------------
(* Arithmetic of the shape.                                                *)

\* What the fields of a shape are.
LEMMA ShapeFacts ==
  ASSUME s \in Shapes
  PROVE  /\ s.ic_ways \in Nat \ {0} /\ s.jc_ways \in Nat \ {0}
         /\ s.m \in Nat /\ s.n \in Nat /\ s.k \in Nat \ {0}
         /\ s.MR \in Nat \ {0} /\ s.NR \in Nat \ {0}
         /\ s.MC \in Nat \ {0} /\ s.NC \in Nat \ {0} /\ s.KC \in Nat \ {0}
         /\ s.downscale \in BOOLEAN
         /\ PadN \in Nat \ {0} /\ PadK \in Nat \ {0}
BY FiveLoopAssumption

\* The place of a thread in its team.
LEMMA Ids ==
  ASSUME s \in Shapes, NEW t \in Threads
  PROVE  /\ t \in Nat
         /\ JcId(t) \in Teams /\ JcId(t) \in Nat
         /\ IcId(t) \in 0 .. s.ic_ways - 1
         /\ t = JcId(t) * s.ic_ways + IcId(t)
<1> DEFINE a == s.ic_ways
           b == s.jc_ways
           q == t \div a
           r == t % a
<1>1. a \in Nat \ {0} /\ b \in Nat \ {0}
  BY ShapeFacts
<1>2. t \in Nat /\ t < a * b
  BY <1>1 DEF Threads
<1> HIDE DEF a, b
<1>3. q \in Nat /\ r \in Nat /\ r < a /\ t = q * a + r
  BY <1>1, <1>2, DivMod
<1> HIDE DEF q, r
<1>4. q < b
  <2>1. SUFFICES ASSUME b <= q PROVE FALSE
    BY <1>1, <1>3
  <2>2. b * a <= q * a
    BY <1>1, <1>3, <2>1, TimesMonotone
  <2>3. a * b = b * a /\ a * b \in Nat /\ q * a \in Nat
    BY <1>1, <1>3
  <2> QED BY <1>2, <1>3, <2>2, <2>3
<1>5. JcId(t) = q /\ IcId(t) = r
  BY DEF JcId, IcId, jc_work_id, ic_work_id, q, r, a
<1>6. q \in 0 .. b - 1 /\ r \in 0 .. a - 1
  BY <1>1, <1>3, <1>4
<1> QED
  BY <1>2, <1>3, <1>5, <1>6 DEF Teams, a, b

\* Every place has its thread.
LEMMA Member ==
  ASSUME s \in Shapes, NEW g \in Teams, NEW w \in 0 .. s.ic_ways - 1
  PROVE  /\ g * s.ic_ways + w \in Threads
         /\ JcId(g * s.ic_ways + w) = g
         /\ IcId(g * s.ic_ways + w) = w
<1> DEFINE a == s.ic_ways
           b == s.jc_ways
<1>1. a \in Nat \ {0} /\ b \in Nat \ {0} /\ g \in Nat /\ g < b /\ w \in Nat /\ w < a
  BY ShapeFacts DEF Teams
<1>2. JcId(g * a + w) = (g * a + w) \div a /\ IcId(g * a + w) = (g * a + w) % a
  BY DEF JcId, IcId, jc_work_id, ic_work_id
<1> HIDE DEF a, b
<1>3. (g * a + w) \div a = g /\ (g * a + w) % a = w
  BY <1>1, DivUnique
<1>4. g * a + w \in 0 .. a * b - 1
  <2>1. g + 1 <= b /\ g + 1 \in Nat
    BY <1>1
  <2>2. (g + 1) * a <= b * a
    BY <1>1, <2>1, TimesMonotone
  <2>3. (g + 1) * a = g * a + a /\ g * a \in Nat /\ b * a = a * b /\ a * b \in Nat
    BY <1>1
  <2> QED BY <1>1, <2>2, <2>3
<1> QED
  BY <1>2, <1>3, <1>4 DEF Threads, a, b

\* The ranges of a thread lie within C.
LEMMA LoopBounds ==
  ASSUME s \in Shapes, NEW t \in Threads
  PROVE  /\ JcLoop(t).start \in Nat /\ JcLoop(t).end \in Nat
         /\ JcLoop(t).start <= JcLoop(t).end /\ JcLoop(t).end <= s.n
         /\ IcLoop(t).start \in Nat /\ IcLoop(t).end \in Nat
         /\ IcLoop(t).start <= IcLoop(t).end /\ IcLoop(t).end <= s.m
         /\ JcLoop(t) \in [start : Int, end : Int]
         /\ IcLoop(t) \in [start : Int, end : Int]
<1>1. /\ s.ic_ways \in Nat \ {0} /\ s.jc_ways \in Nat \ {0} /\ s.m \in Nat /\ s.n \in Nat
      /\ s.MR \in Nat \ {0} /\ s.NR \in Nat \ {0}
  BY ShapeFacts
<1>2. JcId(t) \in 0 .. s.jc_ways - 1 /\ IcId(t) \in 0 .. s.ic_ways - 1
  BY Ids DEF Teams
<1>3. /\ JcLoop(t).start \in Nat /\ JcLoop(t).end \in Nat
      /\ JcLoop(t).start <= JcLoop(t).end /\ JcLoop(t).end <= s.n
  BY <1>1, <1>2, RangeWithin DEF JcLoop
<1>4. /\ IcLoop(t).start \in Nat /\ IcLoop(t).end \in Nat
      /\ IcLoop(t).start <= IcLoop(t).end /\ IcLoop(t).end <= s.m
  BY <1>1, <1>2, RangeWithin DEF IcLoop
<1>5. \E a, b : JcLoop(t) = [start |-> a, end |-> b]
  BY DEF JcLoop, dlp_thread_task_range, EdgeHigh, EdgeLow, Span
<1>6. \E a, b : IcLoop(t) = [start |-> a, end |-> b]
  BY DEF IcLoop, dlp_thread_task_range, EdgeHigh, EdgeLow, Span
<1>7. JcLoop(t) \in [start : Int, end : Int]
  BY <1>3, <1>5
<1>8. IcLoop(t) \in [start : Int, end : Int]
  BY <1>4, <1>6
<1> QED
  BY <1>3, <1>4, <1>7, <1>8

\* A block of columns is not empty, ends within the range and is no wider than
\* the buffer; and the next one begins where it ends, or there is none.
LEMMA BlockOfColumns ==
  ASSUME s \in Shapes, NEW first \in Nat, NEW end \in Nat, NEW j \in Nat,
         first <= j, j < end
  PROVE  /\ BlockWidth(j, end) \in Nat \ {0}
         /\ BlockWidth(j, end) <= MinOf(end - first, s.NC)
         /\ j + BlockWidth(j, end) <= end
         /\ NextStart(j) \in Nat
         /\ \/ j + BlockWidth(j, end) = NextStart(j)
            \/ j + BlockWidth(j, end) = end /\ end <= NextStart(j)
<1> DEFINE N == s.NC
           q == j \div N
           r == j % N
           p == q * N
           width == MinOf(end - j, N)
<1>1. N \in Nat \ {0}
  BY ShapeFacts
<1>2. PanelStart(j) = p
  BY DEF PanelStart
<1>3. BlockWidth(j, end) = IF Reordered /\ j + width > p + N THEN N - (j - p) ELSE width
  BY <1>2 DEF BlockWidth
<1>4. NextStart(j) = (IF Reordered THEN p ELSE j) + N
  BY <1>2 DEF NextStart
<1>5. MinOf(end - first, N) = IF end - first <= N THEN end - first ELSE N
  BY DEF MinOf
<1>6. width = IF end - j <= N THEN end - j ELSE N
  BY DEF MinOf
<1> HIDE DEF N
<1>7. q \in Nat /\ r \in Nat /\ r < N /\ j = p + r
  BY <1>1, DivMod
<1> HIDE DEF q, r
<1>8. p \in Nat
  BY <1>1, <1>7
<1> HIDE DEF p, width
<1>9. CASE Reordered /\ j + width > p + N
  <2>1. BlockWidth(j, end) = N - (j - p) /\ NextStart(j) = p + N
    BY <1>3, <1>4, <1>9
  <2>2. width \in Nat /\ j + width <= end /\ width <= N
    BY <1>1, <1>6
  <2> QED BY <1>1, <1>5, <1>6, <1>7, <1>8, <1>9, <2>1, <2>2 DEF N
<1>10. CASE Reordered /\ ~(j + width > p + N)
  <2>1. BlockWidth(j, end) = width /\ NextStart(j) = p + N
    BY <1>3, <1>4, <1>10
  <2> QED BY <1>1, <1>5, <1>6, <1>7, <1>8, <1>10, <2>1 DEF N
<1>11. CASE ~Reordered
  <2>1. BlockWidth(j, end) = width /\ NextStart(j) = j + N
    BY <1>3, <1>4, <1>11
  <2> QED BY <1>1, <1>5, <1>6, <1>11, <2>1 DEF N
<1> QED BY <1>9, <1>10, <1>11

\* The step from one k block to the next.
LEMMA NextK ==
  ASSUME s \in Shapes, NEW p \in Nat, p % s.KC = 0, p < s.k
  PROVE  /\ (p + s.KC) % s.KC = 0
         /\ p \div s.KC \in Nat
         /\ (p + s.KC) \div s.KC = (p \div s.KC) + 1
         /\ p + s.KC >= s.k => KBlocks = (p \div s.KC) + 1
         /\ \A x \in 0 .. p + s.KC - 1 : x % s.KC = 0 => x <= p
<1> DEFINE d == s.KC
           k == s.k
           q == p \div d
<1>1. d \in Nat \ {0} /\ k \in Nat \ {0}
  BY ShapeFacts
<1>2. KBlocks = (k + d - 1) \div d
  BY DEF KBlocks
<1>3. p % d = 0 /\ p < k
  OBVIOUS
<1> HIDE DEF d, k
<1>4. q \in Nat /\ p = q * d
  BY <1>1, <1>3, DivMod
<1> HIDE DEF q
<1>5. (q + 1) * d = q * d + d /\ q * d \in Nat
  BY <1>1, <1>4
<1>6. ((q + 1) * d + 0) \div d = q + 1 /\ ((q + 1) * d + 0) % d = 0
  <2> DEFINE z == q + 1
  <2>1. z \in Nat /\ 0 \in Nat /\ 0 < d
    BY <1>1, <1>4
  <2> HIDE DEF z
  <2>2. (z * d + 0) \div d = z /\ (z * d + 0) % d = 0
    BY <1>1, <2>1, DivUnique
  <2> QED BY <2>2 DEF z
<1>7. p + d = (q + 1) * d + 0
  BY <1>1, <1>4, <1>5
<1>8. ASSUME p + d >= k PROVE KBlocks = q + 1
  <2> DEFINE r == k - 1 - q * d
  <2> DEFINE z == q + 1
  <2>1. r \in Nat /\ r < d /\ k + d - 1 = z * d + r
    BY <1>1, <1>3, <1>4, <1>5, <1>8
  <2>2. z \in Nat
    BY <1>4
  <2> HIDE DEF r, z
  <2>3. (z * d + r) \div d = z
    BY <1>1, <2>1, <2>2, DivUnique
  <2>4. KBlocks = z
    BY <1>2, <2>1, <2>3
  <2> QED BY <2>4 DEF z
<1>9. ASSUME NEW x \in 0 .. p + d - 1, x % d = 0 PROVE x <= p
  <2> DEFINE z == x \div d
  <2>1. x \in Nat
    BY <1>1, <1>9
  <2>2. z \in Nat /\ x = z * d
    BY <1>1, <1>9, <2>1, DivMod
  <2> HIDE DEF z
  <2>3. z <= q
    <3>1. SUFFICES ASSUME q + 1 <= z PROVE FALSE
      BY <1>4, <2>2
    <3>2. (q + 1) * d <= z * d
      BY <1>1, <1>4, <2>2, <3>1, TimesMonotone
    <3> QED BY <1>1, <1>4, <1>5, <1>9, <2>1, <2>2, <3>2
  <2>4. z * d <= q * d
    BY <1>1, <1>4, <2>2, <2>3, TimesMonotone
  <2> QED BY <1>4, <2>2, <2>4
<1>10. /\ (p + d) % d = 0 /\ (p + d) \div d = q + 1
  BY <1>6, <1>7
<1>11. q = p \div d
  BY DEF q
<1> QED
  BY <1>4, <1>8, <1>9, <1>10, <1>11 DEF d, k

\* Rounding up to whole blocks keeps the order.
LEMMA MultipleMonotone ==
  ASSUME NEW a \in Nat, NEW b \in Nat, NEW d \in Nat \ {0}, a <= b
  PROVE  /\ MakeMultiple(a, d) \in Nat /\ MakeMultiple(b, d) \in Nat
         /\ MakeMultiple(a, d) <= MakeMultiple(b, d)
<1> DEFINE x == a + d - 1
           y == b + d - 1
           p == x \div d
           q == y \div d
           u == x % d
           v == y % d
<1>1. x \in Nat /\ y \in Nat /\ x <= y
  OBVIOUS
<1> HIDE DEF x, y
<1>2. p \in Nat /\ q \in Nat /\ u \in Nat /\ v \in Nat /\ v < d /\ x = p * d + u /\ y = q * d + v
  BY <1>1, DivMod
<1> HIDE DEF p, q, u, v
<1>3. p <= q
  <2>1. SUFFICES ASSUME q + 1 <= p PROVE FALSE
    BY <1>2
  <2>2. q + 1 \in Nat
    BY <1>2
  <2>3. (q + 1) * d <= p * d
    BY <1>2, <2>1, <2>2, TimesMonotone
  <2>4. (q + 1) * d = q * d + d /\ q * d \in Nat /\ p * d \in Nat
    BY <1>2
  <2> QED BY <1>1, <1>2, <2>3, <2>4
<1>4. p * d \in Nat /\ q * d \in Nat /\ p * d <= q * d
  BY <1>2, <1>3, TimesMonotone
<1>5. MakeMultiple(a, d) = p * d /\ MakeMultiple(b, d) = q * d
  BY DEF MakeMultiple, p, q, x, y
<1> QED
  BY <1>4, <1>5

\* Products keep the order in both factors.
LEMMA ProductMonotone ==
  ASSUME NEW a \in Nat, NEW b \in Nat, NEW c \in Nat, NEW d \in Nat, a <= b, c <= d
  PROVE  a * c \in Nat /\ b * d \in Nat /\ a * c <= b * d
<1>1. a * c <= b * c /\ a * c \in Nat /\ b * c \in Nat
  BY TimesMonotone
<1>2. c * b <= d * b /\ d * b \in Nat /\ c * b \in Nat
  BY TimesMonotone
<1>3. c * b = b * c /\ d * b = b * d
  OBVIOUS
<1> QED
  BY <1>1, <1>2, <1>3

----------------------------------------------------------------------------
(* What the invariant says of a team.                                      *)

\* The barrier counts of a thread, by where it is.
LEMMA Places ==
  ASSUME Typed, Control, NEW t \in Threads
  PROVE  /\ passed[t] \in Nat /\ entered[t] \in Nat /\ Base(t) \in Int
         /\ at[t] \in Locations
         /\ at[t] = "begin" => passed[t] = 0 /\ entered[t] = 0 /\ Base(t) = 0
         /\ at[t] \in {"send", "arriveAlloc", "arriveLast"} =>
              passed[t] = Base(t) /\ entered[t] = Base(t)
         /\ at[t] \in {"waitAlloc", "waitLast"} =>
              passed[t] = Base(t) /\ entered[t] = Base(t) + 1
         /\ at[t] \in {"receive", "pack", "arrivePack", "release", "done"} =>
              passed[t] = Base(t) + 1 /\ entered[t] = Base(t) + 1
         /\ at[t] = "waitPack" => passed[t] = Base(t) + 1 /\ entered[t] = Base(t) + 2
         /\ at[t] = "compute" => passed[t] = Base(t) + 2 /\ entered[t] = Base(t) + 2
<1> DEFINE waits == IF at[t] \in Waiting THEN 1 ELSE 0
<1>1. passed[t] \in Nat /\ entered[t] \in Nat /\ at[t] \in Locations
  BY DEF Typed
<1>2. entered[t] = passed[t] + waits
  BY DEF Control
<1>3. Base(t) = passed[t] - Off(t)
  BY DEF Base
<1>4. at[t] = "begin" => Off(t) = 0 /\ waits = 0 /\ passed[t] = 0
  BY DEF Off, Waiting, Control
<1>5. at[t] \in {"send", "arriveAlloc", "arriveLast"} => Off(t) = 0 /\ waits = 0
  BY DEF Off, Waiting
<1>6. at[t] \in {"waitAlloc", "waitLast"} => Off(t) = 0 /\ waits = 1
  BY DEF Off, Waiting
<1>7. at[t] \in {"receive", "pack", "arrivePack", "release", "done"} => Off(t) = 1 /\ waits = 0
  BY DEF Off, Waiting
<1>8. at[t] = "waitPack" => Off(t) = 1 /\ waits = 1
  BY DEF Off, Waiting
<1>9. at[t] = "compute" => Off(t) = 2 /\ waits = 0
  BY DEF Off, Waiting
<1>10. Off(t) \in 0 .. 2 /\ waits \in 0 .. 1
  BY DEF Off
<1> HIDE DEF waits
<1>11. /\ Base(t) \in Int
       /\ Off(t) = 0 /\ waits = 0 => passed[t] = Base(t) /\ entered[t] = Base(t)
       /\ Off(t) = 0 /\ waits = 1 => passed[t] = Base(t) /\ entered[t] = Base(t) + 1
       /\ Off(t) = 1 /\ waits = 0 => passed[t] = Base(t) + 1 /\ entered[t] = Base(t) + 1
       /\ Off(t) = 1 /\ waits = 1 => passed[t] = Base(t) + 1 /\ entered[t] = Base(t) + 2
       /\ Off(t) = 2 /\ waits = 0 => passed[t] = Base(t) + 2 /\ entered[t] = Base(t) + 2
  BY <1>1, <1>2, <1>3, <1>10
<1> QED
  BY <1>1, <1>4, <1>5, <1>6, <1>7, <1>8, <1>9, <1>11

\* Members of a team share its range, its buffer and its pace.
LEMMA Together ==
  ASSUME IInv, Packs, NEW t \in Threads, NEW u \in TeamOf(t)
  PROVE  /\ u \in Threads /\ t \in TeamOf(u)
         /\ JcId(u) = JcId(t) /\ JcLoop(u) = JcLoop(t) /\ Width(u) = Width(t)
         /\ Size(u) = Size(t) /\ Sent(u) = Sent(t)
         /\ InStep(t, u) /\ InStep(u, t)
<1>1. u \in Threads /\ JcId(u) = JcId(t) /\ t \in TeamOf(u)
  BY DEF TeamOf
<1>2. InStep(t, u) /\ InStep(u, t)
  BY <1>1 DEF IInv, Lockstep
<1>3. JcLoop(u) = JcLoop(t)
  BY <1>1 DEF JcLoop
<1>4. Width(u) = Width(t) /\ Sent(u) = Sent(t)
  BY <1>1, <1>3 DEF Width, Sent
<1>5. Size(u) = Size(t)
  BY <1>4 DEF Size
<1> QED
  BY <1>1, <1>2, <1>3, <1>4, <1>5

\* Who has finished as many panels is at the same panel, or past the last too.
LEMMA SamePanel ==
  ASSUME IInv, Packs, NEW t \in Threads, NEW u \in TeamOf(t),
         Begun(t), Begun(u), Base(u) = Base(t)
  PROVE  /\ jc[u] = jc[t] /\ pc[u] = pc[t] /\ nc0[u] = nc0[t]
         /\ Panel(u) = Panel(t) /\ PanelsUpTo(u) = PanelsUpTo(t)
         /\ at[u] \in InBlock <=> at[t] \in InBlock
<1>1. u \in Threads /\ JcLoop(u) = JcLoop(t) /\ InStep(t, u)
  BY Together
<1>2. Panel(u) = Panel(t)
  BY <1>1 DEF InStep
<1>3. jc[u] = jc[t] /\ pc[u] = pc[t]
  BY <1>2 DEF Panel
<1>4. s.mtag_b # "UNPACKED"
  BY DEF Packs
<1>5. /\ nc0[t] = BlockWidth(jc[t], JcLoop(t).end)
      /\ nc0[u] = BlockWidth(jc[u], JcLoop(u).end)
      /\ at[t] \in InBlock <=> jc[t] < JcLoop(t).end
      /\ at[u] \in InBlock <=> jc[u] < JcLoop(u).end
  BY <1>1, <1>4 DEF IInv, Loops
<1>6. PanelsUpTo(u) = PanelsUpTo(t)
  BY <1>3 DEF PanelsUpTo
<1> QED
  BY <1>1, <1>2, <1>3, <1>5, <1>6

\* While a thread packs, the whole team is at its panel, and nobody reads.
LEMMA PackRound ==
  ASSUME IInv, Packs, NEW t \in Threads, NEW u \in TeamOf(t), at[t] = "pack"
  PROVE  /\ Begun(u) /\ Base(u) = Base(t)
         /\ at[u] \in {"waitAlloc", "receive", "pack", "arrivePack", "waitPack"}
<1>0. Typed /\ Control
  BY DEF IInv
<1>1. u \in Threads /\ InStep(t, u) /\ InStep(u, t)
  BY Together
<1>2. /\ Base(t) \in Int /\ Base(t) >= 0
      /\ passed[t] = Base(t) + 1 /\ entered[t] = Base(t) + 1
  <2>1. Base(t) >= 0
    BY DEF IInv, Lockstep
  <2> QED BY <1>0, <2>1, Places
<1>3. passed[t] <= entered[u] /\ passed[u] <= entered[t]
  BY <1>1 DEF InStep
<1>4. Begun(u)
  <2>1. SUFFICES ASSUME at[u] = "begin" PROVE FALSE
    BY DEF Begun
  <2>2. entered[u] = 0
    BY <1>0, <1>1, <2>1, Places
  <2> QED BY <1>2, <1>3, <2>2
<1>5. Begun(t)
  BY DEF Begun
<1>6. Base(u) \in {Base(t) - 2, Base(t), Base(t) + 2}
  BY <1>1, <1>4, <1>5 DEF InStep
<1>7. at[t] \in InBlock
  BY DEF InBlock
<1>8. at[u] \in Locations
  BY <1>0, <1>1, Places
<1>9. CASE at[u] \in {"send", "arriveAlloc", "arriveLast"}
  <2>1. passed[u] = Base(u) /\ entered[u] = Base(u)
    BY <1>0, <1>1, <1>9, Places
  <2> QED BY <1>2, <1>3, <1>6, <2>1
<1>10. CASE at[u] \in {"waitAlloc", "waitLast"}
  <2>1. passed[u] = Base(u) /\ entered[u] = Base(u) + 1
    BY <1>0, <1>1, <1>10, Places
  <2>2. Base(u) = Base(t)
    BY <1>2, <1>3, <1>6, <2>1
  <2>3. at[u] \in InBlock
    BY <1>4, <1>5, <1>7, <2>2, SamePanel
  <2> QED BY <1>4, <1>10, <2>2, <2>3 DEF InBlock
<1>11. CASE at[u] \in {"receive", "pack", "arrivePack", "release", "done"}
  <2>1. passed[u] = Base(u) + 1 /\ entered[u] = Base(u) + 1
    BY <1>0, <1>1, <1>11, Places
  <2>2. Base(u) = Base(t)
    BY <1>2, <1>3, <1>6, <2>1
  <2>3. at[u] \in InBlock
    BY <1>4, <1>5, <1>7, <2>2, SamePanel
  <2> QED BY <1>4, <1>11, <2>2, <2>3 DEF InBlock
<1>12. CASE at[u] = "waitPack"
  <2>1. passed[u] = Base(u) + 1 /\ entered[u] = Base(u) + 2
    BY <1>0, <1>1, <1>12, Places
  <2>2. Base(u) = Base(t)
    BY <1>2, <1>3, <1>6, <2>1
  <2> QED BY <1>4, <1>12, <2>2
<1>13. CASE at[u] = "compute"
  <2>1. passed[u] = Base(u) + 2 /\ entered[u] = Base(u) + 2
    BY <1>0, <1>1, <1>13, Places
  <2> QED BY <1>2, <1>3, <1>6, <2>1
<1> QED
  BY <1>4, <1>8, <1>9, <1>10, <1>11, <1>12, <1>13 DEF Locations, Begun

\* While a thread computes, everybody has packed its panel, and some may be at
\* the next.
LEMMA ComputeRound ==
  ASSUME IInv, Packs, NEW t \in Threads, NEW u \in TeamOf(t), at[t] = "compute"
  PROVE  /\ Begun(u)
         /\ \/ Base(u) = Base(t) /\ at[u] \in {"waitPack", "compute"}
            \/ Base(u) = Base(t) + 2
<1>0. Typed /\ Control
  BY DEF IInv
<1>1. u \in Threads /\ InStep(t, u) /\ InStep(u, t)
  BY Together
<1>2. /\ Base(t) \in Int /\ Base(t) >= 0
      /\ passed[t] = Base(t) + 2 /\ entered[t] = Base(t) + 2
  <2>1. Base(t) >= 0
    BY DEF IInv, Lockstep
  <2> QED BY <1>0, <2>1, Places
<1>3. passed[t] <= entered[u] /\ passed[u] <= entered[t]
  BY <1>1 DEF InStep
<1>4. Begun(u)
  <2>1. SUFFICES ASSUME at[u] = "begin" PROVE FALSE
    BY DEF Begun
  <2>2. entered[u] = 0
    BY <1>0, <1>1, <2>1, Places
  <2> QED BY <1>2, <1>3, <2>2
<1>5. Begun(t)
  BY DEF Begun
<1>6. Base(u) \in {Base(t) - 2, Base(t), Base(t) + 2}
  BY <1>1, <1>4, <1>5 DEF InStep
<1>8. at[u] \in Locations
  BY <1>0, <1>1, Places
<1>9. CASE at[u] \in {"send", "arriveAlloc", "arriveLast"}
  <2>1. passed[u] = Base(u) /\ entered[u] = Base(u)
    BY <1>0, <1>1, <1>9, Places
  <2>2. Base(u) = Base(t) + 2
    BY <1>2, <1>3, <1>6, <2>1
  <2> QED BY <1>4, <2>2
<1>10. CASE at[u] \in {"waitAlloc", "waitLast"}
  <2>1. passed[u] = Base(u) /\ entered[u] = Base(u) + 1
    BY <1>0, <1>1, <1>10, Places
  <2>2. Base(u) = Base(t) + 2
    BY <1>2, <1>3, <1>6, <2>1
  <2> QED BY <1>4, <2>2
<1>11. CASE at[u] \in {"receive", "pack", "arrivePack", "release", "done"}
  <2>1. passed[u] = Base(u) + 1 /\ entered[u] = Base(u) + 1
    BY <1>0, <1>1, <1>11, Places
  <2>2. Base(u) = Base(t) + 2
    BY <1>2, <1>3, <1>6, <2>1
  <2> QED BY <1>4, <2>2
<1>12. CASE at[u] = "waitPack"
  <2>1. passed[u] = Base(u) + 1 /\ entered[u] = Base(u) + 2
    BY <1>0, <1>1, <1>12, Places
  <2>2. Base(u) = Base(t) \/ Base(u) = Base(t) + 2
    BY <1>2, <1>3, <1>6, <2>1
  <2> QED BY <1>4, <1>12, <2>2
<1>13. CASE at[u] = "compute"
  <2>1. passed[u] = Base(u) + 2 /\ entered[u] = Base(u) + 2
    BY <1>0, <1>1, <1>13, Places
  <2>2. Base(u) = Base(t) \/ Base(u) = Base(t) + 2
    BY <1>2, <1>3, <1>6, <2>1
  <2> QED BY <1>4, <1>13, <2>2
<1> QED
  BY <1>4, <1>8, <1>9, <1>10, <1>11, <1>12, <1>13 DEF Locations, Begun

\* A team has one chief.
LEMMA LeadOf ==
  ASSUME s \in Shapes, NEW t \in Threads
  PROVE  /\ Lead(t) \in Threads /\ Lead(t) \in TeamOf(t) /\ Chief(Lead(t))
         /\ JcId(Lead(t)) = JcId(t)
         /\ Chief(t) => t = Lead(t)
<1>1. JcId(t) \in Teams /\ JcId(t) \in Nat /\ t = JcId(t) * s.ic_ways + IcId(t)
  BY Ids
<1>2. s.ic_ways \in Nat \ {0}
  BY ShapeFacts
<1> DEFINE g == JcId(t)
           a == s.ic_ways
<1>3. 0 \in 0 .. s.ic_ways - 1
  BY <1>2
<1>4. g * a + 0 \in Threads /\ JcId(g * a + 0) = g /\ IcId(g * a + 0) = 0
  BY <1>1, <1>3, Member
<1>5. g * a + 0 = g * a
  BY <1>1, <1>2
<1>6. Lead(t) = g * a
  BY DEF Lead
<1>7. Lead(t) \in Threads /\ JcId(Lead(t)) = JcId(t) /\ IcId(Lead(t)) = 0
  BY <1>4, <1>5, <1>6
<1>8. ASSUME Chief(t) PROVE t = Lead(t)
  BY <1>1, <1>5, <1>6, <1>8 DEF Chief
<1> QED
  BY <1>7, <1>8 DEF TeamOf, Chief

\* Chiefs of different teams differ.
LEMMA ChiefOnce ==
  ASSUME s \in Shapes, NEW t \in Threads, NEW u \in Threads,
         Chief(t), Chief(u), JcId(u) = JcId(t)
  PROVE  u = t
BY LeadOf DEF Lead

\* Past the first barrier of a block the team has its buffer.
LEMMA BufferThere ==
  ASSUME IInv, Packs, NEW t \in Threads, Begun(t), passed[t] >= 1,
         at[t] \in InBlock \/ Base(t) > 0
  PROVE  Sent(t) # 0
<1> DEFINE c == Lead(t)
<1>0. Typed /\ Control /\ s \in Shapes
  BY DEF IInv, Typed
<1>1. c \in Threads /\ c \in TeamOf(t) /\ Chief(c) /\ JcId(c) = JcId(t)
  BY <1>0, LeadOf
<1>2. InStep(t, c) /\ InStep(c, t) /\ Sent(c) = Sent(t)
  BY <1>1, Together
<1> HIDE DEF c
<1>3. passed[t] <= entered[c]
  BY <1>2 DEF InStep
<1>4. /\ Base(t) \in Int /\ Base(c) \in Int /\ Base(t) >= 0 /\ Base(c) >= 0
      /\ passed[t] \in Nat /\ entered[c] \in Nat
  <2>1. Base(t) >= 0 /\ Base(c) >= 0
    BY <1>1 DEF IInv, Lockstep
  <2> QED BY <1>0, <1>1, <2>1, Places
<1>5. Begun(c)
  <2>1. SUFFICES ASSUME at[c] = "begin" PROVE FALSE
    BY DEF Begun
  <2>2. entered[c] = 0
    BY <1>0, <1>1, <2>1, Places
  <2> QED BY <1>3, <1>4, <2>2
<1>6. CASE Base(c) > 0
  BY <1>1, <1>2, <1>6 DEF IInv, Buffers
<1>7. CASE ~(Base(c) > 0)
  <2>1. Base(c) = 0
    BY <1>4, <1>7
  <2>2. Base(t) \in {Base(c) - 2, Base(c), Base(c) + 2}
    BY <1>2, <1>5 DEF InStep
  <2>3. Base(t) = Base(c) \/ Base(t) = Base(c) + 2
    BY <1>4, <2>1, <2>2
  <2>4. at[c] \in InBlock
    <3>1. CASE Base(t) = Base(c) + 2
      BY <1>2, <1>5, <3>1 DEF InStep
    <3>2. CASE Base(t) = Base(c)
      <4>1. ~(Base(t) > 0)
        BY <1>4, <2>1, <3>2
      <4> QED BY <1>1, <1>5, <3>2, <4>1, SamePanel
    <3> QED BY <2>3, <3>1, <3>2
  <2>5. at[c] # "send"
    <3>1. SUFFICES ASSUME at[c] = "send" PROVE FALSE
      OBVIOUS
    <3>2. entered[c] = Base(c)
      BY <1>0, <1>1, <3>1, Places
    <3> QED BY <1>3, <1>4, <2>1, <3>2
  <2>6. at[c] \in PastSend
    BY <2>4, <2>5 DEF PastSend
  <2> QED BY <1>1, <1>2, <2>6 DEF IInv, Buffers
<1> QED
  BY <1>6, <1>7

\* While a thread is between the first barrier of a block and the end of its
\* computation the chief has not left the driver, and the buffer is there.
LEMMA ChiefBusy ==
  ASSUME IInv, Packs, NEW t \in Threads,
         at[t] \in {"receive", "pack", "arrivePack", "waitPack", "compute"}
  PROVE  /\ Sent(t) # 0 /\ at[Lead(t)] \notin {"release", "done"}
<1> DEFINE c == Lead(t)
<1>0. Typed /\ Control /\ s \in Shapes
  BY DEF IInv, Typed
<1>1. c \in Threads /\ c \in TeamOf(t)
  BY <1>0, LeadOf
<1>2. InStep(t, c) /\ InStep(c, t) /\ Sent(c) = Sent(t)
  BY <1>1, Together
<1> HIDE DEF c
<1>3. Begun(t) /\ at[t] \in InBlock
  BY DEF Begun, InBlock
<1>4. /\ Base(t) \in Int /\ Base(c) \in Int /\ Base(t) >= 0
      /\ passed[t] \in Nat /\ passed[c] \in Nat /\ entered[t] \in Nat /\ entered[c] \in Nat
  <2>1. Base(t) >= 0
    BY <1>1 DEF IInv, Lockstep
  <2> QED BY <1>0, <1>1, <2>1, Places
<1>5. passed[t] >= Base(t) + 1 /\ entered[t] <= Base(t) + 2
  <2>1. \/ passed[t] = Base(t) + 1 /\ entered[t] = Base(t) + 1
        \/ passed[t] = Base(t) + 1 /\ entered[t] = Base(t) + 2
        \/ passed[t] = Base(t) + 2 /\ entered[t] = Base(t) + 2
    BY <1>0, Places
  <2> QED BY <1>4, <2>1
<1>6. Sent(t) # 0
  <2>1. passed[t] >= 1
    BY <1>4, <1>5
  <2> QED BY <1>3, <2>1, BufferThere
<1>7. ASSUME at[c] \in {"release", "done"} PROVE FALSE
  <2>1. Begun(c) /\ at[c] \notin InBlock
    BY <1>7 DEF Begun, InBlock
  <2>2. passed[c] = Base(c) + 1
    BY <1>0, <1>1, <1>7, Places
  <2>3. passed[c] <= entered[t]
    BY <1>2 DEF InStep
  <2>4. Base(t) \in {Base(c) - 2, Base(c), Base(c) + 2}
    BY <1>2, <1>3, <2>1 DEF InStep
  <2>5. Base(t) # Base(c) + 2
    BY <1>2, <1>3, <2>1 DEF InStep
  <2>6. Base(t) # Base(c)
    BY <1>1, <1>3, <2>1, SamePanel
  <2> QED BY <1>4, <1>5, <2>2, <2>3, <2>4, <2>5, <2>6
<1> QED
  BY <1>6, <1>7 DEF c

\* A team's buffer is on the heap, with room for its widest panel, and
\* allocated as long as its chief is in the driver.
LEMMA TeamBuffer ==
  ASSUME IInv, NEW t \in Threads, Sent(t) # 0
  PROVE  /\ Sent(t) \in 1 .. Len(heap) /\ Sent(t) \in DOMAIN heap
         /\ heap[Sent(t)] \in PackBuffers
         /\ heap[Sent(t)].live <=> at[Lead(t)] # "done"
         /\ heap[Sent(t)].size = Size(t)
         /\ DOMAIN heap[Sent(t)].panel = 0 .. Width(t) - 1
         /\ DOMAIN heap[Sent(t)].sums = 0 .. Width(t) - 1
<1> DEFINE c == Lead(t)
<1>0. s \in Shapes /\ heap \in Seq(PackBuffers) /\ sent_object \in [Teams -> Nat]
  BY DEF IInv, Typed
<1>1. c \in Threads /\ Chief(c) /\ JcId(c) = JcId(t) /\ JcId(t) \in Teams
  BY <1>0, LeadOf, Ids
<1> HIDE DEF c
<1>2. Sent(c) = Sent(t) /\ Width(c) = Width(t) /\ Size(c) = Size(t)
  BY <1>1 DEF Sent, Width, Size, JcLoop
<1>3. Sent(t) \in Nat /\ Sent(t) <= Len(heap)
  BY <1>0, <1>1 DEF IInv, Buffers, Sent
<1>4. Sent(t) \in 1 .. Len(heap)
  BY <1>0, <1>3
<1>5. Sent(t) \in DOMAIN heap /\ heap[Sent(t)] \in PackBuffers
  BY <1>0, <1>4
<1>6. /\ heap[Sent(c)].live <=> at[c] # "done"
      /\ heap[Sent(c)].size = Size(c)
      /\ DOMAIN heap[Sent(c)].panel = 0 .. Width(c) - 1
      /\ DOMAIN heap[Sent(c)].sums = 0 .. Width(c) - 1
  <2>1. Sent(c) # 0
    BY <1>2
  <2> QED BY <1>1, <2>1 DEF IInv, Buffers
<1> QED
  BY <1>2, <1>4, <1>5, <1>6 DEF c

----------------------------------------------------------------------------
(* The properties follow.                                                  *)

\* The slices of a team cover the panel.
LEMMA SliceOwner ==
  ASSUME s \in Shapes, NEW t \in Threads, NEW w \in Nat, NEW c \in 0 .. w - 1
  PROVE  \E u \in TeamOf(t) : c \in Slice(u, w)
<1>1. s.ic_ways \in Nat \ {0} /\ s.NR \in Nat \ {0} /\ JcId(t) \in Teams
  BY ShapeFacts, Ids
<1>2. PICK v \in 0 .. s.ic_ways - 1 :
        c \in Indices(dlp_thread_task_range(s.ic_ways, v, w, s.NR, FALSE))
  BY <1>1, RangesCover
<1> DEFINE u == JcId(t) * s.ic_ways + v
<1>3. u \in Threads /\ JcId(u) = JcId(t) /\ IcId(u) = v
  BY <1>1, Member
<1> HIDE DEF u
<1>4. u \in TeamOf(t) /\ c \in Slice(u, w)
  BY <1>2, <1>3 DEF TeamOf, Slice
<1> QED
  BY <1>4

\* Slices of different members do not meet.
LEMMA SlicesApart ==
  ASSUME s \in Shapes, NEW t \in Threads, NEW u \in TeamOf(t), u # t, NEW w \in Nat
  PROVE  Slice(u, w) \cap Slice(t, w) = {}
<1>1. s.ic_ways \in Nat \ {0} /\ s.NR \in Nat \ {0}
  BY ShapeFacts
<1>2. u \in Threads /\ JcId(u) = JcId(t)
  BY DEF TeamOf
<1>3. /\ IcId(t) \in 0 .. s.ic_ways - 1 /\ t = JcId(t) * s.ic_ways + IcId(t)
      /\ IcId(u) \in 0 .. s.ic_ways - 1 /\ u = JcId(u) * s.ic_ways + IcId(u)
  BY <1>2, Ids
<1>4. IcId(u) # IcId(t)
  BY <1>2, <1>3
<1> QED
  BY <1>1, <1>3, <1>4, RangesApart DEF Slice

\* A slice is a part of the panel.
LEMMA SliceWithin ==
  ASSUME s \in Shapes, NEW t \in Threads, NEW w \in Nat
  PROVE  Slice(t, w) \subseteq 0 .. w - 1
<1>1. s.ic_ways \in Nat \ {0} /\ s.NR \in Nat \ {0} /\ IcId(t) \in 0 .. s.ic_ways - 1
  BY ShapeFacts, Ids
<1> DEFINE r == dlp_thread_task_range(s.ic_ways, IcId(t), w, s.NR, FALSE)
<1>2. r.start \in Nat /\ r.end \in Nat /\ r.end <= w
  BY <1>1, RangeWithin
<1> HIDE DEF r
<1>3. Indices(r) \subseteq 0 .. w - 1
  BY <1>2 DEF Indices
<1> QED
  BY <1>3 DEF Slice, r

\* The block of a thread that is in one.
LEMMA BlockAt ==
  ASSUME IInv, NEW t \in Threads, at[t] \in InBlock
  PROVE  /\ s.mtag_b # "UNPACKED" /\ Begun(t)
         /\ jcs[t] = JcLoop(t) /\ ics[t] = IcLoop(t)
         /\ jc[t] \in Nat /\ JcLoop(t).start <= jc[t] /\ jc[t] < JcLoop(t).end
         /\ nc0[t] = BlockWidth(jc[t], JcLoop(t).end)
         /\ nc0[t] \in Nat \ {0} /\ nc0[t] <= Width(t)
         /\ jc[t] + nc0[t] <= JcLoop(t).end
         /\ NextStart(jc[t]) \in Nat
         /\ \/ jc[t] + nc0[t] = NextStart(jc[t])
            \/ jc[t] + nc0[t] = JcLoop(t).end /\ JcLoop(t).end <= NextStart(jc[t])
<1>1. s.mtag_b # "UNPACKED" /\ Begun(t)
  BY DEF IInv, Control, InBlock, Begun
<1>2. /\ jcs[t] = JcLoop(t) /\ ics[t] = IcLoop(t)
      /\ JcLoop(t).start <= jc[t] /\ jc[t] < JcLoop(t).end
      /\ nc0[t] = BlockWidth(jc[t], JcLoop(t).end)
  BY <1>1 DEF IInv, Loops
<1>3. s \in Shapes /\ jc[t] \in Nat
  BY DEF IInv, Typed
<1>4. JcLoop(t).start \in Nat /\ JcLoop(t).end \in Nat
  BY <1>3, LoopBounds
<1> DEFINE a == JcLoop(t).start
           e == JcLoop(t).end
           j == jc[t]
<1>5. Width(t) = MinOf(e - a, s.NC)
  BY DEF Width
<1>6. a \in Nat /\ e \in Nat /\ j \in Nat /\ a <= j /\ j < e /\ nc0[t] = BlockWidth(j, e)
  BY <1>2, <1>3, <1>4
<1> HIDE DEF a, e, j
<1>7. /\ BlockWidth(j, e) \in Nat \ {0}
      /\ BlockWidth(j, e) <= MinOf(e - a, s.NC)
      /\ j + BlockWidth(j, e) <= e
      /\ NextStart(j) \in Nat
      /\ \/ j + BlockWidth(j, e) = NextStart(j)
         \/ j + BlockWidth(j, e) = e /\ e <= NextStart(j)
  BY <1>3, <1>6, BlockOfColumns
<1> QED
  BY <1>1, <1>2, <1>3, <1>5, <1>6, <1>7 DEF a, e, j

\* Whoever computes reads its own panel, complete.
LEMMA IntactFromInvariant ==
  ASSUME IInv
  PROVE  PanelIntact
<1> SUFFICES ASSUME NEW t \in Threads, at[t] = "compute", Packs
             PROVE  /\ heap[buf[t]].live
                    /\ \A c \in 0 .. nc0[t] - 1 : /\ heap[buf[t]].panel[c] = Panel(t)
                                                  /\ heap[buf[t]].sums[c] = PanelsUpTo(t)
  BY DEF PanelIntact
<1>0. s \in Shapes
  BY DEF IInv, Typed
<1>1. buf[t] = Sent(t)
  BY DEF IInv, Buffers, Holding
<1>2. Sent(t) # 0 /\ at[Lead(t)] # "done"
  BY ChiefBusy
<1>3. heap[buf[t]].live
  BY <1>1, <1>2, TeamBuffer
<1>4. nc0[t] \in Nat
  BY BlockAt DEF InBlock
<1>5. ASSUME NEW c \in 0 .. nc0[t] - 1
      PROVE  heap[Sent(t)].panel[c] = Panel(t) /\ heap[Sent(t)].sums[c] = PanelsUpTo(t)
  <2>1. PICK u \in TeamOf(t) : c \in Slice(u, nc0[t])
    BY <1>0, <1>4, SliceOwner
  <2>2. Begun(u) /\ ((Base(u) = Base(t) /\ at[u] \in {"waitPack", "compute"}) \/ Base(u) = Base(t) + 2)
    BY ComputeRound
  <2>3. u \in Threads /\ Sent(u) = Sent(t)
    BY Together
  <2>4. CASE Base(u) = Base(t) + 2
    <3>1. Holds(u, t)
      BY <2>4 DEF IInv, Contents
    <3> QED BY <2>1, <3>1 DEF Holds
  <2>5. CASE Base(u) = Base(t) /\ at[u] \in {"waitPack", "compute"}
    <3>1. Holds(u, u)
      BY <2>3, <2>5 DEF IInv, Contents
    <3>2. Begun(t)
      BY DEF Begun
    <3>3. nc0[u] = nc0[t] /\ Panel(u) = Panel(t) /\ PanelsUpTo(u) = PanelsUpTo(t)
      BY <2>2, <2>5, <3>2, SamePanel
    <3> QED BY <2>1, <2>3, <3>1, <3>3 DEF Holds
  <2> QED BY <2>2, <2>4, <2>5
<1> QED
  BY <1>1, <1>3, <1>5

\* Nobody reads what is being packed.
LEMMA ExclusiveFromInvariant ==
  ASSUME IInv
  PROVE  PackExclusive
<1> SUFFICES ASSUME NEW t \in Threads, at[t] = "pack"
             PROVE  /\ heap[buf[t]].live
                    /\ \A u \in TeamOf(t) \ {t} :
                         /\ at[u] # "compute"
                         /\ at[u] = "pack" =>
                              /\ buf[u] = buf[t] /\ Panel(u) = Panel(t)
                              /\ Indices(PackRange(u)) \cap Indices(PackRange(t)) = {}
  BY DEF PackExclusive
<1>0. s \in Shapes
  BY DEF IInv, Typed
<1>1. Packs
  BY DEF IInv, Control
<1>2. buf[t] = Sent(t) /\ Begun(t)
  BY <1>1 DEF IInv, Buffers, Holding, Begun
<1>3. Sent(t) # 0 /\ at[Lead(t)] # "done"
  BY <1>1, ChiefBusy
<1>4. heap[buf[t]].live
  BY <1>2, <1>3, TeamBuffer
<1>5. ASSUME NEW u \in TeamOf(t) \ {t}
      PROVE  /\ at[u] # "compute"
             /\ at[u] = "pack" =>
                  /\ buf[u] = buf[t] /\ Panel(u) = Panel(t)
                  /\ Indices(PackRange(u)) \cap Indices(PackRange(t)) = {}
  <2>1. u \in TeamOf(t) /\ u # t
    BY <1>5
  <2>2. /\ Begun(u) /\ Base(u) = Base(t)
        /\ at[u] \in {"waitAlloc", "receive", "pack", "arrivePack", "waitPack"}
    BY <1>1, <2>1, PackRound
  <2>3. nc0[u] = nc0[t] /\ Panel(u) = Panel(t)
    BY <1>1, <1>2, <2>1, <2>2, SamePanel
  <2>4. nc0[t] \in Nat
    BY BlockAt DEF InBlock
  <2>5. Slice(u, nc0[t]) \cap Slice(t, nc0[t]) = {}
    BY <1>0, <2>1, <2>4, SlicesApart
  <2>6. Slice(u, nc0[t]) = Indices(PackRange(u)) /\ Slice(t, nc0[t]) = Indices(PackRange(t))
    BY <2>3 DEF Slice, PackRange
  <2>7. u \in Threads /\ Sent(u) = Sent(t)
    BY <1>1, <2>1, Together
  <2>8. ASSUME at[u] = "pack" PROVE buf[u] = buf[t]
    BY <1>1, <1>2, <2>7, <2>8 DEF IInv, Buffers, Holding
  <2> QED BY <2>2, <2>3, <2>5, <2>6, <2>8
<1> QED
  BY <1>4, <1>5

\* The buffers of the first block hold every block.
LEMMA FitsFromInvariant ==
  ASSUME IInv
  PROVE  BufferFits
<1>0. s \in Shapes
  BY DEF IInv, Typed
<1>1. ASSUME NEW t \in Threads, at[t] \in {"pack", "compute"}, Packs
      PROVE  /\ BufferSize(t, nc0[t]) <= heap[buf[t]].size
             /\ 0 .. nc0[t] - 1 \subseteq DOMAIN heap[buf[t]].panel
  <2>1. buf[t] = Sent(t)
    BY <1>1 DEF IInv, Buffers, Holding
  <2>2. Sent(t) # 0
    BY <1>1, ChiefBusy
  <2>3. heap[buf[t]].size = Size(t) /\ DOMAIN heap[buf[t]].panel = 0 .. Width(t) - 1
    BY <2>1, <2>2, TeamBuffer
  <2>4. at[t] \in InBlock
    BY <1>1 DEF InBlock
  <2>5. nc0[t] \in Nat /\ nc0[t] <= Width(t) /\ Begun(t) /\ s.mtag_b # "UNPACKED"
    BY <2>4, BlockAt
  <2>6. Width(t) \in Nat
    <3>1. /\ JcLoop(t).start \in Nat /\ JcLoop(t).end \in Nat
          /\ JcLoop(t).start <= JcLoop(t).end /\ s.NC \in Nat
      BY <1>0, LoopBounds, ShapeFacts
    <3> QED BY <3>1 DEF Width, MinOf
  <2>7. 0 .. nc0[t] - 1 \subseteq DOMAIN heap[buf[t]].panel
    BY <2>3, <2>5, <2>6
  <2> DEFINE sums == IF s.mtag_b = "PACK" THEN 4 ELSE 0
             full == MinOf(s.k, s.KC)
  <2>8. kc0(t) \in Nat /\ full \in Nat /\ kc0(t) <= full
    <3>1. s.k \in Nat /\ s.KC \in Nat
      BY <1>0, ShapeFacts
    <3>2. pc[t] \in Nat /\ pc[t] < s.k
      BY <2>5 DEF IInv, Typed, Loops
    <3>3. kc0(t) = IF s.k - pc[t] <= s.KC THEN s.k - pc[t] ELSE s.KC
      BY DEF kc0, MinOf
    <3>4. full = IF s.k <= s.KC THEN s.k ELSE s.KC
      BY DEF MinOf
    <3> HIDE DEF full
    <3> QED BY <3>1, <3>2, <3>3, <3>4
  <2>9. sums \in Nat /\ PadN \in Nat \ {0} /\ PadK \in Nat \ {0}
    BY <1>0, ShapeFacts
  <2>10. BufferSize(t, nc0[t]) = MakeMultiple(nc0[t], PadN) * (MakeMultiple(kc0(t), PadK) + sums)
    BY DEF BufferSize
  <2>11. Size(t) = MakeMultiple(Width(t), PadN) * (MakeMultiple(full, PadK) + sums)
    BY DEF Size, Depth
  <2> HIDE DEF sums, full
  <2> DEFINE a == MakeMultiple(nc0[t], PadN)
             b == MakeMultiple(Width(t), PadN)
             x == MakeMultiple(kc0(t), PadK)
             y == MakeMultiple(full, PadK)
  <2>12. a \in Nat /\ b \in Nat /\ a <= b
    BY <2>5, <2>6, <2>9, MultipleMonotone
  <2>13. x \in Nat /\ y \in Nat /\ x <= y
    BY <2>8, <2>9, MultipleMonotone
  <2> HIDE DEF a, b, x, y
  <2> DEFINE v == x + sums
             w == y + sums
  <2>14. v \in Nat /\ w \in Nat /\ v <= w
    BY <2>9, <2>13
  <2> HIDE DEF v, w
  <2>15. a * v <= b * w
    BY <2>12, <2>14, ProductMonotone
  <2>16. BufferSize(t, nc0[t]) <= Size(t)
    BY <2>10, <2>11, <2>15 DEF a, b, x, y, v, w
  <2> QED BY <2>3, <2>7, <2>16
<1>2. ASSUME NEW t \in Threads, at[t] = "compute", s.downscale, s.k > s.KC
      PROVE  nc0[t] * (ics[t].end - ics[t].start) <= temp[t]
  <2>1. at[t] \in InBlock
    BY <1>2 DEF InBlock
  <2>2. temp[t] = Width(t) * (IcLoop(t).end - IcLoop(t).start)
    BY <1>2, <2>1 DEF IInv, Accumulator
  <2>3. nc0[t] \in Nat /\ nc0[t] <= Width(t) /\ ics[t] = IcLoop(t)
    BY <2>1, BlockAt
  <2>4. /\ IcLoop(t).start \in Nat /\ IcLoop(t).end \in Nat /\ IcLoop(t).start <= IcLoop(t).end
        /\ JcLoop(t).start \in Nat /\ JcLoop(t).end \in Nat /\ JcLoop(t).start <= JcLoop(t).end
        /\ s.NC \in Nat
    BY <1>0, LoopBounds, ShapeFacts
  <2>5. Width(t) \in Nat
    BY <2>4 DEF Width, MinOf
  <2> DEFINE rows == IcLoop(t).end - IcLoop(t).start
  <2>6. rows \in Nat
    BY <2>4
  <2> HIDE DEF rows
  <2>7. nc0[t] * rows <= Width(t) * rows
    BY <2>3, <2>5, <2>6, TimesMonotone
  <2> QED BY <2>2, <2>3, <2>7 DEF rows
<1> QED
  BY <1>1, <1>2 DEF BufferFits

\* The chief frees the buffer it allocated; when all are done none is left.
LEMMA FreedFromInvariant ==
  ASSUME IInv
  PROVE  BuffersFreedOnce
<1>0. s \in Shapes /\ heap \in Seq(PackBuffers)
  BY DEF IInv, Typed
<1>1. ASSUME NEW t \in Threads, at[t] = "release", Chief(t), buf[t] # 0
      PROVE  heap[buf[t]].live
  <2>1. buf[t] = Sent(t)
    BY <1>1 DEF IInv, Buffers
  <2>2. t = Lead(t)
    BY <1>0, <1>1, LeadOf
  <2> QED BY <1>1, <2>1, <2>2, TeamBuffer
<1>2. ASSUME AllFinished, NEW b \in 1 .. Len(heap)
      PROVE  ~heap[b].live
  <2>1. PICK g \in Teams : sent_object[g] = b
    BY DEF IInv, Buffers
  <2>2. 0 \in 0 .. s.ic_ways - 1
    BY <1>0, ShapeFacts
  <2> DEFINE t == g * s.ic_ways + 0
  <2>3. t \in Threads /\ JcId(t) = g
    BY <1>0, <2>2, Member
  <2> HIDE DEF t
  <2>4. Sent(t) = b /\ b # 0
    BY <2>1, <2>3 DEF Sent
  <2>5. Lead(t) \in Threads
    BY <1>0, <2>3, LeadOf
  <2>6. at[Lead(t)] = "done"
    BY <1>2, <2>5 DEF AllFinished
  <2> QED BY <2>3, <2>4, <2>6, TeamBuffer
<1> QED
  BY <1>1, <1>2 DEF BuffersFreedOnce

\* Every element of C belongs to a thread.
LEMMA ElementOwner ==
  ASSUME s \in Shapes, NEW i \in 0 .. s.m - 1, NEW j \in 0 .. s.n - 1
  PROVE  \E t \in Threads : i \in Indices(IcLoop(t)) /\ j \in Indices(JcLoop(t))
<1>1. /\ s.ic_ways \in Nat \ {0} /\ s.jc_ways \in Nat \ {0} /\ s.m \in Nat /\ s.n \in Nat
      /\ s.MR \in Nat \ {0} /\ s.NR \in Nat \ {0}
  BY ShapeFacts
<1>2. PICK w \in 0 .. s.ic_ways - 1 :
        i \in Indices(dlp_thread_task_range(s.ic_ways, w, s.m, s.MR, FALSE))
  BY <1>1, RangesCover
<1>3. PICK g \in 0 .. s.jc_ways - 1 :
        j \in Indices(dlp_thread_task_range(s.jc_ways, g, s.n, s.NR, FALSE))
  BY <1>1, RangesCover
<1> DEFINE t == g * s.ic_ways + w
<1>4. t \in Threads /\ JcId(t) = g /\ IcId(t) = w
  <2>1. g \in Teams
    BY DEF Teams
  <2> QED BY <2>1, Member
<1> HIDE DEF t
<1>5. i \in Indices(IcLoop(t)) /\ j \in Indices(JcLoop(t))
  BY <1>2, <1>3, <1>4 DEF IcLoop, JcLoop
<1> QED
  BY <1>4, <1>5

\* Every element receives every k block once.
LEMMA CompleteFromInvariant ==
  ASSUME IInv
  PROVE  ResultComplete
<1>0. s \in Shapes
  BY DEF IInv, Typed
<1>1. ASSUME NEW t \in Threads, at[t] = "compute",
             NEW i \in Indices(ics[t]), NEW j \in jc[t] .. jc[t] + nc0[t] - 1
      PROVE  added[<<i, j>>] = (pc[t] \div s.KC) + (IF i < ic[t] THEN 1 ELSE 0)
  <2>1. at[t] \in InBlock
    BY <1>1 DEF InBlock
  <2>2. /\ s.mtag_b # "UNPACKED" /\ ics[t] = IcLoop(t) /\ jc[t] \in Nat /\ nc0[t] \in Nat
        /\ JcLoop(t).start <= jc[t] /\ jc[t] + nc0[t] <= JcLoop(t).end
    BY <2>1, BlockAt
  <2>3. JcLoop(t).start \in Nat /\ JcLoop(t).end \in Nat
    BY <1>0, LoopBounds
  <2>4. i \in Indices(IcLoop(t)) /\ j \in Indices(JcLoop(t)) /\ ~(j < jc[t]) /\ j < jc[t] + nc0[t]
    BY <2>2, <2>3 DEF Indices
  <2>5. added[<<i, j>>] = AddedBy(t, i, j)
    BY <2>4 DEF IInv, Result
  <2>6. AddedBy(t, i, j) = (pc[t] \div s.KC) + (IF i < ic[t] THEN 1 ELSE 0)
    BY <1>1, <2>1, <2>2, <2>4 DEF AddedBy
  <2> QED BY <2>5, <2>6
<1>2. ASSUME AllFinished, NEW e \in DOMAIN added
      PROVE  added[e] = IF s.mtag_b = "UNPACKED" THEN 0 ELSE KBlocks
  <2>1. e \in Elements
    BY <1>2 DEF IInv, Typed
  <2>2. PICK i \in 0 .. s.m - 1, j \in 0 .. s.n - 1 : e = <<i, j>>
    BY <2>1 DEF Elements
  <2>3. PICK t \in Threads : i \in Indices(IcLoop(t)) /\ j \in Indices(JcLoop(t))
    BY <1>0, ElementOwner
  <2>4. added[<<i, j>>] = AddedBy(t, i, j)
    BY <2>3 DEF IInv, Result
  <2>5. at[t] = "done"
    BY <1>2 DEF AllFinished
  <2>6. AddedBy(t, i, j) = IF s.mtag_b = "UNPACKED" THEN 0 ELSE KBlocks
    BY <2>5 DEF AddedBy, InBlock
  <2> QED BY <2>2, <2>4, <2>6
<1> QED
  BY <1>1, <1>2 DEF ResultComplete

----------------------------------------------------------------------------
(* What the steps do.                                                      *)

\* The shape does not change, nor what depends on it alone.
LEMMA Frozen ==
  ASSUME s' = s
  PROVE  /\ Threads' = Threads /\ Teams' = Teams /\ Elements' = Elements
         /\ Packs' = Packs /\ Reordered' = Reordered /\ KBlocks' = KBlocks
         /\ \A t : /\ JcId(t)' = JcId(t) /\ IcId(t)' = IcId(t) /\ (Chief(t)' <=> Chief(t))
                   /\ JcLoop(t)' = JcLoop(t) /\ IcLoop(t)' = IcLoop(t)
                   /\ TeamOf(t)' = TeamOf(t) /\ Lead(t)' = Lead(t)
                   /\ Width(t)' = Width(t) /\ Size(t)' = Size(t)
         /\ \A t, w : Slice(t, w)' = Slice(t, w)
         /\ \A j, e : BlockWidth(j, e)' = BlockWidth(j, e)
         /\ \A j, p : NextPanel(j, p)' = NextPanel(j, p)
<1>1. Threads' = Threads /\ Teams' = Teams /\ Elements' = Elements
  BY DEF Threads, Teams, Elements
<1>2. Packs' = Packs /\ Reordered' = Reordered /\ KBlocks' = KBlocks
  BY DEF Packs, Reordered, KBlocks
<1>3. \A t : JcId(t)' = JcId(t) /\ IcId(t)' = IcId(t)
  BY DEF JcId, IcId
<1>4. \A t : (Chief(t)' <=> Chief(t)) /\ JcLoop(t)' = JcLoop(t) /\ IcLoop(t)' = IcLoop(t)
  BY <1>3 DEF Chief, JcLoop, IcLoop
<1>5. \A t : TeamOf(t)' = TeamOf(t) /\ Lead(t)' = Lead(t)
  BY <1>1, <1>3 DEF TeamOf, Lead
<1>6. \A t : Width(t)' = Width(t)
  BY <1>4 DEF Width
<1>7. \A t : Size(t)' = Size(t)
  BY <1>6 DEF Size, Depth
<1>8. \A t, w : Slice(t, w)' = Slice(t, w)
  BY <1>3 DEF Slice
<1>9. \A j, e : BlockWidth(j, e)' = BlockWidth(j, e)
  BY <1>2 DEF BlockWidth, PanelStart
<1>10. \A j, p : NextPanel(j, p)' = NextPanel(j, p)
  BY <1>2 DEF NextPanel, NextStart, PanelStart
<1> QED
  BY <1>1, <1>2, <1>3, <1>4, <1>5, <1>6, <1>7, <1>8, <1>9, <1>10

\* The width of a block is an integer, also past the end of the range.
LEMMA WidthInt ==
  ASSUME s \in Shapes, NEW j \in Nat, NEW end \in Int
  PROVE  BlockWidth(j, end) \in Int /\ MinOf(end - j, s.NC) \in Int /\ NextStart(j) \in Nat
<1>1. s.NC \in Nat \ {0}
  BY ShapeFacts
<1> DEFINE q == j \div s.NC
<1>2. q \in Nat
  BY <1>1, DivMod
<1>3. PanelStart(j) = q * s.NC
  BY DEF PanelStart
<1> HIDE DEF q
<1>4. PanelStart(j) \in Nat
  BY <1>1, <1>2, <1>3
<1>5. MinOf(end - j, s.NC) \in Int
  BY <1>1 DEF MinOf
<1>6. BlockWidth(j, end) \in Int
  BY <1>1, <1>4, <1>5 DEF BlockWidth
<1>7. NextStart(j) \in Nat
  BY <1>1, <1>4 DEF NextStart
<1> QED
  BY <1>5, <1>6, <1>7

\* Packing touches the slice of one thread in the buffer of its team.
LEMMA PackEffect ==
  ASSUME IInv, NEW t \in Threads, at[t] = "pack", PackSlice(t)
  PROVE  /\ Packs /\ Sent(t) # 0 /\ Sent(t) \in 1 .. Len(heap)
         /\ heap' \in Seq(PackBuffers) /\ Len(heap') = Len(heap)
         /\ \A b \in 1 .. Len(heap) : b # Sent(t) => heap'[b] = heap[b]
         /\ heap'[Sent(t)].live = heap[Sent(t)].live
         /\ heap'[Sent(t)].size = heap[Sent(t)].size
         /\ DOMAIN heap'[Sent(t)].panel = DOMAIN heap[Sent(t)].panel
         /\ DOMAIN heap'[Sent(t)].sums = DOMAIN heap[Sent(t)].sums
         /\ \A c \in 0 .. Width(t) - 1 :
              /\ heap'[Sent(t)].panel[c] =
                   IF c \in Slice(t, nc0[t]) THEN Panel(t) ELSE heap[Sent(t)].panel[c]
              /\ heap'[Sent(t)].sums[c] =
                   IF c \notin Slice(t, nc0[t]) THEN heap[Sent(t)].sums[c]
                   ELSE IF pc[t] = 0 THEN {Panel(t)}
                   ELSE heap[Sent(t)].sums[c] \cup {Panel(t)}
<1> DEFINE B == Sent(t)
           old == heap[B]
           mine == Slice(t, nc0[t])
           P == Panel(t)
           panel == [c \in DOMAIN old.panel |-> IF c \in mine THEN P ELSE old.panel[c]]
           sums == [c \in DOMAIN old.sums |->
                      IF c \notin mine THEN old.sums[c]
                      ELSE IF pc[t] = 0 THEN {P} ELSE old.sums[c] \cup {P}]
           new == [old EXCEPT !.panel = panel, !.sums = sums]
<1>1. Packs /\ buf[t] = B
  BY DEF IInv, Control, Buffers, Holding
<1>2. B # 0
  BY <1>1, ChiefBusy
<1>3. /\ B \in 1 .. Len(heap) /\ old \in PackBuffers
      /\ DOMAIN old.panel = 0 .. Width(t) - 1 /\ DOMAIN old.sums = 0 .. Width(t) - 1
  BY <1>2, TeamBuffer
<1>4. mine = Indices(PackRange(t))
  BY DEF Slice, PackRange
<1>5. heap' = [heap EXCEPT ![B] = new]
  BY <1>1, <1>4 DEF PackSlice
<1>6. heap \in Seq(PackBuffers) /\ P \in Int \X Int /\ s \in Shapes
  BY DEF IInv, Typed, Panel
<1> HIDE DEF B, mine, P, old
<1>7. PICK w \in Nat : old.panel \in [0 .. w - 1 -> Int \X Int]
  BY <1>3 DEF PackBuffers, Columns
<1>8. PICK z \in Nat : old.sums \in [0 .. z - 1 -> SUBSET (Int \X Int)]
  BY <1>3 DEF PackBuffers, Sums
<1>9. panel \in [0 .. w - 1 -> Int \X Int]
  BY <1>6, <1>7
<1>10. sums \in [0 .. z - 1 -> SUBSET (Int \X Int)]
  BY <1>6, <1>8
<1>11. /\ DOMAIN panel = DOMAIN old.panel /\ DOMAIN sums = DOMAIN old.sums
       /\ \A c \in 0 .. Width(t) - 1 :
            /\ panel[c] = IF c \in mine THEN P ELSE old.panel[c]
            /\ sums[c] = IF c \notin mine THEN old.sums[c]
                         ELSE IF pc[t] = 0 THEN {P} ELSE old.sums[c] \cup {P}
  BY <1>3
<1> HIDE DEF panel, sums
<1>12. panel \in Columns /\ sums \in Sums
  BY <1>9, <1>10 DEF Columns, Sums
<1>13. /\ new \in PackBuffers /\ new.live = old.live /\ new.size = old.size
       /\ new.panel = panel /\ new.sums = sums
  BY <1>3, <1>12 DEF PackBuffers
<1> HIDE DEF new
<1>14. heap' \in Seq(PackBuffers) /\ Len(heap') = Len(heap)
  BY <1>3, <1>5, <1>6, <1>13
<1>15. heap'[B] = new /\ \A b \in 1 .. Len(heap) : b # B => heap'[b] = heap[b]
  BY <1>3, <1>5, <1>6
<1> QED
  BY <1>1, <1>2, <1>3, <1>11, <1>13, <1>14, <1>15 DEF B, old, mine, P

\* The chief's buffer is freed, and keeps what it holds.
LEMMA ReleaseEffect ==
  ASSUME IInv, NEW t \in Threads, Release(t)
  PROVE  /\ heap' \in Seq(PackBuffers) /\ Len(heap') = Len(heap)
         /\ \A b \in 1 .. Len(heap) :
              /\ heap'[b].live <=> heap[b].live /\ ~(Chief(t) /\ Sent(t) = b)
              /\ heap'[b].size = heap[b].size
              /\ heap'[b].panel = heap[b].panel /\ heap'[b].sums = heap[b].sums
<1>1. heap \in Seq(PackBuffers) /\ at[t] = "release"
  BY DEF IInv, Typed, Release
<1>2. CASE ~(Chief(t) /\ buf[t] # 0)
  <2>1. heap' = heap
    BY <1>2 DEF Release
  <2>2. Chief(t) => Sent(t) = 0
    BY <1>1, <1>2 DEF IInv, Buffers
  <2> QED BY <1>1, <2>1, <2>2
<1>3. CASE Chief(t) /\ buf[t] # 0
  <2> DEFINE B == Sent(t)
             old == heap[B]
             new == [old EXCEPT !.live = FALSE]
  <2>1. buf[t] = B
    BY <1>1, <1>3 DEF IInv, Buffers
  <2>2. B \in 1 .. Len(heap) /\ old \in PackBuffers
    BY <1>3, <2>1, TeamBuffer
  <2>3. heap' = [heap EXCEPT ![B] = new]
    BY <1>3, <2>1 DEF Release
  <2> HIDE DEF B, old
  <2>4. /\ new \in PackBuffers /\ new.live = FALSE /\ new.size = old.size
        /\ new.panel = old.panel /\ new.sums = old.sums
    BY <2>2 DEF PackBuffers
  <2> HIDE DEF new
  <2>5. heap' \in Seq(PackBuffers) /\ Len(heap') = Len(heap)
    BY <1>1, <2>2, <2>3, <2>4
  <2>6. heap'[B] = new /\ \A b \in 1 .. Len(heap) : b # B => heap'[b] = heap[b]
    BY <1>1, <2>2, <2>3
  <2> QED BY <1>3, <2>2, <2>4, <2>5, <2>6 DEF B, old
<1> QED
  BY <1>2, <1>3

\* The first buffer is made for the first block.
LEMMA SendEffect ==
  ASSUME IInv, NEW t \in Threads, SendBuffer(t)
  PROVE  \/ UNCHANGED <<heap, buf, sent_object>> /\ (Chief(t) => Sent(t) # 0)
         \/ /\ Chief(t) /\ Packs /\ Base(t) = 0 /\ Sent(t) = 0 /\ buf[t] = 0
            /\ heap' \in Seq(PackBuffers) /\ Len(heap') = Len(heap) + 1
            /\ \A b \in 1 .. Len(heap) : heap'[b] = heap[b]
            /\ heap'[Len(heap) + 1].live
            /\ heap'[Len(heap) + 1].size = Size(t)
            /\ DOMAIN heap'[Len(heap) + 1].panel = 0 .. Width(t) - 1
            /\ DOMAIN heap'[Len(heap) + 1].sums = 0 .. Width(t) - 1
            /\ buf' = [buf EXCEPT ![t] = Len(heap) + 1]
            /\ sent_object' = [sent_object EXCEPT ![JcId(t)] = Len(heap) + 1]
<1>0. /\ s \in Shapes /\ heap \in Seq(PackBuffers) /\ sent_object \in [Teams -> Nat]
      /\ buf \in [Threads -> Nat] /\ at[t] = "send" /\ pc[t] \in Nat
  BY DEF IInv, Typed, SendBuffer
<1>1. Packs /\ at[t] \in InBlock /\ Begun(t) /\ JcId(t) \in Teams
  BY <1>0, Ids DEF IInv, Control, InBlock, Begun
<1>2. CASE ~Chief(t)
  BY <1>2 DEF SendBuffer
<1>3. CASE Chief(t) /\ buf[t] # 0
  <2>1. sent_object' = [sent_object EXCEPT ![JcId(t)] = buf[t]] /\ UNCHANGED <<heap, buf>>
    BY <1>3 DEF SendBuffer
  <2>2. buf[t] = sent_object[JcId(t)]
    BY <1>0, <1>3 DEF IInv, Buffers, Sent
  <2>3. sent_object' = sent_object
    BY <1>0, <1>1, <2>1, <2>2
  <2>4. Sent(t) # 0
    BY <1>3, <2>2 DEF Sent
  <2> QED BY <2>1, <2>3, <2>4
<1>4. CASE Chief(t) /\ buf[t] = 0
  <2> DEFINE new == NewBuffer(t)
             L == Len(heap) + 1
  <2>1. heap' = Append(heap, new)
    BY <1>4 DEF SendBuffer
  <2>2. Sent(t) = 0
    BY <1>0, <1>4 DEF IInv, Buffers
  <2>3. Base(t) = 0
    <3>1. Base(t) \in Int /\ Base(t) >= 0
      <4>1. Base(t) >= 0
        BY <1>1 DEF IInv, Lockstep
      <4>2. Typed /\ Control
        BY DEF IInv
      <4> QED BY <4>1, <4>2, Places
    <3>2. ~(Base(t) > 0)
      BY <1>1, <1>4, <2>2 DEF IInv, Buffers
    <3> QED BY <3>1, <3>2
  <2>4. jc[t] = JcLoop(t).start /\ pc[t] = 0
    BY <1>1, <2>3 DEF IInv, Lockstep
  <2>5. jcs[t] = JcLoop(t)
    BY <1>1, BlockAt
  <2>6. AllocWidth(t) = Width(t)
    BY <2>4, <2>5 DEF AllocWidth, Width
  <2>7. kc0(t) = MinOf(s.k, s.KC)
    <3>1. s.k - 0 = s.k
      BY <1>0, ShapeFacts
    <3> QED BY <2>4, <3>1 DEF kc0
  <2>8. BufferSize(t, Width(t)) = Size(t)
    BY <2>7 DEF BufferSize, Size, Depth
  <2>9. Width(t) \in Nat
    <3>1. /\ JcLoop(t).start \in Nat /\ JcLoop(t).end \in Nat
          /\ JcLoop(t).start <= JcLoop(t).end /\ s.NC \in Nat
      BY <1>0, LoopBounds, ShapeFacts
    <3> QED BY <3>1 DEF Width, MinOf
  <2>10. Size(t) \in Nat
    <3>1. /\ s.k \in Nat /\ s.KC \in Nat /\ PadN \in Nat \ {0} /\ PadK \in Nat \ {0}
      BY <1>0, ShapeFacts
    <3>2. MinOf(s.k, s.KC) \in Nat
      BY <3>1 DEF MinOf
    <3>3. MakeMultiple(MinOf(s.k, s.KC), PadK) \in Nat /\ MakeMultiple(Width(t), PadN) \in Nat
      <4>1. MinOf(s.k, s.KC) <= MinOf(s.k, s.KC) /\ Width(t) <= Width(t)
        BY <2>9, <3>2
      <4> QED BY <2>9, <3>1, <3>2, <4>1, MultipleMonotone
    <3>4. Depth \in Nat
      BY <3>3 DEF Depth
    <3> QED BY <3>3, <3>4 DEF Size
  <2>11. new = [live |-> TRUE, size |-> Size(t),
                panel |-> [c \in 0 .. Width(t) - 1 |-> Nothing],
                sums |-> [c \in 0 .. Width(t) - 1 |-> {}]]
    BY <2>6, <2>8 DEF NewBuffer
  <2>12. new \in PackBuffers
    <3> DEFINE p == [c \in 0 .. Width(t) - 1 |-> Nothing]
               z == [c \in 0 .. Width(t) - 1 |-> {}]
    <3>1. p \in [0 .. Width(t) - 1 -> Int \X Int]
      BY DEF Nothing
    <3>2. z \in [0 .. Width(t) - 1 -> SUBSET (Int \X Int)]
      OBVIOUS
    <3> HIDE DEF p, z
    <3>3. p \in Columns /\ z \in Sums
      BY <2>9, <3>1, <3>2 DEF Columns, Sums
    <3>4. new = [live |-> TRUE, size |-> Size(t), panel |-> p, sums |-> z]
      BY <2>11 DEF p, z
    <3> HIDE DEF new
    <3> QED BY <2>10, <3>3, <3>4 DEF PackBuffers
  <2>13. /\ new.live /\ new.size = Size(t) /\ DOMAIN new.panel = 0 .. Width(t) - 1
         /\ DOMAIN new.sums = 0 .. Width(t) - 1
    BY <2>11
  <2> HIDE DEF new
  <2>14. /\ heap' \in Seq(PackBuffers) /\ Len(heap') = L /\ heap'[L] = new
         /\ \A b \in 1 .. Len(heap) : heap'[b] = heap[b]
    BY <1>0, <2>1, <2>12
  <2>15. buf' = [buf EXCEPT ![t] = L]
    BY <1>4, <2>14 DEF SendBuffer
  <2>16. buf'[t] = L
    BY <1>0, <2>15
  <2>17. sent_object' = [sent_object EXCEPT ![JcId(t)] = L]
    BY <1>4, <2>16 DEF SendBuffer
  <2> QED BY <1>1, <1>4, <2>2, <2>3, <2>13, <2>14, <2>15, <2>17
<1> QED
  BY <1>2, <1>3, <1>4

\* A thread changes its own variables only.
LEMMA Others ==
  ASSUME IInv, NEW t \in Threads, Step(t), NEW u \in Threads, u # t
  PROVE  /\ at'[u] = at[u] /\ jcs'[u] = jcs[u] /\ ics'[u] = ics[u]
         /\ jc'[u] = jc[u] /\ pc'[u] = pc[u] /\ ic'[u] = ic[u] /\ nc0'[u] = nc0[u]
         /\ buf'[u] = buf[u] /\ temp'[u] = temp[u]
         /\ entered'[u] = entered[u] /\ passed'[u] = passed[u]
<1>0. /\ at \in [Threads -> Locations]
      /\ jcs \in [Threads -> [start : Int, end : Int]]
      /\ ics \in [Threads -> [start : Int, end : Int]]
      /\ jc \in [Threads -> Nat] /\ pc \in [Threads -> Nat] /\ ic \in [Threads -> Nat]
      /\ nc0 \in [Threads -> Int] /\ buf \in [Threads -> Nat] /\ temp \in [Threads -> Int]
      /\ entered \in [Threads -> Nat] /\ passed \in [Threads -> Nat]
  BY DEF IInv, Typed
<1>1. CASE Begin(t)
  BY <1>0, <1>1 DEF Begin, EnterJc, Goto, loops
<1>2. CASE SendBuffer(t)
  BY <1>0, <1>2 DEF SendBuffer, Goto, loops
<1>3. CASE ReceiveBuffer(t)
  BY <1>0, <1>3 DEF ReceiveBuffer, Goto, loops
<1>4. CASE Pack(t)
  BY <1>0, <1>4 DEF Pack, PackSlice, Goto, loops
<1>5. CASE Compute(t)
  BY <1>0, <1>5 DEF Compute
<1>6. CASE NextBlock(t)
  BY <1>0, <1>6 DEF NextBlock, EnterJc, Goto
<1>7. CASE Release(t)
  BY <1>0, <1>7 DEF Release, Goto, loops
<1>8. CASE Barriers(t)
  BY <1>0, <1>8 DEF Barriers, Arrive, Leave, Goto, loops
<1> QED
  BY <1>1, <1>2, <1>3, <1>4, <1>5, <1>6, <1>7, <1>8 DEF Step

\* The shape is fixed.
LEMMA ShapeFixed ==
  ASSUME NEW t, Step(t)
  PROVE  s' = s
BY DEF Step, Begin, SendBuffer, ReceiveBuffer, Pack, PackSlice, Compute, NextBlock, Release,
       Barriers, Arrive, Leave

\* A call that is not refused begins its first block, if there is one.
LEMMA BeginEffect ==
  ASSUME IInv, NEW t \in Threads, Begin(t), s.mtag_b # "UNPACKED"
  PROVE  /\ at[t] = "begin"
         /\ jcs' = [jcs EXCEPT ![t] = JcLoop(t)] /\ ics' = [ics EXCEPT ![t] = IcLoop(t)]
         /\ jc' = [jc EXCEPT ![t] = JcLoop(t).start]
         /\ nc0' = [nc0 EXCEPT ![t] = BlockWidth(JcLoop(t).start, JcLoop(t).end)]
         /\ pc' = [pc EXCEPT ![t] = 0] /\ ic' = [ic EXCEPT ![t] = IcLoop(t).start]
         /\ temp' = IF JcLoop(t).start < JcLoop(t).end /\ s.downscale /\ s.k > s.KC
                    THEN [temp EXCEPT ![t] = Width(t) * (IcLoop(t).end - IcLoop(t).start)]
                    ELSE temp
         /\ at' = [at EXCEPT ![t] =
                     IF JcLoop(t).start < JcLoop(t).end
                     THEN IF Packs THEN "send" ELSE "compute"
                     ELSE IF Packs THEN "arriveLast" ELSE "release"]
         /\ UNCHANGED <<s, buf, sent_object, heap, entered, passed, added>>
<1>1. /\ at[t] = "begin" /\ EnterJc(t, JcLoop(t).start, JcLoop(t).end, IcLoop(t))
      /\ jcs' = [jcs EXCEPT ![t] = JcLoop(t)] /\ ics' = [ics EXCEPT ![t] = IcLoop(t)]
      /\ UNCHANGED <<s, buf, sent_object, heap, entered, passed, added>>
  BY DEF Begin
<1>2. temp[t] = -1
  BY <1>1 DEF IInv, Control
<1>3. TempSize(JcLoop(t).start, JcLoop(t).end, IcLoop(t))
        = Width(t) * (IcLoop(t).end - IcLoop(t).start)
  BY DEF TempSize, Width
<1> QED
  BY <1>1, <1>2, <1>3 DEF EnterJc, Goto, BlockStart

\* After the last k block comes the next block of columns, or the end.
LEMMA NextColumnsEffect ==
  ASSUME IInv, NEW t \in Threads, NextBlock(t), ~(pc[t] + s.KC < s.k)
  PROVE  /\ at[t] = "compute" /\ ic[t] >= IcLoop(t).end
         /\ jc' = [jc EXCEPT ![t] = NextStart(jc[t])]
         /\ nc0' = [nc0 EXCEPT ![t] = BlockWidth(NextStart(jc[t]), JcLoop(t).end)]
         /\ pc' = [pc EXCEPT ![t] = 0] /\ ic' = [ic EXCEPT ![t] = IcLoop(t).start]
         /\ at' = [at EXCEPT ![t] =
                     IF NextStart(jc[t]) < JcLoop(t).end
                     THEN IF Packs THEN "send" ELSE "compute"
                     ELSE IF Packs THEN "arriveLast" ELSE "release"]
         /\ UNCHANGED <<s, jcs, ics, temp, buf, sent_object, heap, entered, passed, added>>
<1>1. /\ at[t] = "compute" /\ ic[t] >= ics[t].end
      /\ EnterJc(t, NextJc(t), jcs[t].end, ics[t])
      /\ UNCHANGED <<s, jcs, ics, buf, sent_object, heap, entered, passed, added>>
  BY DEF NextBlock
<1>2. at[t] \in InBlock
  BY <1>1 DEF InBlock
<1>3. jcs[t] = JcLoop(t) /\ ics[t] = IcLoop(t)
  BY <1>2, BlockAt
<1>4. NextJc(t) = NextStart(jc[t])
  BY DEF NextJc, NextStart
<1>5. ASSUME s.downscale, s.k > s.KC PROVE temp[t] # -1
  <2>1. temp[t] = Width(t) * (IcLoop(t).end - IcLoop(t).start)
    BY <1>2, <1>5 DEF IInv, Accumulator
  <2>2. s \in Shapes
    BY DEF IInv, Typed
  <2>3. /\ JcLoop(t).start \in Nat /\ JcLoop(t).end \in Nat /\ JcLoop(t).start <= JcLoop(t).end
        /\ IcLoop(t).start \in Nat /\ IcLoop(t).end \in Nat /\ IcLoop(t).start <= IcLoop(t).end
        /\ s.NC \in Nat
    BY <2>2, LoopBounds, ShapeFacts
  <2>4. Width(t) \in Nat /\ IcLoop(t).end - IcLoop(t).start \in Nat
    BY <2>3 DEF Width, MinOf
  <2>5. Width(t) * (IcLoop(t).end - IcLoop(t).start) \in Nat
    BY <2>4
  <2> QED BY <2>1, <2>5
<1>6. temp' = temp
  BY <1>1, <1>5 DEF EnterJc
<1> QED
  BY <1>1, <1>3, <1>4, <1>6 DEF EnterJc, Goto, BlockStart

\* Otherwise the next k block of the same columns.
LEMMA NextDepthEffect ==
  ASSUME IInv, NEW t \in Threads, NextBlock(t), pc[t] + s.KC < s.k
  PROVE  /\ at[t] = "compute" /\ ic[t] >= IcLoop(t).end
         /\ pc' = [pc EXCEPT ![t] = pc[t] + s.KC] /\ ic' = [ic EXCEPT ![t] = IcLoop(t).start]
         /\ at' = [at EXCEPT ![t] = IF Packs THEN "send" ELSE "compute"]
         /\ UNCHANGED <<s, jcs, ics, jc, nc0, temp, buf, sent_object, heap, entered, passed, added>>
<1>0. s \in Shapes /\ pc[t] \in Nat /\ s.KC \in Nat /\ s.k \in Nat
  BY ShapeFacts DEF IInv, Typed
<1>1. ~(pc[t] + s.KC >= s.k)
  BY <1>0
<1>2. /\ at[t] = "compute" /\ ic[t] >= ics[t].end
      /\ pc' = [pc EXCEPT ![t] = @ + s.KC]
      /\ ic' = [ic EXCEPT ![t] = ics[t].start]
      /\ Goto(t, BlockStart)
      /\ UNCHANGED <<jc, nc0, temp>>
      /\ UNCHANGED <<s, jcs, ics, buf, sent_object, heap, entered, passed, added>>
  BY <1>1 DEF NextBlock
<1>3. at[t] \in InBlock
  BY <1>2 DEF InBlock
<1>4. ics[t] = IcLoop(t)
  BY <1>3, BlockAt
<1> QED
  BY <1>2, <1>4 DEF Goto, BlockStart

----------------------------------------------------------------------------
(* The invariant is kept: types.                                           *)

\* Every step keeps the types.
LEMMA TypedStep ==
  ASSUME IInv, NEW t \in Threads, Step(t)
  PROVE  Typed'
<1>0. /\ s \in Shapes
      /\ at \in [Threads -> Locations]
      /\ jcs \in [Threads -> [start : Int, end : Int]]
      /\ ics \in [Threads -> [start : Int, end : Int]]
      /\ jc \in [Threads -> Nat] /\ pc \in [Threads -> Nat] /\ ic \in [Threads -> Nat]
      /\ nc0 \in [Threads -> Int]
      /\ buf \in [Threads -> Nat]
      /\ sent_object \in [Teams -> Nat]
      /\ heap \in Seq(PackBuffers)
      /\ temp \in [Threads -> Int]
      /\ entered \in [Threads -> Nat] /\ passed \in [Threads -> Nat]
      /\ added \in [Elements -> Nat]
  BY DEF IInv, Typed
<1>n. /\ jcs \in [Threads -> [start : Int, end : Int]]
      /\ ics \in [Threads -> [start : Int, end : Int]]
      /\ jc \in [Threads -> Nat] /\ pc \in [Threads -> Nat] /\ ic \in [Threads -> Nat]
      /\ nc0 \in [Threads -> Int] /\ temp \in [Threads -> Int]
      /\ entered \in [Threads -> Nat] /\ passed \in [Threads -> Nat]
  BY <1>0
<1>s. s' = s
  BY ShapeFixed
<1>f. Threads' = Threads /\ Teams' = Teams /\ Elements' = Elements
  BY <1>s, Frozen
<1>g. /\ s.KC \in Nat /\ s.MC \in Nat /\ JcId(t) \in Teams
      /\ JcLoop(t).start \in Nat /\ JcLoop(t).end \in Nat /\ IcLoop(t).start \in Nat
      /\ IcLoop(t).end \in Nat
      /\ JcLoop(t) \in [start : Int, end : Int] /\ IcLoop(t) \in [start : Int, end : Int]
  BY <1>0, ShapeFacts, LoopBounds, Ids
<1>w. Width(t) \in Int
  <2>1. s.NC \in Nat
    BY <1>0, ShapeFacts
  <2> QED BY <1>g, <2>1 DEF Width, MinOf
<1>1. CASE Begin(t)
  <2>1. CASE s.mtag_b = "UNPACKED"
    <3>1. /\ at' = [at EXCEPT ![t] = "done"]
          /\ UNCHANGED <<jcs, ics, jc, pc, ic, nc0, temp>>
          /\ UNCHANGED <<s, buf, sent_object, heap, entered, passed, added>>
      BY <1>1, <2>1 DEF Begin, Goto, loops
    <3>2. at' \in [Threads -> Locations]
      BY <1>0, <3>1 DEF Locations
    <3> QED BY <1>0, <1>f, <3>1, <3>2 DEF Typed
  <2>2. CASE s.mtag_b # "UNPACKED"
    <3>0. /\ jcs' = [jcs EXCEPT ![t] = JcLoop(t)] /\ ics' = [ics EXCEPT ![t] = IcLoop(t)]
          /\ jc' = [jc EXCEPT ![t] = JcLoop(t).start]
          /\ nc0' = [nc0 EXCEPT ![t] = BlockWidth(JcLoop(t).start, JcLoop(t).end)]
          /\ pc' = [pc EXCEPT ![t] = 0] /\ ic' = [ic EXCEPT ![t] = IcLoop(t).start]
      BY <1>1, <2>2, BeginEffect
    <3>1. /\ jcs' \in [Threads -> [start : Int, end : Int]]
          /\ ics' \in [Threads -> [start : Int, end : Int]]
          /\ jc' \in [Threads -> Nat] /\ pc' \in [Threads -> Nat] /\ ic' \in [Threads -> Nat]
      BY <1>n, <1>g, <3>0
    <3>2. nc0' \in [Threads -> Int]
      <4>1. BlockWidth(JcLoop(t).start, JcLoop(t).end) \in Int
        BY <1>0, <1>g, WidthInt
      <4> QED BY <1>n, <3>0, <4>1
    <3>3. temp' \in [Threads -> Int]
      <4>1. Width(t) * (IcLoop(t).end - IcLoop(t).start) \in Int
        BY <1>g, <1>w
      <4> DEFINE size == Width(t) * (IcLoop(t).end - IcLoop(t).start)
      <4>2. temp' = [temp EXCEPT ![t] = size] \/ temp' = temp
        BY <1>1, <2>2, BeginEffect
      <4> HIDE DEF size
      <4>3. size \in Int
        BY <4>1 DEF size
      <4> QED BY <1>n, <4>2, <4>3
    <3>4. at' \in [Threads -> Locations]
      BY <1>0, <1>1, <2>2, BeginEffect DEF Locations
    <3>5. UNCHANGED <<s, buf, sent_object, heap, entered, passed, added>>
      BY <1>1, <2>2, BeginEffect
    <3> QED BY <1>0, <1>f, <3>1, <3>2, <3>3, <3>4, <3>5 DEF Typed
  <2> QED BY <2>1, <2>2
<1>2. CASE SendBuffer(t)
  <2>1. /\ at' = [at EXCEPT ![t] = "arriveAlloc"]
        /\ UNCHANGED <<s, jcs, ics, jc, pc, ic, nc0, temp, entered, passed, added>>
    BY <1>2 DEF SendBuffer, Goto, loops
  <2>2. at' \in [Threads -> Locations]
    BY <1>0, <2>1 DEF Locations
  <2>3. /\ buf' \in [Threads -> Nat] /\ sent_object' \in [Teams -> Nat]
        /\ heap' \in Seq(PackBuffers)
    <3>1. CASE UNCHANGED <<heap, buf, sent_object>>
      BY <1>0, <3>1
    <3>2. CASE /\ heap' \in Seq(PackBuffers)
               /\ buf' = [buf EXCEPT ![t] = Len(heap) + 1]
               /\ sent_object' = [sent_object EXCEPT ![JcId(t)] = Len(heap) + 1]
      <4>1. Len(heap) + 1 \in Nat
        BY <1>0
      <4> QED BY <1>0, <1>g, <3>2, <4>1
    <3> QED BY <1>2, <3>1, <3>2, SendEffect
  <2> QED BY <1>0, <1>f, <2>1, <2>2, <2>3 DEF Typed
<1>3. CASE ReceiveBuffer(t)
  <2>1. /\ at' = [at EXCEPT ![t] = "pack"]
        /\ buf' = [buf EXCEPT ![t] = sent_object[JcId(t)]]
        /\ UNCHANGED <<s, jcs, ics, jc, pc, ic, nc0, sent_object, heap, temp, entered, passed, added>>
    BY <1>3 DEF ReceiveBuffer, Goto, loops
  <2>2. at' \in [Threads -> Locations]
    BY <1>0, <2>1 DEF Locations
  <2>3. buf' \in [Threads -> Nat]
    BY <1>0, <1>g, <2>1
  <2> QED BY <1>0, <1>f, <2>1, <2>2, <2>3 DEF Typed
<1>4. CASE Pack(t)
  <2>1. /\ at[t] = "pack" /\ PackSlice(t) /\ at' = [at EXCEPT ![t] = "arrivePack"]
        /\ UNCHANGED <<s, jcs, ics, jc, pc, ic, nc0, buf, sent_object, temp, entered, passed, added>>
    BY <1>4 DEF Pack, PackSlice, Goto, loops
  <2>2. at' \in [Threads -> Locations]
    BY <1>0, <2>1 DEF Locations
  <2>3. heap' \in Seq(PackBuffers)
    BY <2>1, PackEffect
  <2> QED BY <1>0, <1>f, <2>1, <2>2, <2>3 DEF Typed
<1>5. CASE Compute(t)
  <2> DEFINE rows == ic[t] .. ic[t] + MinOf(ics[t].end - ic[t], s.MC) - 1
             cols == jc[t] .. jc[t] + nc0[t] - 1
  <2>1. /\ added' = [e \in DOMAIN added |-> added[e] + (IF e \in rows \X cols THEN 1 ELSE 0)]
        /\ ic' = [ic EXCEPT ![t] = @ + s.MC]
        /\ UNCHANGED <<s, at, jcs, ics, jc, pc, nc0, buf, sent_object, heap, temp, entered, passed>>
    BY <1>5 DEF Compute
  <2> HIDE DEF rows, cols
  <2>2. added' \in [Elements -> Nat]
    BY <1>0, <2>1
  <2>3. ic' \in [Threads -> Nat]
    <3>1. ic' = [ic EXCEPT ![t] = ic[t] + s.MC]
      BY <2>1
    <3> QED BY <1>n, <1>g, <3>1
  <2> QED BY <1>0, <1>f, <2>1, <2>2, <2>3 DEF Typed
<1>6. CASE NextBlock(t)
  <2>0. NextStart(jc[t]) \in Nat /\ BlockWidth(NextStart(jc[t]), JcLoop(t).end) \in Int
    <3>1. jc[t] \in Nat /\ JcLoop(t).end \in Int
      BY <1>0, <1>g
    <3>2. NextStart(jc[t]) \in Nat
      BY <1>0, <3>1, WidthInt
    <3> QED BY <1>0, <3>1, <3>2, WidthInt
  <2>1. CASE pc[t] + s.KC < s.k
    <3>1. pc' \in [Threads -> Nat] /\ ic' \in [Threads -> Nat]
      <4>1. pc' = [pc EXCEPT ![t] = pc[t] + s.KC] /\ ic' = [ic EXCEPT ![t] = IcLoop(t).start]
        BY <1>6, <2>1, NextDepthEffect
      <4> QED BY <1>n, <1>g, <4>1
    <3>2. at' \in [Threads -> Locations]
      BY <1>0, <1>6, <2>1, NextDepthEffect DEF Locations
    <3>3. UNCHANGED <<s, jcs, ics, jc, nc0, temp, buf, sent_object, heap, entered, passed, added>>
      BY <1>6, <2>1, NextDepthEffect
    <3> QED BY <1>0, <1>f, <3>1, <3>2, <3>3 DEF Typed
  <2>2. CASE ~(pc[t] + s.KC < s.k)
    <3>1. /\ jc' \in [Threads -> Nat] /\ pc' \in [Threads -> Nat] /\ ic' \in [Threads -> Nat]
          /\ nc0' \in [Threads -> Int]
      <4>1. /\ jc' = [jc EXCEPT ![t] = NextStart(jc[t])]
            /\ nc0' = [nc0 EXCEPT ![t] = BlockWidth(NextStart(jc[t]), JcLoop(t).end)]
            /\ pc' = [pc EXCEPT ![t] = 0] /\ ic' = [ic EXCEPT ![t] = IcLoop(t).start]
        BY <1>6, <2>2, NextColumnsEffect
      <4> QED BY <1>n, <1>g, <2>0, <4>1
    <3>2. at' \in [Threads -> Locations]
      BY <1>0, <1>6, <2>2, NextColumnsEffect DEF Locations
    <3>3. UNCHANGED <<s, jcs, ics, temp, buf, sent_object, heap, entered, passed, added>>
      BY <1>6, <2>2, NextColumnsEffect
    <3> QED BY <1>0, <1>f, <3>1, <3>2, <3>3 DEF Typed
  <2> QED BY <2>1, <2>2
<1>7. CASE Release(t)
  <2>1. /\ at' = [at EXCEPT ![t] = "done"] /\ buf' = [buf EXCEPT ![t] = 0]
        /\ temp' = [temp EXCEPT ![t] = -1]
        /\ UNCHANGED <<s, jcs, ics, jc, pc, ic, nc0, sent_object, entered, passed, added>>
    BY <1>7 DEF Release, Goto, loops
  <2>2. at' \in [Threads -> Locations]
    BY <1>0, <2>1 DEF Locations
  <2>3. buf' \in [Threads -> Nat] /\ temp' \in [Threads -> Int]
    BY <1>0, <2>1
  <2>4. heap' \in Seq(PackBuffers)
    BY <1>7, ReleaseEffect
  <2> QED BY <1>0, <1>f, <2>1, <2>2, <2>3, <2>4 DEF Typed
<1>8. CASE Barriers(t)
  <2>1. /\ UNCHANGED <<s, jcs, ics, jc, pc, ic, nc0, buf, sent_object, heap, temp, added>>
        /\ \/ entered' = [entered EXCEPT ![t] = @ + 1] /\ passed' = passed
           \/ passed' = [passed EXCEPT ![t] = @ + 1] /\ entered' = entered
    BY <1>8 DEF Barriers, Arrive, Leave, loops
  <2>2. at' \in [Threads -> Locations]
    BY <1>0, <1>8 DEF Barriers, Arrive, Leave, Goto, Locations
  <2>3. entered' \in [Threads -> Nat] /\ passed' \in [Threads -> Nat]
    <3>1. CASE entered' = [entered EXCEPT ![t] = @ + 1] /\ passed' = passed
      BY <1>n, <3>1
    <3>2. CASE passed' = [passed EXCEPT ![t] = @ + 1] /\ entered' = entered
      BY <1>n, <3>2
    <3> QED BY <2>1, <3>1, <3>2
  <2> QED BY <1>0, <1>f, <2>1, <2>2, <2>3 DEF Typed
<1> QED
  BY <1>1, <1>2, <1>3, <1>4, <1>5, <1>6, <1>7, <1>8 DEF Step

----------------------------------------------------------------------------
(* The invariant is kept: each thread's own control.                       *)

\* Where a thread goes, and what that does to its barrier counts.
LEMMA Trace ==
  ASSUME IInv, NEW t \in Threads, Step(t)
  PROVE  \/ /\ Begin(t) /\ at[t] = "begin" /\ s.mtag_b = "UNPACKED" /\ at'[t] = "done"
            /\ entered'[t] = entered[t] /\ passed'[t] = passed[t]
         \/ /\ Begin(t) /\ at[t] = "begin" /\ s.mtag_b # "UNPACKED"
            /\ at'[t] = IF JcLoop(t).start < JcLoop(t).end
                        THEN IF Packs THEN "send" ELSE "compute"
                        ELSE IF Packs THEN "arriveLast" ELSE "release"
            /\ entered'[t] = entered[t] /\ passed'[t] = passed[t]
         \/ /\ NextBlock(t) /\ at[t] = "compute" /\ pc[t] + s.KC < s.k
            /\ at'[t] = IF Packs THEN "send" ELSE "compute"
            /\ entered'[t] = entered[t] /\ passed'[t] = passed[t]
         \/ /\ NextBlock(t) /\ at[t] = "compute" /\ ~(pc[t] + s.KC < s.k)
            /\ at'[t] = IF NextStart(jc[t]) < JcLoop(t).end
                        THEN IF Packs THEN "send" ELSE "compute"
                        ELSE IF Packs THEN "arriveLast" ELSE "release"
            /\ entered'[t] = entered[t] /\ passed'[t] = passed[t]
         \/ /\ \/ SendBuffer(t) /\ at[t] = "send" /\ at'[t] = "arriveAlloc"
               \/ ReceiveBuffer(t) /\ at[t] = "receive" /\ at'[t] = "pack"
               \/ Pack(t) /\ at[t] = "pack" /\ at'[t] = "arrivePack"
               \/ Compute(t) /\ at[t] = "compute" /\ at'[t] = "compute"
               \/ Release(t) /\ at[t] = "release" /\ at'[t] = "done"
            /\ entered'[t] = entered[t] /\ passed'[t] = passed[t]
            /\ UNCHANGED <<jcs, ics, jc, pc, nc0>>
         \/ /\ \/ at[t] = "arriveAlloc" /\ at'[t] = "waitAlloc"
               \/ at[t] = "arrivePack" /\ at'[t] = "waitPack"
               \/ at[t] = "arriveLast" /\ at'[t] = "waitLast"
            /\ entered'[t] = entered[t] + 1 /\ passed'[t] = passed[t]
            /\ UNCHANGED <<jcs, ics, jc, pc, ic, nc0, temp, buf, sent_object, heap, added>>
            /\ Barriers(t)
         \/ /\ \/ at[t] = "waitAlloc" /\ at'[t] = "receive"
               \/ at[t] = "waitPack" /\ at'[t] = "compute"
               \/ at[t] = "waitLast" /\ at'[t] = "release"
            /\ entered'[t] = entered[t] /\ passed'[t] = passed[t] + 1
            /\ \A u \in TeamOf(t) : entered[t] <= entered[u]
            /\ UNCHANGED <<jcs, ics, jc, pc, ic, nc0, temp, buf, sent_object, heap, added>>
            /\ Barriers(t)
<1>0. /\ at \in [Threads -> Locations] /\ entered \in [Threads -> Nat] /\ passed \in [Threads -> Nat]
  BY DEF IInv, Typed
<1>1. CASE Begin(t) /\ s.mtag_b = "UNPACKED"
  BY <1>0, <1>1 DEF Begin, Goto
<1>2. CASE Begin(t) /\ s.mtag_b # "UNPACKED"
  BY <1>0, <1>2, BeginEffect
<1>3. CASE NextBlock(t) /\ pc[t] + s.KC < s.k
  BY <1>0, <1>3, NextDepthEffect
<1>4. CASE NextBlock(t) /\ ~(pc[t] + s.KC < s.k)
  BY <1>0, <1>4, NextColumnsEffect
<1>5. CASE SendBuffer(t)
  BY <1>0, <1>5 DEF SendBuffer, Goto, loops
<1>6. CASE ReceiveBuffer(t)
  BY <1>0, <1>6 DEF ReceiveBuffer, Goto, loops
<1>7. CASE Pack(t)
  BY <1>0, <1>7 DEF Pack, PackSlice, Goto, loops
<1>8. CASE Compute(t)
  BY <1>0, <1>8 DEF Compute
<1>9. CASE Release(t)
  BY <1>0, <1>9 DEF Release, Goto, loops
<1>10. CASE \/ Arrive(t, "arriveAlloc", "waitAlloc") \/ Arrive(t, "arrivePack", "waitPack")
            \/ Arrive(t, "arriveLast", "waitLast")
  BY <1>0, <1>10 DEF Arrive, Goto, loops, Barriers
<1>11. CASE \/ Leave(t, "waitAlloc", "receive") \/ Leave(t, "waitPack", "compute")
            \/ Leave(t, "waitLast", "release")
  BY <1>0, <1>11 DEF Leave, Goto, loops, Barriers
<1>12. Barriers(t) => \/ Arrive(t, "arriveAlloc", "waitAlloc") \/ Arrive(t, "arrivePack", "waitPack")
                      \/ Arrive(t, "arriveLast", "waitLast")
                      \/ Leave(t, "waitAlloc", "receive") \/ Leave(t, "waitPack", "compute")
                      \/ Leave(t, "waitLast", "release")
  BY DEF Barriers
<1> QED
  BY <1>1, <1>2, <1>3, <1>4, <1>5, <1>6, <1>7, <1>8, <1>9, <1>10, <1>11, <1>12 DEF Step

\* Barrier counts, and the way a thread came, stay as its place says.
LEMMA ControlStep ==
  ASSUME IInv, NEW t \in Threads, Step(t)
  PROVE  Control'
<1>0. /\ at[t] \in Locations /\ entered[t] \in Nat /\ passed[t] \in Nat
      /\ entered[t] = passed[t] + (IF at[t] \in Waiting THEN 1 ELSE 0)
  BY DEF IInv, Typed, Control
<1>1. s' = s /\ Threads' = Threads /\ Packs' = Packs
  BY ShapeFixed, Frozen
<1>2. ASSUME NEW u \in Threads, u # t
      PROVE  /\ entered'[u] = passed'[u] + (IF at'[u] \in Waiting THEN 1 ELSE 0)
             /\ at'[u] = "begin" => passed'[u] = 0 /\ temp'[u] = -1
             /\ s.mtag_b = "UNPACKED" => at'[u] \in {"begin", "done"}
             /\ ~Packs => at'[u] \in {"begin", "compute", "release", "done"}
  <2>1. /\ at'[u] = at[u] /\ temp'[u] = temp[u]
        /\ entered'[u] = entered[u] /\ passed'[u] = passed[u]
    BY <1>2, Others
  <2>2. /\ entered[u] = passed[u] + (IF at[u] \in Waiting THEN 1 ELSE 0)
        /\ at[u] = "begin" => passed[u] = 0 /\ temp[u] = -1
        /\ s.mtag_b = "UNPACKED" => at[u] \in {"begin", "done"}
        /\ ~Packs => at[u] \in {"begin", "compute", "release", "done"}
    BY DEF IInv, Control
  <2> QED BY <2>1, <2>2
<1>3. at'[t] # "begin"
  BY Trace
<1>4. s.mtag_b = "UNPACKED" => at'[t] \in {"begin", "done"}
  <2>1. s.mtag_b = "UNPACKED" => at[t] \in {"begin", "done"}
    BY DEF IInv, Control
  <2> QED BY <2>1, Trace
<1>5. ~Packs => at'[t] \in {"begin", "compute", "release", "done"}
  <2>1. ~Packs => at[t] \in {"begin", "compute", "release", "done"}
    BY DEF IInv, Control
  <2> QED BY <2>1, Trace
<1>6. entered'[t] = passed'[t] + (IF at'[t] \in Waiting THEN 1 ELSE 0)
  <2>1. \/ /\ at[t] \notin Waiting /\ at'[t] \notin Waiting
           /\ entered'[t] = entered[t] /\ passed'[t] = passed[t]
        \/ /\ at[t] \notin Waiting /\ at'[t] \in Waiting
           /\ entered'[t] = entered[t] + 1 /\ passed'[t] = passed[t]
        \/ /\ at[t] \in Waiting /\ at'[t] \notin Waiting
           /\ entered'[t] = entered[t] /\ passed'[t] = passed[t] + 1
    BY Trace DEF Waiting
  <2> DEFINE a == IF at[t] \in Waiting THEN 1 ELSE 0
             b == IF at'[t] \in Waiting THEN 1 ELSE 0
  <2>2. \/ a = 0 /\ b = 0 /\ entered'[t] = entered[t] /\ passed'[t] = passed[t]
        \/ a = 0 /\ b = 1 /\ entered'[t] = entered[t] + 1 /\ passed'[t] = passed[t]
        \/ a = 1 /\ b = 0 /\ entered'[t] = entered[t] /\ passed'[t] = passed[t] + 1
    BY <2>1
  <2>3. entered[t] \in Nat /\ passed[t] \in Nat /\ entered[t] = passed[t] + a
    BY <1>0
  <2> HIDE DEF a, b
  <2>4. entered'[t] = passed'[t] + b
    BY <2>2, <2>3
  <2> QED BY <2>4 DEF b
<1> QED
  BY <1>1, <1>2, <1>3, <1>4, <1>5, <1>6 DEF Control

\* The loop variables stay inside the loops.
LEMMA LoopsStep ==
  ASSUME IInv, NEW t \in Threads, Step(t)
  PROVE  Loops'
<1>0. /\ s \in Shapes /\ jc \in [Threads -> Nat] /\ pc \in [Threads -> Nat] /\ ic \in [Threads -> Nat]
      /\ nc0 \in [Threads -> Int] /\ jcs \in [Threads -> [start : Int, end : Int]]
      /\ ics \in [Threads -> [start : Int, end : Int]]
  BY DEF IInv, Typed
<1>1. /\ s' = s /\ Threads' = Threads
      /\ \A u : JcLoop(u)' = JcLoop(u) /\ IcLoop(u)' = IcLoop(u)
      /\ \A j, e : BlockWidth(j, e)' = BlockWidth(j, e)
  BY ShapeFixed, Frozen
<1>2. /\ s.KC \in Nat \ {0} /\ s.k \in Nat \ {0} /\ s.MC \in Nat
      /\ JcLoop(t).start \in Nat /\ JcLoop(t).end \in Nat
      /\ IcLoop(t).start \in Nat /\ IcLoop(t).end \in Nat
  BY <1>0, ShapeFacts, LoopBounds
<1> DEFINE Good(u) ==
      /\ jcs'[u] = JcLoop(u) /\ ics'[u] = IcLoop(u)
      /\ JcLoop(u).start <= jc'[u] /\ IcLoop(u).start <= ic'[u]
      /\ at'[u] \in InBlock <=> jc'[u] < JcLoop(u).end
      /\ nc0'[u] = BlockWidth(jc'[u], JcLoop(u).end)
      /\ pc'[u] < s.k /\ pc'[u] % s.KC = 0
<1>3. ASSUME NEW u \in Threads, u # t, at'[u] # "begin", s.mtag_b # "UNPACKED"
      PROVE  Good(u)
  <2>1. /\ at'[u] = at[u] /\ jcs'[u] = jcs[u] /\ ics'[u] = ics[u]
        /\ jc'[u] = jc[u] /\ pc'[u] = pc[u] /\ ic'[u] = ic[u] /\ nc0'[u] = nc0[u]
    BY <1>3, Others
  <2>2. Begun(u)
    BY <1>3, <2>1 DEF Begun
  <2>3. /\ jcs[u] = JcLoop(u) /\ ics[u] = IcLoop(u)
        /\ JcLoop(u).start <= jc[u] /\ IcLoop(u).start <= ic[u]
        /\ at[u] \in InBlock <=> jc[u] < JcLoop(u).end
        /\ nc0[u] = BlockWidth(jc[u], JcLoop(u).end)
        /\ pc[u] < s.k /\ pc[u] % s.KC = 0
    BY <1>3, <2>2 DEF IInv, Loops
  <2> QED BY <2>1, <2>3
<1>4. ASSUME s.mtag_b # "UNPACKED" PROVE Good(t)
  <2>1. CASE Begin(t)
    <3>1. /\ jcs' = [jcs EXCEPT ![t] = JcLoop(t)] /\ ics' = [ics EXCEPT ![t] = IcLoop(t)]
          /\ jc' = [jc EXCEPT ![t] = JcLoop(t).start]
          /\ nc0' = [nc0 EXCEPT ![t] = BlockWidth(JcLoop(t).start, JcLoop(t).end)]
          /\ pc' = [pc EXCEPT ![t] = 0] /\ ic' = [ic EXCEPT ![t] = IcLoop(t).start]
      BY <1>4, <2>1, BeginEffect
    <3>2. /\ jcs'[t] = JcLoop(t) /\ ics'[t] = IcLoop(t) /\ jc'[t] = JcLoop(t).start
          /\ nc0'[t] = BlockWidth(JcLoop(t).start, JcLoop(t).end) /\ pc'[t] = 0
          /\ ic'[t] = IcLoop(t).start
      BY <1>0, <3>1
    <3>3. at'[t] \in InBlock <=> JcLoop(t).start < JcLoop(t).end
      <4>1. at \in [Threads -> Locations]
        BY DEF IInv, Typed
      <4> QED BY <1>4, <2>1, <4>1, BeginEffect DEF InBlock
    <3>4. 0 % s.KC = 0 /\ 0 < s.k
      BY <1>2
    <3> QED BY <1>2, <3>2, <3>3, <3>4
  <2>2. CASE ~Begin(t)
    <3>1. at[t] # "begin"
      BY <2>2, Trace
    <3>2. /\ jcs[t] = JcLoop(t) /\ ics[t] = IcLoop(t)
          /\ JcLoop(t).start <= jc[t] /\ IcLoop(t).start <= ic[t]
          /\ at[t] \in InBlock <=> jc[t] < JcLoop(t).end
          /\ nc0[t] = BlockWidth(jc[t], JcLoop(t).end)
          /\ pc[t] < s.k /\ pc[t] % s.KC = 0
      BY <1>4, <3>1 DEF IInv, Loops, Begun
    <3>3. CASE NextBlock(t) /\ pc[t] + s.KC < s.k
      <4>1. /\ pc' = [pc EXCEPT ![t] = pc[t] + s.KC] /\ ic' = [ic EXCEPT ![t] = IcLoop(t).start]
            /\ UNCHANGED <<jcs, ics, jc, nc0>>
        BY <3>3, NextDepthEffect
      <4>2. pc'[t] = pc[t] + s.KC /\ ic'[t] = IcLoop(t).start
        BY <1>0, <4>1
      <4>3. at[t] \in InBlock /\ at'[t] \in InBlock
        BY <3>3, Trace, NextDepthEffect DEF InBlock
      <4>4. (pc[t] + s.KC) % s.KC = 0
        BY <1>0, <3>2, NextK
      <4> QED BY <1>2, <3>2, <3>3, <4>1, <4>2, <4>3, <4>4
    <3>4. CASE NextBlock(t) /\ ~(pc[t] + s.KC < s.k)
      <4>1. /\ jc' = [jc EXCEPT ![t] = NextStart(jc[t])]
            /\ nc0' = [nc0 EXCEPT ![t] = BlockWidth(NextStart(jc[t]), JcLoop(t).end)]
            /\ pc' = [pc EXCEPT ![t] = 0] /\ ic' = [ic EXCEPT ![t] = IcLoop(t).start]
            /\ UNCHANGED <<jcs, ics>>
        BY <3>4, NextColumnsEffect
      <4>2. /\ jc'[t] = NextStart(jc[t]) /\ pc'[t] = 0 /\ ic'[t] = IcLoop(t).start
            /\ nc0'[t] = BlockWidth(NextStart(jc[t]), JcLoop(t).end)
        BY <1>0, <4>1
      <4>3. at'[t] \in InBlock <=> NextStart(jc[t]) < JcLoop(t).end
        <5>1. at \in [Threads -> Locations]
          BY DEF IInv, Typed
        <5> QED BY <3>4, <5>1, NextColumnsEffect DEF InBlock
      <4>4. at[t] \in InBlock
        BY <3>4, NextColumnsEffect DEF InBlock
      <4>5. /\ jc[t] \in Nat /\ nc0[t] \in Nat /\ NextStart(jc[t]) \in Nat
            /\ JcLoop(t).start <= jc[t] /\ jc[t] < JcLoop(t).end
            /\ \/ jc[t] + nc0[t] = NextStart(jc[t])
               \/ jc[t] + nc0[t] = JcLoop(t).end /\ JcLoop(t).end <= NextStart(jc[t])
        BY <4>4, BlockAt
      <4>6. JcLoop(t).start <= NextStart(jc[t])
        BY <1>2, <4>5
      <4>7. 0 % s.KC = 0 /\ 0 < s.k
        BY <1>2
      <4> QED BY <1>2, <3>2, <4>1, <4>2, <4>3, <4>6, <4>7
    <3>5. CASE ~NextBlock(t)
      <4>1. UNCHANGED <<jcs, ics, jc, pc, nc0>> /\ (at'[t] \in InBlock <=> at[t] \in InBlock)
        BY <2>2, <3>5, Trace DEF InBlock
      <4>2. ic'[t] = ic[t] \/ ic'[t] = ic[t] + s.MC
        BY <1>0, <2>2, <3>5 DEF Step, SendBuffer, ReceiveBuffer, Pack, PackSlice, Compute, Release,
             Barriers, Arrive, Leave, loops
      <4>3. IcLoop(t).start <= ic'[t]
        BY <1>0, <1>2, <3>2, <4>2
      <4> QED BY <3>2, <4>1, <4>3
    <3> QED BY <3>3, <3>4, <3>5
  <2> QED BY <2>1, <2>2
<1>5. \A u \in Threads : at'[u] # "begin" /\ s.mtag_b # "UNPACKED" => Good(u)
  BY <1>3, <1>4
<1> QED
  BY <1>1, <1>5 DEF Loops, Begun

\* The accumulator stays.
LEMMA AccumulatorStep ==
  ASSUME IInv, NEW t \in Threads, Step(t)
  PROVE  Accumulator'
<1>1. /\ s' = s /\ Threads' = Threads
      /\ \A u : Width(u)' = Width(u) /\ IcLoop(u)' = IcLoop(u)
  BY ShapeFixed, Frozen
<1>2. ASSUME NEW u \in Threads, at'[u] \in InBlock, s.downscale, s.k > s.KC
      PROVE  temp'[u] = Width(u) * (IcLoop(u).end - IcLoop(u).start)
  <2>1. CASE u # t
    BY <1>2, <2>1, Others DEF IInv, Accumulator
  <2>2. CASE u = t /\ Begin(t)
    <3>0. at[t] = "begin"
      BY <2>2 DEF Begin
    <3>1. s.mtag_b # "UNPACKED"
      BY <1>2, <2>2, <3>0, Trace DEF InBlock
    <3>2. JcLoop(t).start < JcLoop(t).end
      <4>1. at \in [Threads -> Locations]
        BY DEF IInv, Typed
      <4> QED BY <1>2, <2>2, <3>1, <4>1, BeginEffect DEF InBlock
    <3>3. temp' = [temp EXCEPT ![t] = Width(t) * (IcLoop(t).end - IcLoop(t).start)]
      BY <1>2, <2>2, <3>1, <3>2, BeginEffect
    <3>4. temp \in [Threads -> Int]
      BY DEF IInv, Typed
    <3> QED BY <2>2, <3>3, <3>4
  <2>3. CASE u = t /\ ~Begin(t)
    <3>1. at[t] \in InBlock
      BY <1>2, <2>3, Trace DEF InBlock
    <3>2. ~Release(t)
      BY <3>1 DEF Release, InBlock
    <3>3. temp' = temp
      <4>1. NextBlock(t) => temp' = temp
        BY NextColumnsEffect, NextDepthEffect
      <4> QED BY <2>3, <3>2, <4>1 DEF Step, SendBuffer, ReceiveBuffer, Pack, PackSlice, Compute,
                Barriers, Arrive, Leave
    <3> QED BY <1>2, <2>3, <3>1, <3>3 DEF IInv, Accumulator
  <2> QED BY <2>1, <2>2, <2>3
<1> QED
  BY <1>1, <1>2 DEF Accumulator

----------------------------------------------------------------------------
(* The invariant is kept: the pace of the team.                            *)

\* A thread's count of finished panels moves with NextBlock only.
LEMMA BaseStep ==
  ASSUME IInv, Packs, NEW t \in Threads, Step(t)
  PROVE  /\ \A u \in Threads : u # t => Base(u)' = Base(u) /\ (Begun(u)' <=> Begun(u))
         /\ Begun(t)'
         /\ Begin(t) => Base(t) = 0 /\ ~Begun(t)
         /\ ~Begin(t) => Begun(t)
         /\ NextBlock(t) => Base(t)' = Base(t) + 2
         /\ ~NextBlock(t) => Base(t)' = Base(t)
<1>0. Typed /\ Control /\ s.mtag_b # "UNPACKED"
  BY DEF IInv, Packs
<1>1. ASSUME NEW u \in Threads, u # t
      PROVE  Base(u)' = Base(u) /\ (Begun(u)' <=> Begun(u))
  <2>1. at'[u] = at[u] /\ passed'[u] = passed[u]
    BY <1>1, Others
  <2>2. Off(u)' = Off(u)
    BY <2>1 DEF Off
  <2> QED BY <2>1, <2>2 DEF Base, Begun
<1>2. Begun(t)'
  BY Trace DEF Begun
<1>3. Begin(t) => Base(t) = 0 /\ ~Begun(t)
  BY <1>0, Places DEF Begin, Begun
<1>4. ~Begin(t) => Begun(t)
  BY Trace DEF Begun
<1>5. /\ passed[t] \in Nat /\ Base(t) = passed[t] - Off(t) /\ Base(t)' = passed'[t] - Off(t)'
      /\ Off(t) \in 0 .. 2
  BY <1>0, Places DEF Base, Off
<1>6. ASSUME NextBlock(t) PROVE Base(t)' = Base(t) + 2
  <2>0. at[t] = "compute"
    BY <1>6 DEF NextBlock
  <2>1. /\ at'[t] \in {"send", "arriveLast"} /\ passed'[t] = passed[t]
    <3>1. at'[t] \in {"send", "arriveLast"}
      BY <1>6, <2>0, Trace, NextDepthEffect, NextColumnsEffect DEF IInv, Typed
    <3>2. passed' = passed
      BY <1>6 DEF NextBlock
    <3> QED BY <3>1, <3>2
  <2>2. Off(t) = 2 /\ Off(t)' = 0
    BY <2>0, <2>1 DEF Off
  <2> QED BY <1>5, <2>1, <2>2
<1>7. ASSUME ~NextBlock(t) PROVE Base(t)' = Base(t)
  <2>1. \/ passed'[t] = passed[t] /\ Off(t)' = Off(t)
        \/ passed'[t] = passed[t] + 1 /\ Off(t)' = Off(t) + 1
    <3>1. CASE Begin(t)
      <4>0. at[t] = "begin"
        BY <3>1 DEF Begin
      <4>1. at'[t] \in {"send", "arriveLast"} /\ passed'[t] = passed[t]
        BY <1>0, <4>0, Trace
      <4> QED BY <4>0, <4>1 DEF Off
    <3>2. CASE ~Begin(t) /\ passed'[t] = passed[t]
      <4>1. Off(t)' = Off(t) \/ passed'[t] = passed[t] + 1
        BY <1>7, <3>2, Trace DEF Off
      <4>2. passed[t] # passed[t] + 1
        BY <1>5
      <4> QED BY <3>2, <4>1, <4>2
    <3>3. CASE ~Begin(t) /\ passed'[t] # passed[t]
      <4>1. /\ \/ at[t] = "waitAlloc" /\ at'[t] = "receive"
               \/ at[t] = "waitPack" /\ at'[t] = "compute"
               \/ at[t] = "waitLast" /\ at'[t] = "release"
            /\ passed'[t] = passed[t] + 1
        BY <1>7, <3>3, Trace
      <4> QED BY <4>1 DEF Off
    <3> QED BY <3>1, <3>2, <3>3
  <2> QED BY <1>5, <2>1
<1> QED
  BY <1>1, <1>2, <1>3, <1>4, <1>6, <1>7

\* NextBlock leads from a panel to the next.
LEMMA NextPanelStep ==
  ASSUME IInv, NEW t \in Threads, NextBlock(t)
  PROVE  Panel(t)' = NextPanel(jc[t], pc[t])
<1>0. jc \in [Threads -> Nat] /\ pc \in [Threads -> Nat]
  BY DEF IInv, Typed
<1>1. CASE pc[t] + s.KC < s.k
  <2>1. pc' = [pc EXCEPT ![t] = pc[t] + s.KC] /\ jc' = jc
    BY <1>1, NextDepthEffect
  <2> QED BY <1>0, <1>1, <2>1 DEF Panel, NextPanel
<1>2. CASE ~(pc[t] + s.KC < s.k)
  <2>1. jc' = [jc EXCEPT ![t] = NextStart(jc[t])] /\ pc' = [pc EXCEPT ![t] = 0]
    BY <1>2, NextColumnsEffect
  <2> QED BY <1>0, <1>2, <2>1 DEF Panel, NextPanel
<1> QED BY <1>1, <1>2

\* The team stays in step.
LEMMA LockstepStep ==
  ASSUME IInv, NEW t \in Threads, Step(t)
  PROVE  Lockstep'
<1>1. /\ s' = s /\ Threads' = Threads /\ Packs' = Packs
      /\ \A u : JcLoop(u)' = JcLoop(u) /\ TeamOf(u)' = TeamOf(u)
      /\ \A j, p : NextPanel(j, p)' = NextPanel(j, p)
  BY ShapeFixed, Frozen
<1> SUFFICES ASSUME Packs
             PROVE  /\ \A u \in Threads :
                         /\ Base(u)' >= 0
                         /\ Begun(u)' /\ Base(u)' = 0 => jc'[u] = JcLoop(u).start /\ pc'[u] = 0
                    /\ \A x \in Threads : \A y \in TeamOf(x) : InStep(x, y)'
  BY <1>1 DEF Lockstep
<1>0. Typed /\ Control /\ s \in Shapes /\ s.mtag_b # "UNPACKED"
  BY DEF IInv, Typed, Packs
<1>2. /\ \A u \in Threads : Base(u) \in Int /\ Base(u) >= 0
      /\ \A u \in Threads : passed[u] \in Nat /\ entered[u] \in Nat
  <2>1. \A u \in Threads : Base(u) >= 0
    BY DEF IInv, Lockstep
  <2> QED BY <1>0, <2>1, Places
<1>3. /\ \A u \in Threads : u # t => Base(u)' = Base(u) /\ (Begun(u)' <=> Begun(u))
      /\ Begun(t)'
      /\ Begin(t) => Base(t) = 0 /\ ~Begun(t)
      /\ ~Begin(t) => Begun(t)
      /\ NextBlock(t) => Base(t)' = Base(t) + 2
      /\ ~NextBlock(t) => Base(t)' = Base(t)
  BY BaseStep
<1>4. ASSUME NEW u \in Threads PROVE Base(u)' >= 0 /\ Base(u)' \in Int
  BY <1>2, <1>3
<1>5. ASSUME NEW u \in Threads, Begun(u)', Base(u)' = 0
      PROVE  jc'[u] = JcLoop(u).start /\ pc'[u] = 0
  <2>1. CASE u # t
    <3>1. jc'[u] = jc[u] /\ pc'[u] = pc[u]
      BY <2>1, Others
    <3>2. Begun(u) /\ Base(u) = 0
      BY <1>3, <1>5, <2>1
    <3> QED BY <3>1, <3>2 DEF IInv, Lockstep
  <2>2. CASE u = t /\ Begin(t)
    <3>1. jc' = [jc EXCEPT ![t] = JcLoop(t).start] /\ pc' = [pc EXCEPT ![t] = 0]
      BY <1>0, <2>2, BeginEffect
    <3>2. jc \in [Threads -> Nat] /\ pc \in [Threads -> Nat]
      BY DEF IInv, Typed
    <3> QED BY <2>2, <3>1, <3>2
  <2>3. CASE u = t /\ ~Begin(t)
    <3>1. ~NextBlock(t)
      BY <1>2, <1>3, <1>5, <2>3
    <3>2. jc' = jc /\ pc' = pc
      BY <2>3, <3>1, Trace
    <3>3. Begun(t) /\ Base(t) = 0
      BY <1>3, <1>5, <2>3, <3>1
    <3> QED BY <2>3, <3>2, <3>3 DEF IInv, Lockstep
  <2> QED BY <2>1, <2>2, <2>3
<1>6. ASSUME NEW x \in Threads, NEW y \in TeamOf(x)
      PROVE  passed'[x] <= entered'[y]
  <2>0. y \in Threads /\ passed[x] <= entered[y]
    BY <1>6, Together DEF InStep
  <2>1. \A u \in Threads : u # t => entered'[u] = entered[u] /\ passed'[u] = passed[u]
    BY Others
  <2>2. \/ entered'[t] = entered[t] /\ passed'[t] = passed[t]
        \/ entered'[t] = entered[t] + 1 /\ passed'[t] = passed[t]
        \/ /\ entered'[t] = entered[t] /\ passed'[t] = passed[t] + 1
           /\ at[t] \in {"waitAlloc", "waitPack", "waitLast"}
           /\ \A u \in TeamOf(t) : entered[t] <= entered[u]
    BY Trace
  <2>3. entered'[y] \in Nat /\ entered[y] <= entered'[y]
    BY <1>2, <2>0, <2>1, <2>2
  <2>4. CASE passed'[x] = passed[x]
    BY <1>2, <2>0, <2>3, <2>4
  <2>5. CASE passed'[x] # passed[x]
    <3>1. x = t
      BY <2>1, <2>5
    <3>2. /\ passed'[t] = passed[t] + 1 /\ at[t] \in Waiting
          /\ \A u \in TeamOf(t) : entered[t] <= entered[u]
      BY <2>2, <2>5, <3>1 DEF Waiting
    <3>3. entered[t] = passed[t] + 1
      BY <3>2 DEF IInv, Control
    <3>4. entered[t] <= entered[y]
      BY <1>6, <3>1, <3>2
    <3> QED BY <1>2, <2>0, <2>3, <3>1, <3>2, <3>3, <3>4
  <2> QED BY <2>4, <2>5
<1> DEFINE Apart(x, y) ==
      /\ Base(y)' \in {Base(x)' - 2, Base(x)', Base(x)' + 2}
      /\ Base(y)' = Base(x)' => Panel(y)' = Panel(x)'
      /\ Base(y)' = Base(x)' + 2 =>
           at'[x] \in InBlock /\ Panel(y)' = NextPanel(jc'[x], pc'[x])
<1>7. ASSUME NEW x \in Threads, NEW y \in TeamOf(x), Begun(x)', Begun(y)'
      PROVE  Apart(x, y)
  <2>0. y \in Threads /\ x \in TeamOf(y)
    BY <1>7 DEF TeamOf
  <2>1. CASE x = y
    BY <1>4, <1>7, <2>0, <2>1
  <2>2. CASE x # t /\ y # t
    <3>1. Base(x)' = Base(x) /\ Base(y)' = Base(y) /\ Begun(x) /\ Begun(y)
      BY <1>3, <1>7, <2>0, <2>2
    <3>2. /\ at'[x] = at[x] /\ jc'[x] = jc[x] /\ pc'[x] = pc[x]
          /\ jc'[y] = jc[y] /\ pc'[y] = pc[y]
      BY <2>0, <2>2, Others
    <3>3. Panel(x)' = Panel(x) /\ Panel(y)' = Panel(y)
      BY <3>2 DEF Panel
    <3>4. InStep(x, y)
      BY Together
    <3> QED BY <3>1, <3>2, <3>3, <3>4 DEF InStep
  <2>3. ASSUME NEW u \in TeamOf(t), u # t, Begun(u)'
        PROVE  Apart(t, u) /\ Apart(u, t)
    <3>0. u \in Threads /\ t \in TeamOf(u) /\ JcLoop(u) = JcLoop(t) /\ InStep(t, u) /\ InStep(u, t)
      BY Together
    <3>1. Base(u)' = Base(u) /\ Begun(u) /\ Base(u) \in Int /\ Base(t) \in Int
      BY <1>2, <1>3, <2>3, <3>0
    <3>2. at'[u] = at[u] /\ jc'[u] = jc[u] /\ pc'[u] = pc[u]
      BY <2>3, <3>0, Others
    <3>3. Panel(u)' = Panel(u) /\ Panel(u) = <<jc[u], pc[u]>>
      BY <3>2 DEF Panel
    <3>4. CASE NextBlock(t)
      <4>1. at[t] = "compute" /\ at[t] \in InBlock /\ Begun(t)
        BY <3>4 DEF NextBlock, InBlock, Begun
      <4>2. Panel(t)' = NextPanel(jc[t], pc[t])
        BY <3>4, NextPanelStep
      <4>3. Base(t)' = Base(t) + 2
        BY <1>3, <3>4
      <4>4. CASE Base(u) = Base(t) + 2
        <5>1. Base(u)' = Base(t)' /\ Base(u)' # Base(t)' + 2 /\ Base(t)' # Base(u)' + 2
          BY <3>1, <4>3, <4>4
        <5>2. Panel(u)' = Panel(t)'
          BY <3>0, <3>1, <3>3, <4>1, <4>2, <4>4 DEF InStep
        <5> QED BY <5>1, <5>2
      <4>5. CASE Base(u) = Base(t)
        <5>1. /\ Base(t)' = Base(u)' + 2 /\ Base(u)' = Base(t)' - 2
              /\ Base(u)' # Base(t)' /\ Base(u)' # Base(t)' + 2
          BY <3>1, <4>3, <4>5
        <5>2. jc[u] = jc[t] /\ pc[u] = pc[t] /\ at[u] \in InBlock
          BY <3>1, <4>1, <4>5, SamePanel
        <5> QED BY <3>2, <4>2, <5>1, <5>2
      <4> QED BY <4>1, <4>4, <4>5, ComputeRound
    <3>5. CASE Begin(t)
      <4>1. at[t] = "begin"
        BY <3>5 DEF Begin
      <4>2. entered[t] = 0 /\ Base(t) = 0
        BY <1>0, <4>1, Places
      <4>3. passed[u] <= entered[t]
        BY <3>0 DEF InStep
      <4>4. Base(u) = 0
        <5>1. Off(u) \in 0 .. 2 /\ Base(u) = passed[u] - Off(u)
          BY DEF Base, Off
        <5> QED BY <1>2, <3>0, <4>2, <4>3, <5>1
      <4>5. jc[u] = JcLoop(t).start /\ pc[u] = 0
        BY <3>0, <3>1, <4>4 DEF IInv, Lockstep
      <4>6. ~NextBlock(t)
        BY <4>1 DEF NextBlock
      <4>7. Base(t)' = 0
        BY <1>3, <4>2, <4>6
      <4>8. Panel(t)' = Panel(u)'
        <5>1. jc' = [jc EXCEPT ![t] = JcLoop(t).start] /\ pc' = [pc EXCEPT ![t] = 0]
          BY <1>0, <3>5, BeginEffect
        <5>2. jc \in [Threads -> Nat] /\ pc \in [Threads -> Nat]
          BY DEF IInv, Typed
        <5>3. jc'[t] = JcLoop(t).start /\ pc'[t] = 0
          BY <5>1, <5>2
        <5> QED BY <3>2, <4>5, <5>3 DEF Panel
      <4>9. Base(u)' = Base(t)' /\ Base(u)' # Base(t)' + 2 /\ Base(t)' # Base(u)' + 2
        BY <3>1, <4>4, <4>7
      <4> QED BY <4>8, <4>9
    <3>6. CASE ~NextBlock(t) /\ ~Begin(t)
      <4>1. Base(t)' = Base(t) /\ Begun(t)
        BY <1>3, <3>6
      <4>2. jc' = jc /\ pc' = pc /\ (at'[t] \in InBlock <=> at[t] \in InBlock)
        BY <3>6, Trace DEF InBlock
      <4>3. Panel(t)' = Panel(t)
        BY <4>2 DEF Panel
      <4> QED BY <3>0, <3>1, <3>2, <3>3, <4>1, <4>2, <4>3 DEF InStep
    <3> QED BY <3>4, <3>5, <3>6
  <2> QED BY <1>7, <2>0, <2>1, <2>2, <2>3
<1>8. ASSUME NEW x \in Threads, NEW y \in TeamOf(x)
      PROVE  InStep(x, y)'
  <2>1. Begun(x)' /\ Begun(y)' => Apart(x, y)
    BY <1>7
  <2>2. NextPanel(jc'[x], pc'[x]) = NextPanel(jc[x], pc[x])'
    BY <1>1 DEF NextPanel, NextStart, PanelStart, Reordered
  <2> QED BY <1>6, <2>1, <2>2 DEF InStep
<1> QED
  BY <1>4, <1>5, <1>8

----------------------------------------------------------------------------
(* The invariant is kept: the buffers.                                     *)

\* The heads of the teams see the buffer that was sent.
LEMMA BuffersStep ==
  ASSUME IInv, NEW t \in Threads, Step(t)
  PROVE  Buffers'
<1>0. /\ s \in Shapes /\ buf \in [Threads -> Nat] /\ sent_object \in [Teams -> Nat]
      /\ heap \in Seq(PackBuffers) /\ Len(heap) \in Nat
  BY DEF IInv, Typed
<1>1. /\ s' = s /\ Threads' = Threads /\ Teams' = Teams /\ Packs' = Packs
      /\ \A u : /\ JcId(u)' = JcId(u) /\ (Chief(u)' <=> Chief(u))
                /\ Width(u)' = Width(u) /\ Size(u)' = Size(u)
  BY ShapeFixed, Frozen
<1>2. \A u \in Threads : u # t => at'[u] = at[u] /\ buf'[u] = buf[u]
  BY Others
<1>3. \A u \in Threads : JcId(u) \in Teams
  BY <1>0, Ids
<1>a. ASSUME NEW u \in Threads, Chief(u), at[u] # "done" PROVE buf[u] = Sent(u)
  BY <1>a DEF IInv, Buffers
<1>b. ASSUME Packs, NEW u \in Threads
      PROVE  /\ at[u] \in Holding => buf[u] = Sent(u)
             /\ Chief(u) /\ (at[u] \in PastSend \/ Base(u) > 0) => Sent(u) # 0
  BY <1>b DEF IInv, Buffers
<1>c. /\ ~Packs => Len(heap) = 0
      /\ \A g \in Teams : sent_object[g] <= Len(heap)
      /\ \A g, h \in Teams : sent_object[g] # 0 /\ sent_object[g] = sent_object[h] => g = h
      /\ \A b \in 1 .. Len(heap) : \E g \in Teams : sent_object[g] = b
  BY DEF IInv, Buffers
<1>d. ASSUME NEW u \in Threads, Chief(u), Sent(u) # 0
      PROVE  /\ heap[Sent(u)].live <=> at[u] # "done"
             /\ heap[Sent(u)].size = Size(u)
             /\ DOMAIN heap[Sent(u)].panel = 0 .. Width(u) - 1
             /\ DOMAIN heap[Sent(u)].sums = 0 .. Width(u) - 1
  BY <1>d DEF IInv, Buffers
<1>e. \A u \in Threads : Sent(u) # 0 => Sent(u) \in 1 .. Len(heap) /\ Packs
  <2>1. ASSUME NEW u \in Threads, Sent(u) # 0 PROVE Sent(u) \in 1 .. Len(heap) /\ Packs
    <3>1. Sent(u) \in Nat /\ Sent(u) <= Len(heap)
      BY <1>0, <1>3, <1>c DEF Sent
    <3> QED BY <1>0, <1>c, <2>1, <3>1
  <2> QED BY <2>1
<1>p. ASSUME Packs
      PROVE  /\ \A u \in Threads : u # t => Base(u)' = Base(u)
             /\ NextBlock(t) \/ Base(t)' = Base(t)
  BY <1>p, BaseStep
\* The steps that leave the buffers alone.
<1>4. ASSUME UNCHANGED <<heap, buf, sent_object>>,
             Chief(t) /\ at[t] = "send" => Sent(t) # 0,
             at[t] # "release"
      PROVE  Buffers'
  <2>1. \A u \in Threads : Sent(u)' = Sent(u)
    BY <1>1, <1>4 DEF Sent
  <2>2. ASSUME NEW u \in Threads, Chief(u), at'[u] # "done" PROVE buf'[u] = Sent(u)'
    <3>1. at[u] # "done"
      BY <1>2, <1>4, <2>2, Trace
    <3> QED BY <1>4, <1>a, <2>1, <2>2, <3>1
  <2>3. ASSUME Packs, NEW u \in Threads, at'[u] \in Holding PROVE buf'[u] = Sent(u)'
    <3>1. u # t => at[u] \in Holding
      BY <1>2, <2>3
    <3>2. at[t] = "receive" => at'[t] = "pack" /\ ReceiveBuffer(t)
      BY Trace
    <3>3. ASSUME u = t, ~ReceiveBuffer(t) PROVE at[u] \in Holding
      BY <2>3, <3>3, Trace DEF Holding, Packs
    <3>4. ASSUME u = t, ReceiveBuffer(t) PROVE buf'[u] = Sent(u)'
      BY <1>0, <2>1, <2>3, <3>4 DEF ReceiveBuffer, Sent
    <3> QED BY <1>4, <1>b, <2>1, <2>3, <3>1, <3>3, <3>4
  <2>4. ASSUME Packs, NEW u \in Threads, Chief(u), at'[u] \in PastSend \/ Base(u)' > 0
        PROVE  Sent(u)' # 0
    <3>1. CASE u # t
      BY <1>2, <1>b, <1>p, <2>1, <2>4, <3>1
    <3>2. CASE u = t
      <4>1. NextBlock(t) => at[t] \in PastSend
        BY DEF NextBlock, PastSend, InBlock
      <4>2. at'[t] \in PastSend => at[t] \in PastSend \/ at[t] = "send"
        BY <2>4, Trace DEF PastSend, InBlock, Packs
      <4> QED BY <1>4, <1>b, <1>p, <2>1, <2>4, <3>2, <4>1, <4>2
    <3> QED BY <3>1, <3>2
  <2>5. ASSUME NEW u \in Threads, Chief(u), Sent(u)' # 0
        PROVE  /\ heap'[Sent(u)'].live <=> at'[u] # "done"
               /\ heap'[Sent(u)'].size = Size(u)
               /\ DOMAIN heap'[Sent(u)'].panel = 0 .. Width(u) - 1
               /\ DOMAIN heap'[Sent(u)'].sums = 0 .. Width(u) - 1
    <3>1. at'[u] = "done" <=> at[u] = "done"
      <4>1. CASE u # t
        BY <1>2, <4>1
      <4>2. CASE u = t
        <5>1. s.mtag_b # "UNPACKED"
          BY <1>e, <2>1, <2>5 DEF Packs
        <5> QED BY <1>4, <4>2, <5>1, Trace
      <4> QED BY <4>1, <4>2
    <3> QED BY <1>4, <1>d, <2>1, <2>5, <3>1
  <2> QED BY <1>1, <1>4, <1>c, <2>2, <2>3, <2>4, <2>5 DEF Buffers
\* The steps that keep the buffers' owners and sizes.
<1>5. ASSUME UNCHANGED sent_object, Len(heap') = Len(heap),
             \A u \in Threads : Chief(u) /\ Sent(u) # 0 =>
               /\ heap'[Sent(u)].live <=> at'[u] # "done"
               /\ heap'[Sent(u)].size = heap[Sent(u)].size
               /\ DOMAIN heap'[Sent(u)].panel = DOMAIN heap[Sent(u)].panel
               /\ DOMAIN heap'[Sent(u)].sums = DOMAIN heap[Sent(u)].sums,
             at[t] \in {"receive", "pack", "release"},
             at'[t] \in Holding => buf'[t] = Sent(t),
             at'[t] # "done" => buf'[t] = Sent(t)
      PROVE  Buffers'
  <2>1. \A u \in Threads : Sent(u)' = Sent(u)
    BY <1>1, <1>5 DEF Sent
  <2>2. ASSUME NEW u \in Threads, Chief(u), at'[u] # "done" PROVE buf'[u] = Sent(u)'
    BY <1>2, <1>5, <1>a, <2>1, <2>2
  <2>3. ASSUME Packs, NEW u \in Threads, at'[u] \in Holding PROVE buf'[u] = Sent(u)'
    BY <1>2, <1>5, <1>b, <2>1, <2>3
  <2>4. ASSUME Packs, NEW u \in Threads, Chief(u), at'[u] \in PastSend \/ Base(u)' > 0
        PROVE  Sent(u)' # 0
    <3>1. CASE u # t
      BY <1>2, <1>b, <1>p, <2>1, <2>4, <3>1
    <3>2. CASE u = t
      <4>1. ~NextBlock(t)
        BY <1>5 DEF NextBlock
      <4>2. at'[t] \in PastSend => at[t] \in PastSend
        BY <1>5, Trace DEF PastSend, InBlock
      <4> QED BY <1>b, <1>p, <2>1, <2>4, <3>2, <4>1, <4>2
    <3> QED BY <3>1, <3>2
  <2>5. ASSUME NEW u \in Threads, Chief(u), Sent(u)' # 0
        PROVE  /\ heap'[Sent(u)'].live <=> at'[u] # "done"
               /\ heap'[Sent(u)'].size = Size(u)
               /\ DOMAIN heap'[Sent(u)'].panel = 0 .. Width(u) - 1
               /\ DOMAIN heap'[Sent(u)'].sums = 0 .. Width(u) - 1
    BY <1>5, <1>d, <2>1, <2>5
  <2> QED BY <1>1, <1>5, <1>c, <2>2, <2>3, <2>4, <2>5 DEF Buffers
\* The step that allocates.
<1>6. ASSUME SendBuffer(t), ~UNCHANGED <<heap, buf, sent_object>>
      PROVE  Buffers'
  <2> DEFINE L == Len(heap) + 1
             me == JcId(t)
  <2>1. /\ Chief(t) /\ Packs /\ Base(t) = 0 /\ Sent(t) = 0 /\ buf[t] = 0
        /\ Len(heap') = L /\ \A b \in 1 .. Len(heap) : heap'[b] = heap[b]
        /\ heap'[L].live /\ heap'[L].size = Size(t)
        /\ DOMAIN heap'[L].panel = 0 .. Width(t) - 1
        /\ DOMAIN heap'[L].sums = 0 .. Width(t) - 1
        /\ buf' = [buf EXCEPT ![t] = L]
        /\ sent_object' = [sent_object EXCEPT ![me] = L]
    BY <1>6, SendEffect
  <2>2. at[t] = "send" /\ at'[t] = "arriveAlloc"
    <3>1. at[t] = "send"
      BY <1>6 DEF SendBuffer
    <3> QED BY <3>1, Trace
  <2>3. me \in Teams /\ L \in Nat /\ L # 0 /\ L \notin 1 .. Len(heap)
    BY <1>0, <1>3
  <2>4. buf'[t] = L /\ sent_object'[me] = L /\ \A g \in Teams : g # me => sent_object'[g] = sent_object[g]
    BY <1>0, <2>1, <2>3
  <2>5. sent_object[me] = 0
    BY <2>1 DEF Sent
  <2>6. \A u \in Threads : Sent(u)' = IF JcId(u) = me THEN L ELSE Sent(u)
    <3>1. \A u \in Threads : Sent(u)' = sent_object'[JcId(u)]
      BY <1>1 DEF Sent
    <3> QED BY <1>3, <2>4, <3>1 DEF Sent
  <2>7. \A g \in Teams : g # me => sent_object[g] \in Nat /\ sent_object[g] <= Len(heap)
    BY <1>0, <1>c
  <2>8. \A u \in Threads : Chief(u) /\ u # t => JcId(u) # me
    BY <1>0, <2>1, ChiefOnce
  <2>9. ASSUME NEW u \in Threads, Chief(u), at'[u] # "done" PROVE buf'[u] = Sent(u)'
    BY <1>2, <1>a, <2>4, <2>6, <2>8, <2>9
  <2>10. ASSUME NEW u \in Threads, at'[u] \in Holding PROVE buf'[u] = Sent(u)'
    <3>1. u # t
      BY <2>2, <2>10 DEF Holding
    <3>2. at[u] \in Holding
      BY <1>2, <2>10, <3>1
    <3>3. Sent(u) # 0
      BY <2>1, <3>2, ChiefBusy DEF Holding
    <3>4. JcId(u) # me
      BY <2>5, <3>3 DEF Sent
    <3> QED BY <1>2, <1>b, <2>1, <2>6, <3>1, <3>2, <3>4
  <2>11. ASSUME NEW u \in Threads, Chief(u), at'[u] \in PastSend \/ Base(u)' > 0
         PROVE  Sent(u)' # 0
    <3>1. CASE u = t
      BY <2>3, <2>6, <3>1
    <3>2. CASE u # t
      <4>1. at[u] \in PastSend \/ Base(u) > 0
        BY <1>2, <1>p, <2>1, <2>11, <3>2
      <4>2. Sent(u) # 0
        BY <1>b, <2>1, <2>11, <4>1
      <4> QED BY <2>6, <2>8, <2>11, <3>2, <4>2
    <3> QED BY <3>1, <3>2
  <2>12. ASSUME NEW u \in Threads, Chief(u), Sent(u)' # 0
        PROVE  /\ heap'[Sent(u)'].live <=> at'[u] # "done"
               /\ heap'[Sent(u)'].size = Size(u)
               /\ DOMAIN heap'[Sent(u)'].panel = 0 .. Width(u) - 1
               /\ DOMAIN heap'[Sent(u)'].sums = 0 .. Width(u) - 1
    <3>1. CASE u = t
      BY <2>1, <2>2, <2>6, <3>1
    <3>2. CASE u # t
      <4>1. Sent(u)' = Sent(u) /\ Sent(u) # 0
        BY <2>6, <2>8, <2>12, <3>2
      <4>2. heap'[Sent(u)] = heap[Sent(u)]
        BY <1>e, <2>1, <4>1
      <4> QED BY <1>2, <1>d, <2>12, <3>2, <4>1, <4>2
    <3> QED BY <3>1, <3>2
  <2>13. \A g \in Teams : sent_object'[g] <= Len(heap')
    BY <1>0, <2>1, <2>3, <2>4, <2>7
  <2>14. \A g, h \in Teams : sent_object'[g] # 0 /\ sent_object'[g] = sent_object'[h] => g = h
    <3>1. \A g \in Teams : g # me => sent_object'[g] # L
      BY <1>0, <2>4, <2>7
    <3> QED BY <1>c, <2>4, <3>1
  <2>15. \A b \in 1 .. Len(heap') : \E g \in Teams : sent_object'[g] = b
    <3>1. ASSUME NEW b \in 1 .. Len(heap') PROVE \E g \in Teams : sent_object'[g] = b
      <4>1. CASE b = L
        BY <2>3, <2>4, <4>1
      <4>2. CASE b # L
        <5>1. b \in 1 .. Len(heap) /\ b # 0
          BY <1>0, <2>1, <4>2
        <5>2. PICK g \in Teams : sent_object[g] = b
          BY <1>c, <5>1
        <5>3. g # me
          BY <2>5, <5>1, <5>2
        <5> QED BY <2>4, <5>2, <5>3
      <4> QED BY <4>1, <4>2
    <3> QED BY <3>1
  <2> QED BY <1>1, <2>1, <2>9, <2>10, <2>11, <2>12, <2>13, <2>14, <2>15 DEF Buffers
<1>7. CASE SendBuffer(t)
  <2>1. at[t] = "send"
    BY <1>7 DEF SendBuffer
  <2>2. CASE UNCHANGED <<heap, buf, sent_object>>
    <3>1. Chief(t) => Sent(t) # 0
      <4>1. ASSUME Len(heap') = Len(heap) + 1 PROVE FALSE
        BY <1>0, <2>2, <4>1
      <4> QED BY <1>7, <4>1, SendEffect
    <3> QED BY <1>4, <2>1, <2>2, <3>1
  <2> QED BY <1>6, <1>7, <2>2
<1>8. CASE ReceiveBuffer(t)
  <2>1. /\ at[t] = "receive" /\ UNCHANGED <<sent_object, heap>>
        /\ buf' = [buf EXCEPT ![t] = sent_object[JcId(t)]]
    BY <1>8 DEF ReceiveBuffer
  <2>2. buf'[t] = Sent(t)
    BY <1>0, <2>1 DEF Sent
  <2>3. at'[t] = "pack"
    BY <2>1, Trace
  <2>4. \A u \in Threads : at'[u] = "done" <=> at[u] = "done"
    BY <1>2, <2>1, <2>3
  <2> QED BY <1>5, <1>d, <2>1, <2>2, <2>4
<1>9. CASE Pack(t)
  <2>1. at[t] = "pack" /\ PackSlice(t) /\ UNCHANGED <<sent_object, buf>>
    BY <1>9 DEF Pack, PackSlice
  <2>2. /\ Packs /\ Len(heap') = Len(heap)
        /\ \A b \in 1 .. Len(heap) :
             /\ heap'[b].live <=> heap[b].live
             /\ heap'[b].size = heap[b].size
             /\ DOMAIN heap'[b].panel = DOMAIN heap[b].panel
             /\ DOMAIN heap'[b].sums = DOMAIN heap[b].sums
    BY <2>1, PackEffect
  <2>3. at'[t] = "arrivePack"
    BY <2>1, Trace
  <2>4. \A u \in Threads : at'[u] = "done" <=> at[u] = "done"
    BY <1>2, <2>1, <2>3
  <2>5. buf'[t] = Sent(t)
    BY <1>b, <2>1, <2>2 DEF Holding
  <2> QED BY <1>5, <1>d, <1>e, <2>1, <2>2, <2>4, <2>5
<1>10. CASE Release(t)
  <2>1. at[t] = "release" /\ UNCHANGED sent_object
    BY <1>10 DEF Release
  <2>2. /\ Len(heap') = Len(heap)
        /\ \A b \in 1 .. Len(heap) :
             /\ heap'[b].live <=> heap[b].live /\ ~(Chief(t) /\ Sent(t) = b)
             /\ heap'[b].size = heap[b].size
             /\ heap'[b].panel = heap[b].panel /\ heap'[b].sums = heap[b].sums
    BY <1>10, ReleaseEffect
  <2>3. at'[t] = "done"
    BY <2>1, Trace
  <2>4. ASSUME NEW u \in Threads, Chief(u), Sent(u) # 0
        PROVE  /\ heap'[Sent(u)].live <=> at'[u] # "done"
               /\ heap'[Sent(u)].size = heap[Sent(u)].size
               /\ DOMAIN heap'[Sent(u)].panel = DOMAIN heap[Sent(u)].panel
               /\ DOMAIN heap'[Sent(u)].sums = DOMAIN heap[Sent(u)].sums
    <3>1. Sent(u) \in 1 .. Len(heap)
      BY <1>e, <2>4
    <3>2. /\ heap'[Sent(u)].size = heap[Sent(u)].size
          /\ heap'[Sent(u)].panel = heap[Sent(u)].panel /\ heap'[Sent(u)].sums = heap[Sent(u)].sums
          /\ heap'[Sent(u)].live <=> heap[Sent(u)].live /\ ~(Chief(t) /\ Sent(t) = Sent(u))
      BY <2>2, <3>1
    <3>3. CASE u = t
      BY <2>3, <2>4, <3>2, <3>3
    <3>4. CASE u # t
      <4>1. ~(Chief(t) /\ Sent(t) = Sent(u))
        <5>1. SUFFICES ASSUME Chief(t), Sent(t) = Sent(u) PROVE FALSE
          OBVIOUS
        <5>2. JcId(t) = JcId(u)
          BY <1>3, <1>c, <2>4, <5>1 DEF Sent
        <5> QED BY <1>0, <2>4, <3>4, <5>1, <5>2, ChiefOnce
      <4> QED BY <1>2, <1>d, <2>4, <3>2, <3>4, <4>1
    <3> QED BY <3>2, <3>3, <3>4
  <2>5. at'[t] \notin Holding
    BY <2>3 DEF Holding
  <2> QED BY <1>5, <2>1, <2>2, <2>3, <2>4, <2>5
<1>11. CASE Begin(t) \/ Compute(t) \/ NextBlock(t) \/ Barriers(t)
  <2>1. UNCHANGED <<heap, buf, sent_object>>
    BY <1>11 DEF Begin, Compute, NextBlock, Barriers, Arrive, Leave
  <2>2. at[t] # "send" /\ at[t] # "release"
    BY <1>11 DEF Begin, Compute, NextBlock, Barriers, Arrive, Leave
  <2> QED BY <1>4, <2>1, <2>2
<1> QED
  BY <1>7, <1>8, <1>9, <1>10, <1>11 DEF Step

----------------------------------------------------------------------------
(* The invariant is kept: the contents of the buffers.                     *)

\* The sums of a panel's columns take in that panel.
LEMMA PanelsGrow ==
  ASSUME IInv, NEW t \in Threads, at[t] \in InBlock
  PROVE  /\ PanelsUpTo(t) = PanelsBefore(t) \cup {Panel(t)}
         /\ pc[t] = 0 => PanelsUpTo(t) = {Panel(t)}
<1> DEFINE p == pc[t]
           d == s.KC
           j == jc[t]
           Up == {y \in 0 .. p : y % d = 0}
           Before == {y \in 0 .. p - 1 : y % d = 0}
<1>1. p \in Nat /\ d \in Nat \ {0} /\ p % d = 0
  <2>1. s \in Shapes /\ p \in Nat
    BY DEF IInv, Typed
  <2>2. Begun(t) /\ s.mtag_b # "UNPACKED"
    BY BlockAt
  <2> QED BY <2>1, <2>2, ShapeFacts DEF IInv, Loops
<1>2. PanelsUpTo(t) = {<<j, x>> : x \in Up} /\ PanelsBefore(t) = {<<j, x>> : x \in Before}
      /\ Panel(t) = <<j, p>>
  BY DEF PanelsUpTo, PanelsBefore, Panel
<1> HIDE DEF p, d, j
<1>3. Up = Before \cup {p}
  BY <1>1
<1>4. p = 0 => Up = {0}
  BY <1>1
<1> HIDE DEF Up, Before
<1>5. {<<j, x>> : x \in Up} = {<<j, x>> : x \in Before} \cup {<<j, p>>}
  BY <1>3
<1>6. p = 0 => {<<j, x>> : x \in Up} = {<<j, p>>}
  BY <1>4
<1> QED
  BY <1>2, <1>5, <1>6 DEF p

\* The panels up to one are those before the next of the same columns.
LEMMA PanelsNext ==
  ASSUME IInv, NEW t \in Threads, NextBlock(t), pc[t] + s.KC < s.k
  PROVE  PanelsBefore(t)' = PanelsUpTo(t)
<1> DEFINE p == pc[t]
           d == s.KC
           j == jc[t]
           Up == {y \in 0 .. p : y % d = 0}
           Before == {y \in 0 .. (p + d) - 1 : y % d = 0}
<1>0. at[t] \in InBlock
  BY DEF NextBlock, InBlock
<1>1. s \in Shapes /\ pc \in [Threads -> Nat] /\ p \in Nat
  BY DEF IInv, Typed
<1>2. p % d = 0 /\ p < s.k /\ d \in Nat \ {0}
  <2>1. Begun(t) /\ s.mtag_b # "UNPACKED"
    BY <1>0, BlockAt
  <2> QED BY <1>1, <2>1, ShapeFacts DEF IInv, Loops
<1>3. pc' = [pc EXCEPT ![t] = p + d] /\ jc' = jc /\ s' = s
  BY NextDepthEffect
<1>4. pc'[t] = p + d
  BY <1>1, <1>3
<1>5. PanelsBefore(t)' = {<<j, x>> : x \in Before}
  BY <1>3, <1>4 DEF PanelsBefore
<1>6. PanelsUpTo(t) = {<<j, x>> : x \in Up}
  BY DEF PanelsUpTo
<1>7. \A x \in 0 .. p + d - 1 : x % d = 0 => x <= p
  BY <1>1, <1>2, NextK
<1> HIDE DEF p, d, j
<1>8. Up = Before
  BY <1>1, <1>2, <1>7
<1> QED
  BY <1>5, <1>6, <1>8

\* A thread before its second k block has its team's buffer.
LEMMA SentThere ==
  ASSUME IInv, Packs, NEW t \in Threads, pc[t] > 0,
         at[t] \in {"send", "arriveAlloc", "waitAlloc", "receive", "pack"}
  PROVE  Sent(t) # 0
<1>0. Typed /\ Control
  BY DEF IInv
<1>1. Begun(t) /\ at[t] \in InBlock
  BY DEF Begun, InBlock
<1>2. Base(t) >= 0 /\ (Base(t) = 0 => pc[t] = 0)
  BY <1>1 DEF IInv, Lockstep
<1>3. Base(t) \in Int /\ passed[t] \in Nat /\ (passed[t] = Base(t) \/ passed[t] = Base(t) + 1)
  BY <1>0, Places
<1>4. pc[t] # 0
  <2>1. pc[t] \in Nat /\ pc[t] > 0
    BY DEF IInv, Typed
  <2> QED BY <2>1
<1>5. Base(t) # 0
  BY <1>2, <1>4
<1>6. passed[t] >= 1
  BY <1>2, <1>3, <1>5
<1> QED
  BY <1>1, <1>6, BufferThere

\* Only packing writes to a buffer.
LEMMA ContentKept ==
  ASSUME IInv, NEW t \in Threads, Step(t), ~Pack(t), NEW u \in Threads, Sent(u) # 0
  PROVE  /\ Sent(u)' = Sent(u)
         /\ heap'[Sent(u)].panel = heap[Sent(u)].panel
         /\ heap'[Sent(u)].sums = heap[Sent(u)].sums
<1>1. s' = s /\ JcId(u)' = JcId(u)
  BY ShapeFixed, Frozen
<1>2. Sent(u) \in 1 .. Len(heap) /\ s \in Shapes /\ sent_object \in [Teams -> Nat]
  BY TeamBuffer DEF IInv, Typed
<1>3. Sent(u)' = sent_object'[JcId(u)]
  BY <1>1 DEF Sent
<1>4. CASE SendBuffer(t)
  <2>1. CASE UNCHANGED <<heap, buf, sent_object>>
    BY <1>3, <2>1 DEF Sent
  <2>2. CASE ~UNCHANGED <<heap, buf, sent_object>>
    <3>1. /\ Sent(t) = 0 /\ \A b \in 1 .. Len(heap) : heap'[b] = heap[b]
          /\ sent_object' = [sent_object EXCEPT ![JcId(t)] = Len(heap) + 1]
      BY <1>4, <2>2, SendEffect
    <3>2. JcId(u) # JcId(t) /\ JcId(u) \in Teams
      BY <1>2, <3>1, Ids DEF Sent
    <3>3. sent_object'[JcId(u)] = sent_object[JcId(u)]
      BY <1>2, <3>1, <3>2
    <3> QED BY <1>2, <1>3, <3>1, <3>3 DEF Sent
  <2> QED BY <2>1, <2>2
<1>5. CASE Release(t)
  <2>1. UNCHANGED sent_object
    BY <1>5 DEF Release
  <2> QED BY <1>2, <1>3, <1>5, <2>1, ReleaseEffect DEF Sent
<1>6. CASE ~SendBuffer(t) /\ ~Release(t)
  <2>1. UNCHANGED <<heap, sent_object>>
    BY <1>6 DEF Step, Begin, ReceiveBuffer, Compute, NextBlock, Barriers, Arrive, Leave
  <2> QED BY <1>3, <2>1 DEF Sent
<1> QED
  BY <1>4, <1>5, <1>6

\* What a thread that did not move calls its panel.
LEMMA PanelKept ==
  ASSUME s' = s, NEW u, jc'[u] = jc[u], pc'[u] = pc[u]
  PROVE  /\ Panel(u)' = Panel(u) /\ PanelsUpTo(u)' = PanelsUpTo(u)
         /\ PanelsBefore(u)' = PanelsBefore(u)
BY DEF Panel, PanelsUpTo, PanelsBefore

\* Every step but packing keeps the contents.
LEMMA ContentsQuiet ==
  ASSUME IInv, Packs, NEW t \in Threads, Step(t), ~Pack(t)
  PROVE  Contents'
<1>0. Typed /\ Control /\ s \in Shapes /\ s.mtag_b # "UNPACKED"
  BY DEF IInv, Typed, Packs
<1>1. /\ s' = s /\ Threads' = Threads /\ Packs' = Packs
      /\ \A u : TeamOf(u)' = TeamOf(u)
      /\ \A u, w : Slice(u, w)' = Slice(u, w)
  BY ShapeFixed, Frozen
<1>2. /\ \A u \in Threads : u # t => Base(u)' = Base(u)
      /\ Begin(t) => Base(t) = 0
      /\ NextBlock(t) => Base(t)' = Base(t) + 2
      /\ ~NextBlock(t) => Base(t)' = Base(t)
  BY BaseStep
<1>3. \A u \in Threads : Base(u) \in Int /\ Base(u) >= 0
  <2>1. \A u \in Threads : Base(u) >= 0
    BY DEF IInv, Lockstep
  <2> QED BY <1>0, <2>1, Places
<1>4. \A u \in Threads : Sent(u) # 0 =>
        /\ Sent(u)' = Sent(u)
        /\ heap'[Sent(u)].panel = heap[Sent(u)].panel
        /\ heap'[Sent(u)].sums = heap[Sent(u)].sums
  BY ContentKept
<1>5. \A u \in Threads : u # t =>
        /\ at'[u] = at[u] /\ jc'[u] = jc[u] /\ pc'[u] = pc[u] /\ nc0'[u] = nc0[u]
  BY Others
<1>6. ~Begin(t) /\ ~NextBlock(t) => UNCHANGED <<jc, pc, nc0>>
  BY Trace
<1>7. NextBlock(t) \/ Begin(t) => at'[t] \in {"send", "arriveLast"}
  <2>1. Begin(t) => at[t] = "begin"
    BY DEF Begin
  <2>2. NextBlock(t) => at[t] = "compute"
    BY DEF NextBlock
  <2>3. CASE Begin(t)
    BY <1>0, <2>1, <2>3, Trace
  <2>4. CASE NextBlock(t)
    <3>1. at \in [Threads -> Locations]
      BY <1>0 DEF Typed
    <3> QED BY <2>4, <3>1, NextDepthEffect, NextColumnsEffect
  <2> QED BY <2>3, <2>4
\* A thread's slice, told of by a thread that did not go to another panel.
<1>8. ASSUME NEW x \in Threads, NEW u \in Threads, Sent(x) # 0, Holds(u, x),
             jc'[x] = jc[x], pc'[x] = pc[x], nc0'[x] = nc0[x]
      PROVE  Holds(u, x)'
  <2>1. Panel(x)' = Panel(x) /\ PanelsUpTo(x)' = PanelsUpTo(x)
    BY <1>1, <1>8, PanelKept
  <2>2. Slice(u, nc0[x])' = Slice(u, nc0[x])
    BY <1>1, <1>8 DEF Slice, IcId
  <2>3. /\ Sent(x)' = Sent(x)
        /\ heap'[Sent(x)].panel = heap[Sent(x)].panel
        /\ heap'[Sent(x)].sums = heap[Sent(x)].sums
    BY <1>4, <1>8
  <2> QED BY <1>8, <2>1, <2>2, <2>3 DEF Holds
<1>9. ASSUME NEW u \in Threads, at'[u] \in {"arrivePack", "waitPack", "compute"}
      PROVE  Holds(u, u)'
  <2>1. /\ at[u] \in {"arrivePack", "waitPack", "compute"}
        /\ jc'[u] = jc[u] /\ pc'[u] = pc[u] /\ nc0'[u] = nc0[u]
    <3>1. CASE u # t
      BY <1>5, <1>9, <3>1
    <3>2. CASE u = t
      <4>1. ~Begin(t) /\ ~NextBlock(t)
        BY <1>7, <1>9, <3>2
      <4> QED BY <1>6, <1>9, <3>2, <4>1, Trace
    <3> QED BY <3>1, <3>2
  <2>2. Holds(u, u) /\ Sent(u) # 0
    BY <2>1, ChiefBusy DEF IInv, Contents
  <2> QED BY <1>8, <2>1, <2>2
<1>10. ASSUME NEW x \in Threads, at'[x] \in {"waitPack", "compute"},
              NEW u \in TeamOf(x), Base(u)' = Base(x)' + 2
       PROVE  Holds(u, x)'
  <2>0. u \in Threads /\ x \in TeamOf(u) /\ Sent(u) = Sent(x) /\ InStep(u, x)
    BY Together
  <2>1. /\ at[x] \in {"arrivePack", "waitPack", "compute"}
        /\ jc'[x] = jc[x] /\ pc'[x] = pc[x] /\ nc0'[x] = nc0[x] /\ Base(x)' = Base(x)
    <3>1. CASE x # t
      BY <1>2, <1>5, <1>10, <3>1
    <3>2. CASE x = t
      <4>1. ~Begin(t) /\ ~NextBlock(t)
        BY <1>7, <1>10, <3>2
      <4> QED BY <1>2, <1>6, <1>10, <3>2, <4>1, Trace
    <3> QED BY <3>1, <3>2
  <2>2. Sent(x) # 0
    BY <2>1, ChiefBusy
  <2>3. CASE Base(u)' = Base(u)
    <3>1. Base(u) = Base(x) + 2
      BY <1>10, <2>1, <2>3
    <3>2. at[x] # "arrivePack"
      <4>1. SUFFICES ASSUME at[x] = "arrivePack" PROVE FALSE
        OBVIOUS
      <4>2. entered[x] = Base(x) + 1
        BY <1>0, <4>1, Places
      <4>3. passed[u] <= entered[x]
        BY <2>0 DEF InStep
      <4>4. Off(u) \in 0 .. 2 /\ Base(u) = passed[u] - Off(u) /\ passed[u] \in Nat
        BY <1>0, <2>0, Places DEF Base, Off
      <4> QED BY <1>3, <3>1, <4>2, <4>3, <4>4
    <3>3. Holds(u, x)
      BY <2>1, <3>1, <3>2 DEF IInv, Contents
    <3> QED BY <1>8, <2>0, <2>1, <2>2, <3>3
  <2>4. CASE Base(u)' # Base(u)
    <3>1. u = t /\ NextBlock(t)
      BY <1>2, <2>0, <2>4
    <3>2. Base(u) = Base(x)
      BY <1>2, <1>3, <1>10, <2>0, <2>1, <3>1
    <3>3. at[u] = "compute" /\ Begun(u) /\ Begun(x)
      BY <2>1, <3>1 DEF NextBlock, Begun
    <3>4. Holds(u, u)
      BY <2>0, <3>3 DEF IInv, Contents
    <3>5. nc0[u] = nc0[x] /\ Panel(u) = Panel(x) /\ PanelsUpTo(u) = PanelsUpTo(x)
      BY <1>10, <3>2, <3>3, SamePanel
    <3>6. Holds(u, x)
      BY <2>0, <3>4, <3>5 DEF Holds
    <3> QED BY <1>8, <2>0, <2>1, <2>2, <3>6
  <2> QED BY <2>3, <2>4
<1>11. ASSUME NEW u \in Threads, pc'[u] > 0,
              at'[u] \in {"send", "arriveAlloc", "waitAlloc", "receive", "pack"}
       PROVE  \A c \in Slice(u, nc0'[u]) : heap'[Sent(u)'].sums[c] = PanelsBefore(u)'
  <2>1. CASE u = t /\ NextBlock(t)
    <3>1. pc[t] + s.KC < s.k
      <4>1. SUFFICES ASSUME ~(pc[t] + s.KC < s.k) PROVE FALSE
        OBVIOUS
      <4>2. pc' = [pc EXCEPT ![t] = 0] /\ pc \in [Threads -> Nat]
        BY <1>0, <2>1, <4>1, NextColumnsEffect DEF Typed
      <4>3. pc'[t] = 0
        BY <4>2
      <4> QED BY <1>11, <2>1, <4>3
    <3>2. PanelsBefore(t)' = PanelsUpTo(t)
      BY <2>1, <3>1, PanelsNext
    <3>3. nc0' = nc0 /\ at[t] = "compute"
      BY <2>1, <3>1, NextDepthEffect
    <3>4. Holds(t, t) /\ Sent(t) # 0
      BY <3>3, ChiefBusy DEF IInv, Contents
    <3>5. Sent(t)' = Sent(t) /\ heap'[Sent(t)].sums = heap[Sent(t)].sums
      BY <1>4, <3>4
    <3> QED BY <2>1, <3>2, <3>3, <3>4, <3>5 DEF Holds
  <2>2. CASE ~(u = t /\ NextBlock(t))
    <3>1. /\ jc'[u] = jc[u] /\ pc'[u] = pc[u] /\ nc0'[u] = nc0[u]
          /\ at[u] \in {"send", "arriveAlloc", "waitAlloc", "receive", "pack"}
      <4>1. CASE u # t
        BY <1>5, <1>11, <4>1
      <4>2. CASE u = t /\ Begin(t)
        <5>1. pc' = [pc EXCEPT ![t] = 0] /\ pc \in [Threads -> Nat]
          BY <1>0, <4>2, BeginEffect DEF Typed
        <5>2. pc'[t] = 0
          BY <5>1
        <5> QED BY <1>11, <4>2, <5>2
      <4>3. CASE u = t /\ ~Begin(t)
        BY <1>6, <1>11, <2>2, <4>3, Trace
      <4> QED BY <4>1, <4>2, <4>3
    <3>2. Sent(u) # 0
      BY <1>11, <3>1, SentThere
    <3>3. \A c \in Slice(u, nc0[u]) : heap[Sent(u)].sums[c] = PanelsBefore(u)
      BY <1>11, <3>1 DEF IInv, Contents
    <3>4. PanelsBefore(u)' = PanelsBefore(u)
      BY <1>1, <3>1, PanelKept
    <3>5. Sent(u)' = Sent(u) /\ heap'[Sent(u)].sums = heap[Sent(u)].sums
      BY <1>4, <3>2
    <3> QED BY <3>1, <3>3, <3>4, <3>5
  <2> QED BY <2>1, <2>2
<1>12. ASSUME NEW u \in Threads, pc'[u] > 0,
              at'[u] \in {"send", "arriveAlloc", "waitAlloc", "receive", "pack"}
       PROVE  (\A c \in Slice(u, nc0[u]) : heap[Sent(u)].sums[c] = PanelsBefore(u))'
  <2>1. Slice(u, nc0[u])' = Slice(u, nc0'[u])
    BY <1>1 DEF Slice, IcId
  <2> QED BY <1>11, <1>12, <2>1
<1> QED
  BY <1>1, <1>9, <1>10, <1>12 DEF Contents

\* Packing fills the thread's own slice, and no other that is in use.
LEMMA ContentsPack ==
  ASSUME IInv, NEW t \in Threads, Pack(t)
  PROVE  Contents'
<1>0. Typed /\ Control /\ s \in Shapes
  BY DEF IInv, Typed
<1>1. /\ at[t] = "pack" /\ PackSlice(t) /\ Step(t)
      /\ UNCHANGED <<s, jc, pc, nc0, sent_object>>
  BY DEF Pack, PackSlice, Step, loops
<1>2. /\ Packs /\ Sent(t) # 0
      /\ \A b \in 1 .. Len(heap) : b # Sent(t) => heap'[b] = heap[b]
      /\ \A c \in 0 .. Width(t) - 1 :
           /\ heap'[Sent(t)].panel[c] =
                IF c \in Slice(t, nc0[t]) THEN Panel(t) ELSE heap[Sent(t)].panel[c]
           /\ heap'[Sent(t)].sums[c] =
                IF c \notin Slice(t, nc0[t]) THEN heap[Sent(t)].sums[c]
                ELSE IF pc[t] = 0 THEN {Panel(t)}
                ELSE heap[Sent(t)].sums[c] \cup {Panel(t)}
  BY <1>1, PackEffect
<1>3. /\ Threads' = Threads /\ Packs' = Packs
      /\ \A u : TeamOf(u)' = TeamOf(u) /\ JcId(u)' = JcId(u)
      /\ \A u, w : Slice(u, w)' = Slice(u, w)
  BY <1>1, Frozen
<1>4. \A u \in Threads : Base(u)' = Base(u)
  <2>1. ~NextBlock(t)
    BY <1>1 DEF NextBlock
  <2> QED BY <1>1, <1>2, <2>1, BaseStep
<1>5. \A u \in Threads : u # t => at'[u] = at[u]
  BY <1>1, Others
<1>6. at'[t] = "arrivePack" /\ at[t] \in InBlock /\ Begun(t)
  BY <1>1, Trace DEF InBlock, Begun
<1>7. \A u : /\ Panel(u)' = Panel(u) /\ PanelsUpTo(u)' = PanelsUpTo(u)
             /\ PanelsBefore(u)' = PanelsBefore(u) /\ Sent(u)' = Sent(u)
  BY <1>1, <1>3, PanelKept DEF Sent
<1>8. nc0[t] \in Nat /\ nc0[t] <= Width(t)
  BY <1>6, BlockAt
<1>w. Width(t) \in Int
  <2>1. /\ JcLoop(t).start \in Nat /\ JcLoop(t).end \in Nat /\ s.NC \in Nat
    BY <1>0, LoopBounds, ShapeFacts
  <2> QED BY <2>1 DEF Width, MinOf
<1>9. \A u \in Threads : Slice(u, nc0[t]) \subseteq 0 .. Width(t) - 1
  <2>1. \A u \in Threads : Slice(u, nc0[t]) \subseteq 0 .. nc0[t] - 1
    BY <1>0, <1>8, SliceWithin
  <2>2. 0 .. nc0[t] - 1 \subseteq 0 .. Width(t) - 1
    BY <1>8, <1>w
  <2> QED BY <2>1, <2>2
\* Teammates are at the same panel, and their slices keep what they hold.
<1>10. ASSUME NEW u \in TeamOf(t)
       PROVE  /\ u \in Threads /\ Sent(u) = Sent(t) /\ Base(u) = Base(t) /\ Begun(u)
              /\ nc0[u] = nc0[t]
              /\ at[u] \in {"waitAlloc", "receive", "pack", "arrivePack", "waitPack"}
  BY <1>1, <1>2, <1>6, Together, PackRound, SamePanel
<1>11. ASSUME NEW u \in TeamOf(t), u # t
       PROVE  \A c \in Slice(u, nc0[u]) :
                /\ heap'[Sent(u)].panel[c] = heap[Sent(u)].panel[c]
                /\ heap'[Sent(u)].sums[c] = heap[Sent(u)].sums[c]
  <2>1. Slice(u, nc0[t]) \cap Slice(t, nc0[t]) = {}
    BY <1>0, <1>8, <1>11, SlicesApart
  <2>2. u \in Threads /\ Sent(u) = Sent(t) /\ nc0[u] = nc0[t]
    BY <1>10
  <2>3. ASSUME NEW c \in Slice(u, nc0[t])
        PROVE  /\ heap'[Sent(t)].panel[c] = heap[Sent(t)].panel[c]
               /\ heap'[Sent(t)].sums[c] = heap[Sent(t)].sums[c]
    <3>1. c \in 0 .. Width(t) - 1 /\ c \notin Slice(t, nc0[t])
      BY <1>9, <2>1, <2>2
    <3> QED BY <1>2, <3>1
  <2> QED BY <2>2, <2>3
\* Other teams have another buffer.
<1>12. ASSUME NEW u \in Threads, u \notin TeamOf(t), Sent(u) # 0
       PROVE  heap'[Sent(u)] = heap[Sent(u)]
  <2>1. JcId(u) # JcId(t)
    BY <1>12 DEF TeamOf
  <2>2. JcId(u) \in Teams /\ JcId(t) \in Teams
    BY <1>0, Ids
  <2>3. Sent(u) # Sent(t)
    BY <1>12, <2>1, <2>2 DEF IInv, Buffers, Sent
  <2>4. Sent(u) \in 1 .. Len(heap)
    BY <1>12, TeamBuffer
  <2> QED BY <1>2, <2>3, <2>4
<1>13. ASSUME NEW x \in Threads, NEW u \in Threads,
              \A c \in Slice(u, nc0[x]) : /\ heap'[Sent(x)].panel[c] = Panel(x)
                                          /\ heap'[Sent(x)].sums[c] = PanelsUpTo(x)
       PROVE  Holds(u, x)'
  <2>1. Slice(u, nc0[x])' = Slice(u, nc0[x])
    BY <1>1 DEF Slice, IcId
  <2> QED BY <1>1, <1>7, <1>13, <2>1 DEF Holds
<1>14. ASSUME NEW u \in Threads, at'[u] \in {"arrivePack", "waitPack", "compute"}
       PROVE  Holds(u, u)'
  <2>1. CASE u = t
    <3>1. /\ PanelsUpTo(t) = PanelsBefore(t) \cup {Panel(t)}
          /\ pc[t] = 0 => PanelsUpTo(t) = {Panel(t)}
      BY <1>6, PanelsGrow
    <3>2. ASSUME pc[t] # 0, NEW c \in Slice(t, nc0[t])
          PROVE  heap[Sent(t)].sums[c] = PanelsBefore(t)
      <4>1. pc[t] > 0
        <5>1. pc[t] \in Nat
          BY <1>0 DEF Typed
        <5> QED BY <3>2, <5>1
      <4> QED BY <1>1, <1>2, <3>2, <4>1 DEF IInv, Contents
    <3>3. ASSUME NEW c \in Slice(t, nc0[t])
          PROVE  heap'[Sent(t)].panel[c] = Panel(t) /\ heap'[Sent(t)].sums[c] = PanelsUpTo(t)
      <4>1. c \in 0 .. Width(t) - 1
        BY <1>9
      <4>2. heap'[Sent(t)].panel[c] = Panel(t)
        BY <1>2, <4>1
      <4>3. CASE pc[t] = 0
        BY <1>2, <3>1, <4>1, <4>2, <4>3
      <4>4. CASE pc[t] # 0
        BY <1>2, <3>1, <3>2, <4>1, <4>2, <4>4
      <4> QED BY <4>3, <4>4
    <3> QED BY <1>13, <2>1, <3>3
  <2>2. CASE u # t
    <3>1. at[u] \in {"arrivePack", "waitPack", "compute"}
      BY <1>5, <1>14, <2>2
    <3>2. Holds(u, u) /\ Sent(u) # 0
      BY <1>2, <3>1, ChiefBusy DEF IInv, Contents
    <3>3. CASE u \in TeamOf(t)
      BY <1>11, <1>13, <2>2, <3>2, <3>3 DEF Holds
    <3>4. CASE u \notin TeamOf(t)
      BY <1>12, <1>13, <3>2, <3>4 DEF Holds
    <3> QED BY <3>3, <3>4
  <2> QED BY <2>1, <2>2
<1>15. ASSUME NEW x \in Threads, at'[x] \in {"waitPack", "compute"},
              NEW u \in TeamOf(x), Base(u)' = Base(x)' + 2
       PROVE  Holds(u, x)'
  <2>0. u \in Threads /\ x # t /\ JcId(u) = JcId(x)
    BY <1>6, <1>15 DEF TeamOf
  <2>1. at[x] \in {"waitPack", "compute"} /\ Base(u) = Base(x) + 2
    BY <1>4, <1>5, <1>15, <2>0
  <2>2. x \notin TeamOf(t)
    <3>1. SUFFICES ASSUME x \in TeamOf(t) PROVE FALSE
      OBVIOUS
    <3>2. u \in TeamOf(t)
      BY <2>0, <3>1 DEF TeamOf
    <3>3. Base(u) = Base(t) /\ Base(x) = Base(t) /\ Base(t) \in Int
      BY <1>0, <1>10, <3>1, <3>2, Places
    <3> QED BY <2>1, <3>3
  <2>3. Holds(u, x) /\ Sent(x) # 0
    BY <1>2, <1>15, <2>1, ChiefBusy DEF IInv, Contents
  <2> QED BY <1>12, <1>13, <2>0, <2>2, <2>3 DEF Holds
<1>16. ASSUME NEW u \in Threads, pc'[u] > 0,
              at'[u] \in {"send", "arriveAlloc", "waitAlloc", "receive", "pack"}
       PROVE  (\A c \in Slice(u, nc0[u]) : heap[Sent(u)].sums[c] = PanelsBefore(u))'
  <2>0. u # t
    BY <1>6, <1>16
  <2>1. at[u] \in {"send", "arriveAlloc", "waitAlloc", "receive", "pack"} /\ pc[u] > 0
    BY <1>1, <1>5, <1>16, <2>0
  <2>2. \A c \in Slice(u, nc0[u]) : heap[Sent(u)].sums[c] = PanelsBefore(u)
    BY <1>2, <2>1 DEF IInv, Contents
  <2>3. Sent(u) # 0
    BY <1>2, <2>1, SentThere
  <2>4. \A c \in Slice(u, nc0[u]) : heap'[Sent(u)].sums[c] = PanelsBefore(u)
    <3>1. CASE u \in TeamOf(t)
      BY <1>11, <2>0, <2>2, <3>1
    <3>2. CASE u \notin TeamOf(t)
      BY <1>12, <2>2, <2>3, <3>2
    <3> QED BY <3>1, <3>2
  <2>5. Slice(u, nc0[u])' = Slice(u, nc0[u])
    BY <1>1 DEF Slice, IcId
  <2> QED BY <1>7, <2>4, <2>5
<1> QED
  BY <1>3, <1>14, <1>15, <1>16 DEF Contents

\* Every step keeps the contents.
LEMMA ContentsStep ==
  ASSUME IInv, NEW t \in Threads, Step(t)
  PROVE  Contents'
<1>1. CASE ~Packs
  <2>1. Packs' = Packs
    BY ShapeFixed, Frozen
  <2> QED BY <1>1, <2>1 DEF Contents
<1>2. CASE Packs
  BY <1>2, ContentsQuiet, ContentsPack
<1> QED BY <1>1, <1>2

----------------------------------------------------------------------------
(* The invariant is kept: the result.                                      *)

\* The parts of C of different threads do not meet.
LEMMA PartsApart ==
  ASSUME s \in Shapes, NEW t \in Threads, NEW u \in Threads, u # t,
         NEW i \in Indices(IcLoop(u)), NEW j \in Indices(JcLoop(u))
  PROVE  ~(i \in Indices(IcLoop(t)) /\ j \in Indices(JcLoop(t)))
<1>1. /\ s.ic_ways \in Nat \ {0} /\ s.jc_ways \in Nat \ {0} /\ s.m \in Nat /\ s.n \in Nat
      /\ s.MR \in Nat \ {0} /\ s.NR \in Nat \ {0}
  BY ShapeFacts
<1>2. /\ JcId(t) \in 0 .. s.jc_ways - 1 /\ JcId(u) \in 0 .. s.jc_ways - 1
      /\ IcId(t) \in 0 .. s.ic_ways - 1 /\ IcId(u) \in 0 .. s.ic_ways - 1
  BY Ids DEF Teams
<1>3. t = JcId(t) * s.ic_ways + IcId(t) /\ u = JcId(u) * s.ic_ways + IcId(u)
  BY Ids
<1>4. CASE JcId(u) # JcId(t)
  <2>1. Indices(JcLoop(t)) \cap Indices(JcLoop(u)) = {}
    BY <1>1, <1>2, <1>4, RangesApart DEF JcLoop
  <2> QED BY <2>1
<1>5. CASE JcId(u) = JcId(t)
  <2>1. IcId(u) # IcId(t)
    BY <1>3, <1>5
  <2>2. Indices(IcLoop(t)) \cap Indices(IcLoop(u)) = {}
    BY <1>1, <1>2, <2>1, RangesApart DEF IcLoop
  <2> QED BY <2>2
<1> QED BY <1>4, <1>5

\* What a thread has added, when its place and its loops are the same.
LEMMA AddedBySame ==
  ASSUME s' = s, NEW u, NEW i, NEW j, at'[u] = at[u], jc'[u] = jc[u], nc0'[u] = nc0[u],
         pc'[u] = pc[u], ic'[u] = ic[u]
  PROVE  AddedBy(u, i, j)' = AddedBy(u, i, j)
<1>1. KBlocks' = KBlocks
  BY Frozen
<1> QED BY <1>1 DEF AddedBy

\* Every step adds what AddedBy says.
LEMMA ResultStep ==
  ASSUME IInv, NEW t \in Threads, Step(t)
  PROVE  Result'
<1>0. /\ s \in Shapes /\ added \in [Elements -> Nat] /\ Typed /\ Control
      /\ jc \in [Threads -> Nat] /\ pc \in [Threads -> Nat] /\ ic \in [Threads -> Nat]
      /\ nc0 \in [Threads -> Int]
  BY DEF IInv, Typed
<1>1. /\ s' = s /\ Threads' = Threads /\ KBlocks' = KBlocks
      /\ \A u : JcLoop(u)' = JcLoop(u) /\ IcLoop(u)' = IcLoop(u)
  BY ShapeFixed, Frozen
<1>2. ASSUME NEW u \in Threads, NEW i \in Indices(IcLoop(u)), NEW j \in Indices(JcLoop(u))
      PROVE  added[<<i, j>>] = AddedBy(u, i, j)
  BY DEF IInv, Result
<1>b. ASSUME NEW u \in Threads
      PROVE  /\ JcLoop(u).start \in Nat /\ JcLoop(u).end \in Nat /\ JcLoop(u).end <= s.n
             /\ IcLoop(u).start \in Nat /\ IcLoop(u).end \in Nat /\ IcLoop(u).end <= s.m
  BY <1>0, LoopBounds
<1>m. s.m \in Nat /\ s.n \in Nat /\ s.MC \in Nat \ {0} /\ s.KC \in Nat \ {0} /\ s.k \in Nat
  BY <1>0, ShapeFacts
<1>e. ASSUME NEW u \in Threads, NEW i \in Indices(IcLoop(u)), NEW j \in Indices(JcLoop(u))
      PROVE  /\ i \in Nat /\ j \in Nat /\ <<i, j>> \in DOMAIN added
             /\ IcLoop(u).start <= i /\ i < IcLoop(u).end
             /\ JcLoop(u).start <= j /\ j < JcLoop(u).end
  <2>1. /\ i \in Nat /\ j \in Nat /\ i \in 0 .. s.m - 1 /\ j \in 0 .. s.n - 1
        /\ IcLoop(u).start <= i /\ i < IcLoop(u).end
        /\ JcLoop(u).start <= j /\ j < JcLoop(u).end
    BY <1>b, <1>m DEF Indices
  <2> QED BY <1>0, <2>1 DEF Elements
<1>3. ASSUME NEW u \in Threads, u # t, NEW i, NEW j
      PROVE  AddedBy(u, i, j)' = AddedBy(u, i, j)
  BY <1>1, <1>3, Others, AddedBySame
<1>4. ASSUME added' = added,
             \A i \in Indices(IcLoop(t)), j \in Indices(JcLoop(t)) :
               AddedBy(t, i, j)' = AddedBy(t, i, j)
      PROVE  Result'
  <2>1. ASSUME NEW u \in Threads, NEW i \in Indices(IcLoop(u)), NEW j \in Indices(JcLoop(u))
        PROVE  added'[<<i, j>>] = AddedBy(u, i, j)'
    BY <1>2, <1>3, <1>4
  <2> QED BY <1>1, <2>1 DEF Result
<1>5. CASE Compute(t)
  <2> DEFINE rows == ic[t] .. ic[t] + MinOf(ics[t].end - ic[t], s.MC) - 1
             cols == jc[t] .. jc[t] + nc0[t] - 1
  <2>1. /\ at[t] = "compute" /\ ic[t] < ics[t].end
        /\ added' = [e \in DOMAIN added |-> added[e] + (IF e \in rows \X cols THEN 1 ELSE 0)]
        /\ ic' = [ic EXCEPT ![t] = @ + s.MC] /\ UNCHANGED <<at, jc, pc, nc0>>
    BY <1>5 DEF Compute
  <2>2. at[t] \in InBlock
    BY <2>1 DEF InBlock
  <2>3. /\ s.mtag_b # "UNPACKED" /\ ics[t] = IcLoop(t) /\ jc[t] \in Nat /\ nc0[t] \in Nat
        /\ JcLoop(t).start <= jc[t] /\ jc[t] + nc0[t] <= JcLoop(t).end /\ Begun(t)
    BY <2>2, BlockAt
  <2>4. IcLoop(t).start <= ic[t] /\ ic[t] \in Nat
    BY <1>0, <2>3 DEF IInv, Loops
  <2>5. ASSUME NEW i \in Int PROVE
          /\ i \in rows => IcLoop(t).start <= i /\ i < IcLoop(t).end
          /\ i < IcLoop(t).end => (i \in rows <=> ~(i < ic[t]) /\ i < ic[t] + s.MC)
    <3>1. MinOf(IcLoop(t).end - ic[t], s.MC)
            = IF IcLoop(t).end - ic[t] <= s.MC THEN IcLoop(t).end - ic[t] ELSE s.MC
      BY DEF MinOf
    <3>2. ic[t] < IcLoop(t).end
      BY <2>1, <2>3
    <3>3. rows = ic[t] .. ic[t] + MinOf(IcLoop(t).end - ic[t], s.MC) - 1
      BY <2>3
    <3> HIDE DEF rows
    <3> DEFINE w == MinOf(IcLoop(t).end - ic[t], s.MC)
    <3>4. w \in Nat /\ (w = s.MC \/ w = IcLoop(t).end - ic[t]) /\ w <= s.MC
          /\ w <= IcLoop(t).end - ic[t]
      BY <1>b, <1>m, <2>4, <3>1, <3>2
    <3> HIDE DEF w
    <3>5. rows = ic[t] .. ic[t] + w - 1
      BY <3>3 DEF w
    <3> QED BY <1>b, <1>m, <2>4, <3>4, <3>5
  <2>6. ic'[t] = ic[t] + s.MC
    BY <1>0, <2>1
  <2> HIDE DEF rows
  <2>7. ASSUME NEW u \in Threads, u # t, NEW i \in Indices(IcLoop(u)), NEW j \in Indices(JcLoop(u))
        PROVE  added'[<<i, j>>] = AddedBy(u, i, j)'
    <3>1. <<i, j>> \in DOMAIN added /\ i \in Nat /\ j \in Nat
      BY <1>e
    <3>2. <<i, j>> \notin rows \X cols
      <4>1. SUFFICES ASSUME i \in rows, j \in cols PROVE FALSE
        OBVIOUS
      <4>2. i \in Indices(IcLoop(t))
        BY <1>b, <2>5, <3>1, <4>1 DEF Indices
      <4>3. j \in Indices(JcLoop(t))
        BY <1>b, <2>3, <3>1, <4>1 DEF Indices
      <4> QED BY <1>0, <2>7, <4>2, <4>3, PartsApart
    <3>3. added[<<i, j>>] \in Nat
      BY <1>0, <3>1
    <3>4. added'[<<i, j>>] = added[<<i, j>>]
      BY <2>1, <3>1, <3>2, <3>3
    <3> QED BY <1>2, <1>3, <2>7, <3>4
  <2>8. ASSUME NEW i \in Indices(IcLoop(t)), NEW j \in Indices(JcLoop(t))
        PROVE  added'[<<i, j>>] = AddedBy(t, i, j)'
    <3>1. /\ <<i, j>> \in DOMAIN added /\ i \in Nat /\ j \in Nat
          /\ i < IcLoop(t).end
      BY <1>e
    <3>2. added[<<i, j>>] = AddedBy(t, i, j) /\ added[<<i, j>>] \in Nat
      BY <1>0, <1>2, <3>1
    <3>3. AddedBy(t, i, j) = IF j < jc[t] THEN KBlocks
                             ELSE IF j < jc[t] + nc0[t]
                             THEN (pc[t] \div s.KC) + (IF i < ic[t] THEN 1 ELSE 0)
                             ELSE 0
      BY <2>1, <2>2, <2>3 DEF AddedBy
    <3>4. AddedBy(t, i, j)' = IF j < jc[t] THEN KBlocks
                             ELSE IF j < jc[t] + nc0[t]
                             THEN (pc[t] \div s.KC) + (IF i < ic[t] + s.MC THEN 1 ELSE 0)
                             ELSE 0
      BY <1>1, <2>1, <2>2, <2>3, <2>6 DEF AddedBy
    <3>5. added'[<<i, j>>] = added[<<i, j>>] + (IF i \in rows /\ j \in cols THEN 1 ELSE 0)
      BY <2>1, <3>1
    <3>6. j \in cols <=> ~(j < jc[t]) /\ j < jc[t] + nc0[t]
      BY <2>3, <3>1
    <3>7. i \in rows <=> ~(i < ic[t]) /\ i < ic[t] + s.MC
      BY <2>5, <3>1
    <3>8. pc[t] \div s.KC \in Nat
      BY <1>0, <1>m, DivMod
    <3> HIDE DEF cols
    <3> DEFINE q == pc[t] \div s.KC
    <3> HIDE DEF q
    <3>9. q \in Nat
      BY <3>8 DEF q
    <3>10. CASE j \in cols
      <4>1. AddedBy(t, i, j) = q + (IF i < ic[t] THEN 1 ELSE 0)
        BY <3>3, <3>6, <3>10 DEF q
      <4>2. AddedBy(t, i, j)' = q + (IF i < ic[t] + s.MC THEN 1 ELSE 0)
        BY <3>4, <3>6, <3>10 DEF q
      <4>3. i < ic[t] => i < ic[t] + s.MC
        BY <1>m, <2>4, <3>1
      <4>4. CASE i < ic[t]
        <5>1. AddedBy(t, i, j) = q + 1 /\ AddedBy(t, i, j)' = q + 1 /\ i \notin rows
          BY <3>7, <4>1, <4>2, <4>3, <4>4
        <5> QED BY <3>2, <3>5, <3>9, <5>1
      <4>5. CASE ~(i < ic[t]) /\ i < ic[t] + s.MC
        <5>1. AddedBy(t, i, j) = q + 0 /\ AddedBy(t, i, j)' = q + 1 /\ i \in rows
          BY <3>7, <4>1, <4>2, <4>5
        <5> QED BY <3>2, <3>5, <3>9, <3>10, <5>1
      <4>6. CASE ~(i < ic[t]) /\ ~(i < ic[t] + s.MC)
        <5>1. AddedBy(t, i, j) = q + 0 /\ AddedBy(t, i, j)' = q + 0 /\ i \notin rows
          BY <3>7, <4>1, <4>2, <4>6
        <5> QED BY <3>2, <3>5, <3>9, <5>1
      <4> QED BY <4>4, <4>5, <4>6
    <3>11. CASE j \notin cols
      <4>1. AddedBy(t, i, j)' = AddedBy(t, i, j)
        BY <3>3, <3>4, <3>6, <3>11
      <4>2. added'[<<i, j>>] = added[<<i, j>>] + 0
        BY <3>5, <3>11
      <4> QED BY <3>2, <4>1, <4>2
    <3> QED BY <3>10, <3>11
  <2>9. ASSUME NEW u \in Threads, NEW i \in Indices(IcLoop(u)), NEW j \in Indices(JcLoop(u))
        PROVE  added'[<<i, j>>] = AddedBy(u, i, j)'
    <3>1. CASE u = t
      BY <2>8, <3>1
    <3>2. CASE u # t
      BY <2>7, <3>2
    <3> QED BY <3>1, <3>2
  <2> QED BY <1>1, <2>9 DEF Result
<1>6. CASE Begin(t) /\ s.mtag_b = "UNPACKED"
  <2>1. added' = added
    BY <1>6 DEF Begin
  <2>2. ASSUME NEW i \in Indices(IcLoop(t)), NEW j \in Indices(JcLoop(t))
        PROVE  AddedBy(t, i, j)' = AddedBy(t, i, j)
    BY <1>1, <1>6 DEF AddedBy
  <2> QED BY <1>4, <2>1, <2>2
<1>7. CASE Begin(t) /\ s.mtag_b # "UNPACKED"
  <2>1. /\ at[t] = "begin" /\ added' = added
        /\ jc' = [jc EXCEPT ![t] = JcLoop(t).start]
        /\ pc' = [pc EXCEPT ![t] = 0] /\ ic' = [ic EXCEPT ![t] = IcLoop(t).start]
        /\ nc0' = [nc0 EXCEPT ![t] = BlockWidth(JcLoop(t).start, JcLoop(t).end)]
    BY <1>7, BeginEffect
  <2>2. jc'[t] = JcLoop(t).start /\ pc'[t] = 0 /\ ic'[t] = IcLoop(t).start
    BY <1>0, <2>1
  <2>3. at'[t] # "begin" /\ (at'[t] \in InBlock <=> JcLoop(t).start < JcLoop(t).end)
    <3>1. at \in [Threads -> Locations]
      BY <1>0 DEF Typed
    <3> QED BY <1>7, <3>1, BeginEffect DEF InBlock
  <2>4. ASSUME NEW i \in Indices(IcLoop(t)), NEW j \in Indices(JcLoop(t))
        PROVE  AddedBy(t, i, j)' = AddedBy(t, i, j)
    <3>1. /\ i \in Nat /\ j \in Nat /\ IcLoop(t).start <= i
          /\ JcLoop(t).start <= j /\ j < JcLoop(t).end
      BY <1>e
    <3>2. JcLoop(t).start < JcLoop(t).end /\ ~(j < jc'[t]) /\ ~(i < ic'[t])
      BY <1>b, <2>2, <3>1
    <3>3. AddedBy(t, i, j) = 0
      BY <2>1 DEF AddedBy
    <3>4. AddedBy(t, i, j)' = IF j < jc'[t] + nc0'[t] THEN (0 \div s.KC) + 0 ELSE 0
      BY <1>1, <1>7, <2>2, <2>3, <3>2 DEF AddedBy
    <3>5. (0 \div s.KC) + 0 = 0
      <4>1. 0 \div s.KC = 0
        BY <1>m
      <4> QED BY <4>1
    <3> QED BY <3>3, <3>4, <3>5
  <2> QED BY <1>4, <2>1, <2>4
<1>8. CASE NextBlock(t)
  <2>0. at[t] = "compute" /\ added' = added
    BY <1>8 DEF NextBlock
  <2>1. at[t] \in InBlock
    BY <2>0 DEF InBlock
  <2>2. /\ s.mtag_b # "UNPACKED" /\ Begun(t) /\ jc[t] \in Nat /\ nc0[t] \in Nat
        /\ JcLoop(t).start <= jc[t] /\ jc[t] < JcLoop(t).end
        /\ jc[t] + nc0[t] <= JcLoop(t).end /\ NextStart(jc[t]) \in Nat
        /\ \/ jc[t] + nc0[t] = NextStart(jc[t])
           \/ jc[t] + nc0[t] = JcLoop(t).end /\ JcLoop(t).end <= NextStart(jc[t])
    BY <2>1, BlockAt
  <2>3. pc[t] \in Nat /\ pc[t] % s.KC = 0 /\ pc[t] < s.k
    BY <1>0, <2>2 DEF IInv, Loops
  <2>4. /\ pc[t] \div s.KC \in Nat
        /\ (pc[t] + s.KC) \div s.KC = (pc[t] \div s.KC) + 1
        /\ pc[t] + s.KC >= s.k => KBlocks = (pc[t] \div s.KC) + 1
    BY <1>0, <2>3, NextK
  <2> DEFINE q == pc[t] \div s.KC
  <2>5. ASSUME NEW i \in Indices(IcLoop(t)), NEW j \in Indices(JcLoop(t))
        PROVE  AddedBy(t, i, j) = IF j < jc[t] THEN KBlocks
                                  ELSE IF j < jc[t] + nc0[t] THEN q + 1 ELSE 0
    <3>1. i < ic[t]
      <4>1. i \in Nat /\ i < IcLoop(t).end
        BY <1>e
      <4>2. ic[t] \in Nat /\ ic[t] >= IcLoop(t).end
        BY <1>0, <1>8, NextColumnsEffect, NextDepthEffect
      <4> QED BY <1>b, <4>1, <4>2
    <3> QED BY <2>0, <2>1, <2>2, <3>1 DEF AddedBy
  <2>6. CASE pc[t] + s.KC < s.k
    <3>1. /\ pc' = [pc EXCEPT ![t] = pc[t] + s.KC] /\ ic' = [ic EXCEPT ![t] = IcLoop(t).start]
          /\ UNCHANGED <<jc, nc0>>
      BY <1>8, <2>6, NextDepthEffect
    <3>2. pc'[t] = pc[t] + s.KC /\ ic'[t] = IcLoop(t).start
      BY <1>0, <3>1
    <3>3. at'[t] # "begin" /\ at'[t] \in InBlock
      <4>1. at \in [Threads -> Locations]
        BY <1>0 DEF Typed
      <4> QED BY <1>8, <2>6, <4>1, NextDepthEffect DEF InBlock
    <3>4. ASSUME NEW i \in Indices(IcLoop(t)), NEW j \in Indices(JcLoop(t))
          PROVE  AddedBy(t, i, j)' = AddedBy(t, i, j)
      <4>1. ~(i < ic'[t])
        <5>1. i \in Nat /\ IcLoop(t).start <= i
          BY <1>e
        <5> QED BY <1>b, <3>2, <5>1
      <4>2. AddedBy(t, i, j)' = IF j < jc[t] THEN KBlocks
                                ELSE IF j < jc[t] + nc0[t] THEN ((pc[t] + s.KC) \div s.KC) + 0
                                ELSE 0
        BY <1>1, <2>2, <3>1, <3>2, <3>3, <4>1 DEF AddedBy
      <4>3. ((pc[t] + s.KC) \div s.KC) + 0 = q + 1
        BY <2>4
      <4> QED BY <2>5, <4>2, <4>3
    <3> QED BY <1>4, <2>0, <3>4
  <2>7. CASE ~(pc[t] + s.KC < s.k)
    <3>1. /\ jc' = [jc EXCEPT ![t] = NextStart(jc[t])]
          /\ nc0' = [nc0 EXCEPT ![t] = BlockWidth(NextStart(jc[t]), JcLoop(t).end)]
          /\ pc' = [pc EXCEPT ![t] = 0] /\ ic' = [ic EXCEPT ![t] = IcLoop(t).start]
      BY <1>8, <2>7, NextColumnsEffect
    <3>2. jc'[t] = NextStart(jc[t]) /\ pc'[t] = 0 /\ ic'[t] = IcLoop(t).start
      BY <1>0, <3>1
    <3>3. at'[t] # "begin" /\ (at'[t] \in InBlock <=> NextStart(jc[t]) < JcLoop(t).end)
      <4>1. at \in [Threads -> Locations]
        BY <1>0 DEF Typed
      <4> QED BY <1>8, <2>7, <4>1, NextColumnsEffect DEF InBlock
    <3>4. KBlocks = q + 1
      <4>1. pc[t] + s.KC >= s.k
        BY <1>m, <2>3, <2>7
      <4> QED BY <2>4, <4>1
    <3>5. ASSUME NEW i \in Indices(IcLoop(t)), NEW j \in Indices(JcLoop(t))
          PROVE  AddedBy(t, i, j)' = AddedBy(t, i, j)
      <4>0. i \in Nat /\ IcLoop(t).start <= i /\ j \in Nat /\ j < JcLoop(t).end
        BY <1>e
      <4>1. ~(i < ic'[t])
        BY <1>b, <3>2, <4>0
      <4>2. CASE j < jc[t] + nc0[t]
        <5>1. AddedBy(t, i, j) = KBlocks
          BY <2>5, <3>4, <4>2
        <5>2. j < jc'[t]
          BY <1>b, <2>2, <3>2, <4>0, <4>2
        <5>3. AddedBy(t, i, j)' = KBlocks
          BY <1>1, <2>2, <3>3, <5>2 DEF AddedBy
        <5> QED BY <5>1, <5>3
      <4>3. CASE ~(j < jc[t] + nc0[t])
        <5>1. ~(j < jc[t])
          BY <2>2, <4>0, <4>3
        <5>2. AddedBy(t, i, j) = 0
          BY <2>5, <4>3, <5>1
        <5>3. ~(j < jc'[t]) /\ NextStart(jc[t]) < JcLoop(t).end
          BY <1>b, <2>2, <3>2, <4>0, <4>3
        <5>4. AddedBy(t, i, j)' = IF j < jc'[t] + nc0'[t] THEN (0 \div s.KC) + 0 ELSE 0
          BY <1>1, <2>2, <3>2, <3>3, <4>1, <5>3 DEF AddedBy
        <5>5. (0 \div s.KC) + 0 = 0
          <6>1. 0 \div s.KC = 0
            BY <1>m
          <6> QED BY <6>1
        <5> QED BY <5>2, <5>4, <5>5
      <4> QED BY <4>2, <4>3
    <3> QED BY <1>4, <2>0, <3>5
  <2> QED BY <2>6, <2>7
<1>9. CASE ~Begin(t) /\ ~Compute(t) /\ ~NextBlock(t)
  <2>1. /\ UNCHANGED <<jc, pc, nc0>> /\ at[t] # "begin" /\ at'[t] # "begin"
        /\ at'[t] \in InBlock <=> at[t] \in InBlock
    BY <1>9, Trace DEF InBlock
  <2>2. added' = added /\ ic' = ic
    BY <1>9 DEF Step, SendBuffer, ReceiveBuffer, Pack, PackSlice, Release, Barriers, Arrive, Leave,
                loops
  <2>3. \A i, j : AddedBy(t, i, j)' = AddedBy(t, i, j)
    BY <1>1, <2>1, <2>2 DEF AddedBy
  <2> QED BY <1>4, <2>2, <2>3
<1> QED
  BY <1>5, <1>6, <1>7, <1>8, <1>9

----------------------------------------------------------------------------
(* The theorems.                                                           *)

\* Before the call everything is as it should be.
LEMMA InitInv ==
  ASSUME Init
  PROVE  IInv
<1>0. s \in Shapes
  BY DEF Init
<1>1. \A t \in Threads : at[t] = "begin"
  BY DEF Init
<1>2. \A t \in Threads : passed[t] = 0 /\ entered[t] = 0 /\ temp[t] = -1 /\ buf[t] = 0
  BY DEF Init
<1>3. heap = <<>> /\ Len(heap) = 0 /\ \A g \in Teams : sent_object[g] = 0
  BY DEF Init, Teams
<1>4. ASSUME NEW t \in Threads
      PROVE  ~Begun(t) /\ at[t] \notin InBlock /\ Off(t) = 0 /\ Base(t) = 0 /\ Sent(t) = 0
  <2>1. JcId(t) \in Teams
    BY <1>0, Ids
  <2>2. Off(t) = 0
    BY <1>1 DEF Off
  <2>3. Base(t) = 0
    BY <1>2, <2>2 DEF Base
  <2>4. Sent(t) = 0
    BY <1>3, <2>1 DEF Sent
  <2> QED BY <1>1, <2>2, <2>3, <2>4 DEF Begun, InBlock
<1>5. Typed
  <2>1. at \in [Threads -> Locations]
    BY DEF Init, Locations
  <2>2. jcs \in [Threads -> [start : Int, end : Int]] /\ ics \in [Threads -> [start : Int, end : Int]]
    BY DEF Init, Span
  <2>3. /\ jc \in [Threads -> Nat] /\ pc \in [Threads -> Nat] /\ ic \in [Threads -> Nat]
        /\ nc0 \in [Threads -> Int] /\ buf \in [Threads -> Nat] /\ temp \in [Threads -> Int]
        /\ entered \in [Threads -> Nat] /\ passed \in [Threads -> Nat]
    BY DEF Init
  <2>4. sent_object \in [Teams -> Nat] /\ added \in [Elements -> Nat]
    BY DEF Init, Teams, Elements
  <2>5. heap \in Seq(PackBuffers)
    BY <1>3
  <2> QED BY <1>0, <2>1, <2>2, <2>3, <2>4, <2>5 DEF Typed
<1>6. Control
  BY <1>1, <1>2 DEF Control, Waiting
<1>7. Loops /\ Accumulator
  BY <1>4 DEF Loops, Accumulator
<1>8. Lockstep
  <2>1. ASSUME NEW t \in Threads, NEW u \in TeamOf(t)
        PROVE  InStep(t, u)
    <3>1. u \in Threads
      BY DEF TeamOf
    <3> QED BY <1>2, <1>4, <3>1 DEF InStep
  <2>2. \A t \in Threads : Base(t) >= 0 /\ ~Begun(t)
    BY <1>4
  <2> QED BY <2>1, <2>2 DEF Lockstep
<1>9. Buffers
  <2>1. \A t \in Threads : buf[t] = 0 /\ Sent(t) = 0 /\ Base(t) = 0 /\ at[t] \notin PastSend
    BY <1>1, <1>2, <1>4 DEF PastSend, InBlock
  <2>2. \A b \in 1 .. Len(heap) : FALSE
    BY <1>3
  <2>3. \A g \in Teams : sent_object[g] <= Len(heap)
    BY <1>3
  <2>4. \A t \in Threads : ~(Base(t) > 0)
    BY <2>1
  <2> QED BY <1>3, <2>1, <2>2, <2>3, <2>4 DEF Buffers
<1>10. Contents
  BY <1>1 DEF Contents
<1>11. Result
  <2>1. ASSUME NEW t \in Threads, NEW i \in Indices(IcLoop(t)), NEW j \in Indices(JcLoop(t))
        PROVE  added[<<i, j>>] = AddedBy(t, i, j)
    <3>1. /\ JcLoop(t).start \in Nat /\ JcLoop(t).end \in Nat /\ JcLoop(t).end <= s.n
          /\ IcLoop(t).start \in Nat /\ IcLoop(t).end \in Nat /\ IcLoop(t).end <= s.m
      BY <1>0, LoopBounds
    <3>2. s.m \in Nat /\ s.n \in Nat
      BY <1>0, ShapeFacts
    <3>3. i \in 0 .. s.m - 1 /\ j \in 0 .. s.n - 1
      BY <3>1, <3>2 DEF Indices
    <3>4. added = [e \in (0 .. s.m - 1) \X (0 .. s.n - 1) |-> 0]
      BY DEF Init
    <3>5. added[<<i, j>>] = 0
      BY <3>3, <3>4
    <3> QED BY <1>1, <3>5 DEF AddedBy
  <2> QED BY <2>1 DEF Result
<1> QED
  BY <1>5, <1>6, <1>7, <1>8, <1>9, <1>10, <1>11 DEF IInv

\* Whatever a thread does next keeps everything in place.
LEMMA NextInv ==
  ASSUME IInv, Next
  PROVE  IInv'
<1>1. PICK t \in Threads : Step(t)
  BY DEF Next
<1>2. Typed' /\ Control' /\ Loops' /\ Accumulator'
  BY <1>1, TypedStep, ControlStep, LoopsStep, AccumulatorStep
<1>3. Lockstep' /\ Buffers' /\ Contents' /\ Result'
  BY <1>1, LockstepStep, BuffersStep, ContentsStep, ResultStep
<1> QED
  BY <1>2, <1>3 DEF IInv

\* Nothing changes when no variable does.
LEMMA StutterInv ==
  ASSUME IInv, UNCHANGED vars
  PROVE  IInv'
<1>1. /\ s' = s /\ at' = at /\ jcs' = jcs /\ ics' = ics /\ jc' = jc /\ pc' = pc /\ ic' = ic
      /\ nc0' = nc0 /\ buf' = buf /\ sent_object' = sent_object /\ heap' = heap /\ temp' = temp
      /\ entered' = entered /\ passed' = passed /\ added' = added
  BY DEF vars
<1>2. /\ Threads' = Threads /\ Teams' = Teams /\ Elements' = Elements /\ Packs' = Packs
      /\ KBlocks' = KBlocks
      /\ \A t : /\ (Chief(t)' <=> Chief(t)) /\ JcId(t)' = JcId(t) /\ JcLoop(t)' = JcLoop(t)
                /\ IcLoop(t)' = IcLoop(t) /\ TeamOf(t)' = TeamOf(t)
                /\ Width(t)' = Width(t) /\ Size(t)' = Size(t)
      /\ \A t, w : Slice(t, w)' = Slice(t, w)
      /\ \A j, e : BlockWidth(j, e)' = BlockWidth(j, e)
      /\ \A j, p : NextPanel(j, p)' = NextPanel(j, p)
  BY <1>1, Frozen
<1>3. \A t : /\ (Begun(t)' <=> Begun(t)) /\ Base(t)' = Base(t) /\ Sent(t)' = Sent(t)
             /\ Panel(t)' = Panel(t) /\ PanelsUpTo(t)' = PanelsUpTo(t)
             /\ PanelsBefore(t)' = PanelsBefore(t)
  BY <1>1, <1>2 DEF Begun, Base, Off, Sent, Panel, PanelsUpTo, PanelsBefore
<1>4. Typed'
  BY <1>1, <1>2 DEF IInv, Typed
<1>5. Control'
  BY <1>1, <1>2 DEF IInv, Control
<1>6. Loops' /\ Accumulator'
  BY <1>1, <1>2, <1>3 DEF IInv, Loops, Accumulator
<1>7. Lockstep'
  BY <1>1, <1>2, <1>3 DEF IInv, Lockstep, InStep
<1>8. Buffers'
  BY <1>1, <1>2, <1>3 DEF IInv, Buffers
<1>9. Contents'
  BY <1>1, <1>2, <1>3 DEF IInv, Contents, Holds
<1>10. Result'
  BY <1>1, <1>2 DEF IInv, Result, AddedBy
<1> QED
  BY <1>4, <1>5, <1>6, <1>7, <1>8, <1>9, <1>10 DEF IInv

\* The inductive invariant of the driver: the team of a communicator packs and
\* computes its panels in the same order and never more than one panel apart,
\* and each thread's slice holds what it packed until the last reader is done.
THEOREM FiveLoopInvariant == Spec => []IInv
<1>1. Init => IInv
  BY InitInv
<1>2. IInv /\ [Next]_vars => IInv'
  BY NextInv, StutterInv
<1> QED
  BY <1>1, <1>2, PTL DEF Spec

\* Nobody computes with a panel that is incomplete, of another block or freed:
\* the two barriers of dlp_gemm_s8s8s32.c's pc loop are enough.
THEOREM FiveLoopPanelIntact == Spec => []PanelIntact
<1>1. IInv => PanelIntact
  BY IntactFromInvariant
<1> QED
  BY <1>1, FiveLoopInvariant, PTL

\* A slice is written while nobody reads, and no other thread writes it.
THEOREM FiveLoopPackExclusive == Spec => []PackExclusive
<1>1. IInv => PackExclusive
  BY ExclusiveFromInvariant
<1> QED
  BY <1>1, FiveLoopInvariant, PTL

\* The pack buffer made for the first panel holds every later one, and the
\* temporary C buffer every block, cut short by a reordered panel or not.
THEOREM FiveLoopBufferFits == Spec => []BufferFits
<1>1. IInv => BufferFits
  BY FitsFromInvariant
<1> QED
  BY <1>1, FiveLoopInvariant, PTL

\* The chief frees the pack buffer once and leaves none behind.
THEOREM FiveLoopBuffersFreedOnce == Spec => []BuffersFreedOnce
<1>1. IInv => BuffersFreedOnce
  BY FreedFromInvariant
<1> QED
  BY <1>1, FiveLoopInvariant, PTL

\* Every element of C receives every k block exactly once, whatever the ways,
\* the blocking and the cuts at the panels of a reordered B.
THEOREM FiveLoopResultComplete == Spec => []ResultComplete
<1>1. IInv => ResultComplete
  BY CompleteFromInvariant
<1> QED
  BY <1>1, FiveLoopInvariant, PTL
=============================================================================
