------------------------- MODULE ReorderGemmProofs -------------------------
(***************************************************************************)
(* A reordered B is where its readers look for it, for every shape, block  *)
(* sizes, hints, thread counts and rows.                                   *)
(*                                                                         *)
(* The argument: an offset of the buffer belongs to one block of NR        *)
(* columns and to at most one element, so that what a thread packs for its *)
(* columns is its own and does not depend on where its range was cut; and  *)
(* every call, whatever its inits do in between, comes to the width,       *)
(* panels and heights (Agreed) that follow from the metadata alone.  The   *)
(* buffer is then, in every phase, the image of B as far as the threads    *)
(* have come.                                                              *)
(***************************************************************************)
EXTENDS ReorderGemm, SharingProofs

----------------------------------------------------------------------------
(* Multiples and rounding up.                                              *)

Divides(d, x) == \E q \in Nat : x = q * d

\* A number without remainder is a multiple.
LEMMA DividesIs ==
  ASSUME NEW x \in Nat, NEW d \in Nat \ {0}
  PROVE  x % d = 0 <=> Divides(d, x)
<1>1. x \div d \in Nat /\ x % d \in Nat /\ x = (x \div d) * d + (x % d)
  BY DivMod
<1>2. ASSUME x % d = 0 PROVE Divides(d, x)
  BY <1>1, <1>2 DEF Divides
<1>3. ASSUME NEW q \in Nat, x = q * d PROVE x % d = 0
  BY <1>3, Multiple
<1> QED BY <1>2, <1>3 DEF Divides

\* A multiple of a multiple is one.
LEMMA DividesTrans ==
  ASSUME NEW c \in Nat, NEW d \in Nat, NEW x \in Nat, Divides(c, d), Divides(d, x)
  PROVE  Divides(c, x)
<1>1. PICK p \in Nat : d = p * c
  BY DEF Divides
<1>2. PICK q \in Nat : x = q * d
  BY DEF Divides
<1>3. x = (q * p) * c /\ q * p \in Nat
  BY <1>1, <1>2
<1> QED BY <1>3 DEF Divides

\* Sums and differences of multiples are multiples.
LEMMA DividesSum ==
  ASSUME NEW d \in Nat, NEW x \in Nat, NEW y \in Nat, Divides(d, x), Divides(d, y)
  PROVE  /\ Divides(d, x + y)
         /\ y <= x /\ d > 0 => Divides(d, x - y)
<1>1. PICK p \in Nat : x = p * d
  BY DEF Divides
<1>2. PICK q \in Nat : y = q * d
  BY DEF Divides
<1>3. x + y = (p + q) * d /\ p + q \in Nat
  BY <1>1, <1>2
<1>4. ASSUME y <= x, d > 0 PROVE Divides(d, x - y)
  <2>1. x - y = (p - q) * d
    BY <1>1, <1>2
  <2>2. p - q > -1
    BY <1>4, <2>1
  <2>3. p - q \in Nat
    BY <2>2
  <2> QED BY <2>1, <2>3 DEF Divides
<1> QED BY <1>3, <1>4 DEF Divides

\* A factor cancels in a comparison.
LEMMA LessTimes ==
  ASSUME NEW a \in Int, NEW b \in Int, NEW d \in Nat \ {0}, a * d < b * d
  PROVE  a < b
<1>1. SUFFICES ASSUME b <= a PROVE FALSE
  OBVIOUS
<1>2. PICK c \in Nat : a = b + c
  <2>1. a - b \in Nat /\ a = b + (a - b)
    BY <1>1
  <2> QED BY <2>1
<1>3. a * d = b * d + c * d
  BY <1>2
<1>4. c * d \in Nat
  OBVIOUS
<1> QED BY <1>3, <1>4

\* Two multiples that differ are a divisor apart.
LEMMA DividesApart ==
  ASSUME NEW d \in Nat \ {0}, NEW x \in Nat, NEW y \in Nat, Divides(d, x), Divides(d, y), x < y
  PROVE  x + d <= y
<1>1. PICK p \in Nat : x = p * d
  BY DEF Divides
<1>2. PICK q \in Nat : y = q * d
  BY DEF Divides
<1>3. p < q
  BY <1>1, <1>2, LessTimes
<1>4. (p + 1) * d <= q * d
  BY <1>3, TimesMonotone
<1> QED BY <1>1, <1>2, <1>4

\* Rounding up gives the first multiple that is not below.
LEMMA RoundUp ==
  ASSUME NEW x \in Nat, NEW d \in Nat \ {0}
  PROVE  /\ dlp_reorder_round_up(x, d) \in Nat
         /\ Divides(d, dlp_reorder_round_up(x, d))
         /\ x <= dlp_reorder_round_up(x, d) /\ dlp_reorder_round_up(x, d) < x + d
<1> DEFINE y == x + d - 1
           q == y \div d
           r == y % d
           u == q * d
<1>1. y \in Nat
  OBVIOUS
<1>2. q \in Nat /\ r \in Nat /\ r < d /\ y = u + r
  BY <1>1, DivMod
<1>3. u \in Nat
  BY <1>2
<1>4. dlp_reorder_round_up(x, d) = u
  BY DEF dlp_reorder_round_up
<1>5. Divides(d, u)
  BY <1>2 DEF Divides
<1> HIDE DEF u, r, q
<1>6. x <= u /\ u < x + d
  BY <1>2, <1>3
<1> QED BY <1>3, <1>4, <1>5, <1>6

\* And any multiple in that range is it.
LEMMA RoundIs ==
  ASSUME NEW x \in Nat, NEW d \in Nat \ {0}, NEW u \in Nat, Divides(d, u), x <= u, u < x + d
  PROVE  dlp_reorder_round_up(x, d) = u
<1> DEFINE v == dlp_reorder_round_up(x, d)
<1>1. v \in Nat /\ Divides(d, v) /\ x <= v /\ v < x + d
  BY RoundUp
<1> HIDE DEF v
<1>2. ~(u < v) /\ ~(v < u)
  BY <1>1, DividesApart
<1>3. u = v
  BY <1>1, <1>2
<1> QED BY <1>3 DEF v

\* A multiple is its own rounding.
LEMMA RoundMultiple ==
  ASSUME NEW x \in Nat, NEW d \in Nat \ {0}, Divides(d, x)
  PROVE  dlp_reorder_round_up(x, d) = x
  BY RoundIs

\* Multiples may be taken out.
LEMMA RoundShift ==
  ASSUME NEW x \in Nat, NEW d \in Nat \ {0}, NEW a \in Nat, Divides(d, a)
  PROVE  dlp_reorder_round_up(a + x, d) = a + dlp_reorder_round_up(x, d)
<1> DEFINE v == dlp_reorder_round_up(x, d)
<1>1. v \in Nat /\ Divides(d, v) /\ x <= v /\ v < x + d
  BY RoundUp
<1> HIDE DEF v
<1>2. Divides(d, a + v)
  BY <1>1, DividesSum
<1>3. dlp_reorder_round_up(a + x, d) = a + v
  BY <1>1, <1>2, RoundIs
<1> QED BY <1>3 DEF v

\* A multiple below the rounding is below the number.
LEMMA RoundBelow ==
  ASSUME NEW x \in Nat, NEW d \in Nat \ {0}, NEW a \in Nat, Divides(d, a)
  PROVE  /\ a < dlp_reorder_round_up(x, d) => a < x
         /\ x <= a => dlp_reorder_round_up(x, d) <= a
<1> DEFINE v == dlp_reorder_round_up(x, d)
<1>1. v \in Nat /\ Divides(d, v) /\ x <= v /\ v < x + d
  BY RoundUp
<1> HIDE DEF v
<1>2. a < v => a + d <= v
  BY <1>1, DividesApart
<1>3. (a < v => a < x) /\ (x <= a => v <= a)
  BY <1>1, <1>2
<1> QED BY <1>3 DEF v

----------------------------------------------------------------------------
(* The layout of a B of K rows and N columns under a blocking w.           *)

\* A panel is a whole number of tiles wide, a tile of vectors, and the rows of
\* a panel are a whole number of the rows that are interleaved.
Good(N, K, w) ==
  /\ N \in Nat \ {0} /\ K \in Nat \ {0}
  /\ w.NR \in Nat \ {0} /\ w.NC \in Nat \ {0} /\ w.KC \in Nat \ {0}
  /\ Divides(min_NR, w.NR) /\ Divides(w.NR, w.NC) /\ Divides(k_factor, w.KC)

\* Rows of the panel that begins at row pc, padded.
Height(pc, K, w) == RoundK(Least(K - pc, w.KC))

\* Columns of the panel that begins at column ps, padded.
Breadth(ps, N, w) == RoundN(Least(N - ps, w.NC))

HeightFacts(pc, K, w) ==
  /\ Height(pc, K, w) \in Nat \ {0}
  /\ Divides(k_factor, Height(pc, K, w))
  /\ Least(K - pc, w.KC) <= Height(pc, K, w) /\ Height(pc, K, w) <= w.KC
  /\ pc + Height(pc, K, w) <= RoundK(K)
  /\ Height(pc, K, w) = w.KC \/ pc + Height(pc, K, w) = RoundK(K)

\* A number cut into multiples of a: rounded to d, the last piece is as long as
\* what is left of the number.
LEMMA Pieces ==
  ASSUME NEW d \in Nat \ {0}, NEW a \in Nat \ {0}, Divides(d, a),
         NEW x \in Nat, NEW p \in Nat, Divides(a, p), p < x
  PROVE  LET h == dlp_reorder_round_up(Least(x - p, a), d)
         IN  /\ h \in Nat \ {0} /\ Divides(d, h)
             /\ Least(x - p, a) <= h /\ h <= a
             /\ p + h <= dlp_reorder_round_up(x, d)
             /\ (p + a < x /\ h = a) \/ (x <= p + a /\ p + h = dlp_reorder_round_up(x, d))
<1> DEFINE h == dlp_reorder_round_up(Least(x - p, a), d)
           u == dlp_reorder_round_up(x, d)
<1>1. u \in Nat /\ x <= u
  BY RoundUp
<1>2. Divides(d, p)
  BY DividesTrans
<1>3. CASE x - p <= a
  <2> DEFINE y == x - p
  <2>1. y \in Nat /\ x = p + y /\ y > 0
    OBVIOUS
  <2> HIDE DEF y
  <2> DEFINE v == dlp_reorder_round_up(y, d)
  <2>2. v \in Nat /\ Divides(d, v) /\ y <= v
    BY <2>1, RoundUp
  <2>3. u = p + v
    BY <1>2, <2>1, RoundShift
  <2>4. y <= a
    BY <1>3 DEF y
  <2>5. v <= a
    BY <2>1, <2>4, RoundBelow
  <2>6. Least(x - p, a) = y
    BY <1>3 DEF Least, y
  <2>7. h = v
    BY <2>6
  <2> HIDE DEF v, h, u
  <2> QED BY <1>3, <2>1, <2>2, <2>3, <2>5, <2>6, <2>7 DEF h, u
<1>4. CASE ~(x - p <= a)
  <2>1. Least(x - p, a) = a
    BY <1>4 DEF Least
  <2>2. h = a
    BY <2>1, RoundMultiple
  <2> HIDE DEF h, u
  <2>3. p + a < x
    BY <1>4
  <2> QED BY <1>1, <2>1, <2>2, <2>3 DEF h, u
<1> QED BY <1>3, <1>4

\* The panels below each other take as many rows as they have, the last one
\* its share of the padding.
LEMMA HeightIs ==
  ASSUME NEW N, NEW K, NEW w, Good(N, K, w), NEW pc \in Nat, Divides(w.KC, pc), pc < K
  PROVE  HeightFacts(pc, K, w)
<1>1. k_factor \in Nat \ {0}
  BY LayoutAssumption
<1>2. w.KC \in Nat \ {0} /\ Divides(k_factor, w.KC) /\ K \in Nat
  BY DEF Good
<1>3. LET h == dlp_reorder_round_up(Least(K - pc, w.KC), k_factor)
      IN  /\ h \in Nat \ {0} /\ Divides(k_factor, h)
          /\ Least(K - pc, w.KC) <= h /\ h <= w.KC
          /\ pc + h <= dlp_reorder_round_up(K, k_factor)
          /\ (pc + w.KC < K /\ h = w.KC)
               \/ (K <= pc + w.KC /\ pc + h = dlp_reorder_round_up(K, k_factor))
  BY <1>1, <1>2, Pieces
<1> QED BY <1>3 DEF HeightFacts, Height, RoundK

BreadthFacts(ps, N, w) ==
  /\ Breadth(ps, N, w) \in Nat \ {0}
  /\ Divides(min_NR, Breadth(ps, N, w))
  /\ Least(N - ps, w.NC) <= Breadth(ps, N, w) /\ Breadth(ps, N, w) <= w.NC
  /\ ps + Breadth(ps, N, w) <= RoundN(N)
  /\ \/ ps + w.NC < N /\ Breadth(ps, N, w) = w.NC
     \/ N <= ps + w.NC /\ ps + Breadth(ps, N, w) = RoundN(N)

\* The same of the panels beside each other.
LEMMA BreadthIs ==
  ASSUME NEW N, NEW K, NEW w, Good(N, K, w), NEW ps \in Nat, Divides(w.NC, ps), ps < N
  PROVE  BreadthFacts(ps, N, w)
<1>1. min_NR \in Nat \ {0}
  BY LayoutAssumption
<1>2. w.NC \in Nat \ {0} /\ N \in Nat
  BY DEF Good
<1>3. Divides(min_NR, w.NC)
  BY <1>1, DividesTrans DEF Good
<1>4. LET h == dlp_reorder_round_up(Least(N - ps, w.NC), min_NR)
      IN  /\ h \in Nat \ {0} /\ Divides(min_NR, h)
          /\ Least(N - ps, w.NC) <= h /\ h <= w.NC
          /\ ps + h <= dlp_reorder_round_up(N, min_NR)
          /\ (ps + w.NC < N /\ h = w.NC)
               \/ (N <= ps + w.NC /\ ps + h = dlp_reorder_round_up(N, min_NR))
  BY <1>1, <1>2, <1>3, Pieces
<1> QED BY <1>4 DEF BreadthFacts, Breadth, RoundN

\* The first column of a panel.
LEMMA PanelStart ==
  ASSUME NEW j \in Nat, NEW w, w.NC \in Nat \ {0}
  PROVE  /\ panel_start(j, w) \in Nat /\ Divides(w.NC, panel_start(j, w))
         /\ panel_start(j, w) <= j /\ j < panel_start(j, w) + w.NC
<1> DEFINE q == j \div w.NC
           r == j % w.NC
           u == q * w.NC
<1>1. q \in Nat /\ r \in Nat /\ r < w.NC /\ j = u + r
  BY DivMod
<1>2. u \in Nat /\ Divides(w.NC, u)
  BY <1>1 DEF Divides
<1>3. panel_start(j, w) = u
  BY DEF panel_start
<1> HIDE DEF u, r, q
<1> QED BY <1>1, <1>2, <1>3

\* It is the only multiple of NC in reach.
LEMMA PanelStartIs ==
  ASSUME NEW j \in Nat, NEW w, w.NC \in Nat \ {0}, NEW p \in Nat, Divides(w.NC, p),
         p <= j, j < p + w.NC
  PROVE  panel_start(j, w) = p
<1> DEFINE s == panel_start(j, w)
<1>1. s \in Nat /\ Divides(w.NC, s) /\ s <= j /\ j < s + w.NC
  BY PanelStart
<1> HIDE DEF s
<1>2. ~(s < p) /\ ~(p < s)
  BY <1>1, DividesApart
<1>3. s = p
  BY <1>1, <1>2
<1> QED BY <1>3 DEF s

\* Rounding up adds what is missing.
LEMMA RoundAdds ==
  ASSUME NEW x \in Nat, NEW d \in Nat \ {0}
  PROVE  dlp_reorder_round_up(x, d) = x + (IF x % d # 0 THEN d - (x % d) ELSE 0)
<1> DEFINE q == x \div d
           r == x % d
           u == q * d
<1>1. q \in Nat /\ r \in Nat /\ r < d /\ x = u + r
  BY DivMod
<1>2. u \in Nat /\ Divides(d, u)
  <2>1. u \in Nat
    BY <1>1
  <2>2. Divides(d, u)
    BY <1>1 DEF Divides
  <2> QED BY <2>1, <2>2
<1>3. (q + 1) * d = u + d /\ q + 1 \in Nat
  BY <1>1
<1>4. Divides(d, u + d)
  BY <1>3 DEF Divides
<1> HIDE DEF q, u
<1>5. CASE r = 0
  <2> HIDE DEF r
  <2>1. x = u
    BY <1>1, <1>2, <1>5
  <2>2. dlp_reorder_round_up(x, d) = x
    BY <1>2, <2>1, RoundMultiple
  <2> QED BY <1>5, <2>2 DEF r
<1>6. CASE r # 0
  <2> HIDE DEF r
  <2>1. u + d \in Nat /\ x <= u + d /\ u + d < x + d /\ u + d = x + (d - r)
    BY <1>1, <1>2, <1>6
  <2>2. dlp_reorder_round_up(x, d) = u + d
    BY <1>4, <2>1, RoundIs
  <2> QED BY <1>6, <2>1, <2>2 DEF r
<1> QED BY <1>5, <1>6

\* What the walk over the panels takes for the width of one is its padded
\* width.
LEMMA WidthIs ==
  ASSUME NEW N, NEW K, NEW w, Good(N, K, w), NEW j \in Nat, j < N
  PROVE  dlp_gemm_get_Bpanel_width_for_kmd_traversal(j, N, w) = Breadth(panel_start(j, w), N, w)
<1> DEFINE ps == panel_start(j, w)
           q == N \div w.NC
           r == N % w.NC
           last == q * w.NC
           b == Breadth(ps, N, w)
           u == RoundN(N)
<1>1. N \in Nat \ {0} /\ w.NC \in Nat \ {0} /\ min_NR \in Nat \ {0}
  BY LayoutAssumption DEF Good
<1>2. ps \in Nat /\ Divides(w.NC, ps) /\ ps <= j /\ j < ps + w.NC
  BY <1>1, PanelStart
<1>3. q \in Nat /\ r \in Nat /\ r < w.NC /\ N = last + r
  BY <1>1, DivMod
<1>4. last \in Nat /\ Divides(w.NC, last)
  <2>1. last \in Nat
    BY <1>1, <1>3
  <2>2. Divides(w.NC, last)
    BY <1>3 DEF Divides
  <2> QED BY <2>1, <2>2
<1>5. u = N + (IF N % min_NR # 0 THEN min_NR - (N % min_NR) ELSE 0)
  BY <1>1, RoundAdds DEF RoundN
<1>6. ps < N
  BY <1>1, <1>2
<1>7. BreadthFacts(ps, N, w)
  BY <1>2, <1>6, BreadthIs
<1>8. /\ b \in Nat
      /\ (ps + w.NC < N /\ b = w.NC) \/ (N <= ps + w.NC /\ ps + b = u)
      /\ b <= w.NC /\ Least(N - ps, w.NC) <= b
  BY <1>7 DEF BreadthFacts
<1>9. dlp_gemm_get_Bpanel_width_for_kmd_traversal(j, N, w) =
        IF r # 0 /\ j >= last THEN u - last ELSE w.NC
  <2>1. u - last = N - last + (IF N % min_NR # 0 THEN min_NR - (N % min_NR) ELSE 0)
    <3> DEFINE add == IF N % min_NR # 0 THEN min_NR - (N % min_NR) ELSE 0
    <3>1. add \in Int
      BY <1>1, DivMod
    <3> HIDE DEF add, last
    <3>2. u = N + add
      BY <1>5 DEF add
    <3>3. u - last = N - last + add
      BY <1>1, <1>4, <3>1, <3>2
    <3> QED BY <3>3 DEF add
  <2> QED BY <2>1 DEF dlp_gemm_get_Bpanel_width_for_kmd_traversal
<1> HIDE DEF q, r, last, ps, b, u
<1>10. CASE r # 0 /\ j >= last
  <2>1. j < last + w.NC
    BY <1>1, <1>3, <1>4, <1>10
  <2>2. ps = last
    BY <1>1, <1>4, <1>10, <2>1, PanelStartIs DEF ps
  <2>3. N <= ps + w.NC
    BY <1>1, <1>3, <1>4, <2>2
  <2>4. ps + b = u
    BY <1>1, <1>2, <1>8, <2>3
  <2>5. u - last = b
    BY <1>2, <1>4, <1>8, <2>2, <2>4
  <2> QED BY <1>9, <1>10, <2>5 DEF ps, b
<1>11. CASE ~(r # 0 /\ j >= last)
  <2>1. ps < last
    <3>1. CASE r = 0
      BY <1>1, <1>3, <1>4, <1>6, <3>1
    <3>2. CASE r # 0
      BY <1>1, <1>2, <1>4, <1>11, <3>2
    <3> QED BY <3>1, <3>2
  <2>2. ps + w.NC <= last
    BY <1>1, <1>2, <1>4, <2>1, DividesApart
  <2>3. ps + w.NC <= N
    BY <1>1, <1>2, <1>3, <1>4, <2>2
  <2>4. Least(N - ps, w.NC) = w.NC
    BY <1>1, <1>2, <2>3 DEF Least
  <2>5. b = w.NC
    BY <1>1, <1>8, <2>4
  <2> QED BY <1>9, <1>11, <2>5 DEF ps, b
<1> QED BY <1>10, <1>11

----------------------------------------------------------------------------
(* An offset of the buffer tells its panel, its rows and its block of NR   *)
(* columns.                                                                *)

PanelOf(o, K, w) == (o \div (w.NC * RoundK(K))) * w.NC
RowOf(o, N, K, w) ==
  ((o - PanelOf(o, K, w) * RoundK(K)) \div (Breadth(PanelOf(o, K, w), N, w) * w.KC)) * w.KC
RestOf(o, N, K, w) ==
  o - PanelOf(o, K, w) * RoundK(K) - Breadth(PanelOf(o, K, w), N, w) * RowOf(o, N, K, w)
BlockOf(o, N, K, w) ==
  PanelOf(o, K, w)
  + (RestOf(o, N, K, w) \div (w.NR * Height(RowOf(o, N, K, w), K, w))) * w.NR

\* ps and pc are the first column and row of a panel.
IsPanel(ps, pc, N, K, w) ==
  /\ ps \in Nat /\ Divides(w.NC, ps) /\ ps < N
  /\ pc \in Nat /\ Divides(w.KC, pc) /\ pc < K

\* Offset z of that panel.
Offset(ps, pc, z, N, K, w) == ps * RoundK(K) + Breadth(ps, N, w) * pc + z

Decodes(o, ps, pc, z, N, K, w) ==
  /\ o \in Nat /\ o < RoundN(N) * RoundK(K)
  /\ PanelOf(o, K, w) = ps /\ RowOf(o, N, K, w) = pc /\ RestOf(o, N, K, w) = z

\* The padded number of rows.
LEMMA RowsPadded ==
  ASSUME NEW N, NEW K, NEW w, Good(N, K, w)
  PROVE  RoundK(K) \in Nat \ {0} /\ RoundN(N) \in Nat \ {0} /\ K <= RoundK(K) /\ N <= RoundN(N)
<1>1. K \in Nat \ {0} /\ N \in Nat \ {0} /\ k_factor \in Nat \ {0} /\ min_NR \in Nat \ {0}
  BY LayoutAssumption DEF Good
<1>2. RoundK(K) \in Nat /\ K <= RoundK(K)
  BY <1>1, RoundUp DEF RoundK
<1>3. RoundN(N) \in Nat /\ N <= RoundN(N)
  BY <1>1, RoundUp DEF RoundN
<1> HIDE DEF RoundK, RoundN
<1> QED BY <1>1, <1>2, <1>3

\* The panels do not overlap: an offset of one decodes to it.
LEMMA Decode ==
  ASSUME NEW N, NEW K, NEW w, Good(N, K, w), NEW ps, NEW pc, IsPanel(ps, pc, N, K, w),
         NEW z \in Nat, z < Breadth(ps, N, w) * Height(pc, K, w)
  PROVE  Decodes(Offset(ps, pc, z, N, K, w), ps, pc, z, N, K, w)
<1> DEFINE b == Breadth(ps, N, w)
           h == Height(pc, K, w)
           H == RoundK(K)
           U == RoundN(N)
           A == w.NC
           c == w.KC
           o == Offset(ps, pc, z, N, K, w)
           y == b * pc + z
<1>1. A \in Nat \ {0} /\ c \in Nat \ {0} /\ H \in Nat \ {0} /\ U \in Nat \ {0}
  BY RowsPadded DEF Good
<1>2. ps \in Nat /\ ps < N /\ pc \in Nat /\ pc < K /\ Divides(A, ps) /\ Divides(c, pc)
  BY DEF IsPanel
<1>3. BreadthFacts(ps, N, w) /\ HeightFacts(pc, K, w)
  BY <1>2, BreadthIs, HeightIs
<1>4. b \in Nat \ {0} /\ b <= A /\ ps + b <= U
  BY <1>3 DEF BreadthFacts
<1>5. h \in Nat \ {0} /\ h <= c /\ pc + h <= H
  BY <1>3 DEF HeightFacts
<1>6. PICK J \in Nat : ps = J * A
  BY <1>2 DEF Divides
<1>7. PICK R \in Nat : pc = R * c
  BY <1>2 DEF Divides
<1>8. o = ps * H + b * pc + z
  BY DEF Offset
<1> HIDE DEF b, h, H, U, A, c, o
<1>9. z < b * h
  BY DEF b, h
<1>10. y \in Nat /\ y < (pc + h) * b
  <2>1. (pc + h) * b = b * pc + b * h /\ b * pc \in Nat /\ b * h \in Nat
    BY <1>2, <1>4, <1>5
  <2> QED BY <1>9, <2>1
<1>11. (pc + h) * b <= H * b
  BY <1>1, <1>2, <1>4, <1>5, TimesMonotone
<1>12. b * H <= A * H /\ A * H \in Nat
  BY <1>1, <1>4, TimesMonotone
<1>13. b * H = H * b
  BY <1>1, <1>4
<1>14. y < A * H /\ y < b * H
  <2> HIDE DEF y
  <2>1. (pc + h) * b \in Int /\ H * b \in Int /\ b * H \in Int /\ A * H \in Int
    BY <1>1, <1>2, <1>4, <1>5
  <2> QED BY <1>10, <1>11, <1>12, <1>13, <2>1
<1>15. o = J * (A * H) + y
  <2>1. ps * H = J * (A * H)
    BY <1>1, <1>6
  <2> QED BY <1>1, <1>2, <1>4, <1>8, <2>1
<1>16. A * H \in Nat \ {0}
  BY <1>1, WaysBelow
<1>17. o \div (A * H) = J
  <2> DEFINE AH == A * H
  <2>1. AH \in Nat \ {0} /\ y < AH /\ o = J * AH + y
    BY <1>14, <1>15, <1>16
  <2> HIDE DEF AH, y
  <2>2. o \div AH = J
    BY <1>10, <2>1, DivUnique
  <2> QED BY <2>2 DEF AH
<1>18. PanelOf(o, K, w) = ps
  BY <1>6, <1>17 DEF PanelOf, A, H
<1>19. o - ps * H = y
  BY <1>1, <1>2, <1>4, <1>8
<1>20. b * c \in Nat \ {0} /\ z < b * c
  <2>1. h * b <= c * b /\ h * b = b * h /\ c * b = b * c
    BY <1>1, <1>4, <1>5, TimesMonotone
  <2>2. b * c \in Nat \ {0}
    BY <1>1, <1>4, WaysBelow
  <2>3. b * h \in Nat
    BY <1>4, <1>5
  <2> QED BY <1>9, <2>1, <2>2, <2>3
<1>21. y = R * (b * c) + z
  BY <1>1, <1>4, <1>7
<1>22. y \div (b * c) = R
  <2> DEFINE bc == b * c
  <2>1. bc \in Nat \ {0} /\ z < bc /\ y = R * bc + z
    BY <1>20, <1>21
  <2> HIDE DEF bc, y
  <2>2. y \div bc = R
    BY <2>1, DivUnique
  <2> QED BY <2>2 DEF bc
<1>23. RowOf(o, N, K, w) = pc
  BY <1>7, <1>18, <1>19, <1>22 DEF RowOf, b, c, H
<1>24. RestOf(o, N, K, w) = z
  <2>1. o - ps * H - b * pc = z
    BY <1>1, <1>2, <1>4, <1>8
  <2> QED BY <1>18, <1>23, <2>1 DEF RestOf, b, H
<1>25. o \in Nat /\ o < U * H
  <2>1. (ps + b) * H <= U * H /\ U * H \in Nat
    BY <1>1, <1>2, <1>4, TimesMonotone
  <2>2. (ps + b) * H = ps * H + b * H /\ ps * H \in Nat /\ b * H \in Nat
    BY <1>1, <1>2, <1>4
  <2>3. o = ps * H + y
    BY <1>1, <1>2, <1>4, <1>8
  <2> HIDE DEF y
  <2> QED BY <1>10, <1>14, <2>1, <2>2, <2>3
<1> QED BY <1>18, <1>23, <1>24, <1>25 DEF Decodes, o, U, H

Encodes(o, ps, pc, z, N, K, w) ==
  /\ IsPanel(ps, pc, N, K, w)
  /\ z \in Nat /\ z < Breadth(ps, N, w) * Height(pc, K, w)
  /\ o = Offset(ps, pc, z, N, K, w)

\* The panels fill the buffer: every offset is in one.
LEMMA Encode ==
  ASSUME NEW N, NEW K, NEW w, Good(N, K, w), NEW o \in Nat, o < RoundN(N) * RoundK(K)
  PROVE  Encodes(o, PanelOf(o, K, w), RowOf(o, N, K, w), RestOf(o, N, K, w), N, K, w)
<1> DEFINE H == RoundK(K)
           U == RoundN(N)
           A == w.NC
           c == w.KC
           AH == A * H
           J == o \div AH
           y == o % AH
           ps == J * A
<1>1. A \in Nat \ {0} /\ c \in Nat \ {0} /\ H \in Nat \ {0} /\ U \in Nat \ {0}
  BY RowsPadded DEF Good
<1>2. N \in Nat \ {0} /\ K \in Nat \ {0} /\ k_factor \in Nat \ {0} /\ min_NR \in Nat \ {0}
  BY LayoutAssumption DEF Good
<1>3. AH \in Nat \ {0}
  BY <1>1, WaysBelow
<1>4. J \in Nat /\ y \in Nat /\ y < AH /\ o = J * AH + y
  <2> HIDE DEF AH
  <2> QED BY <1>3, DivMod
<1>5. ps \in Nat /\ Divides(A, ps)
  <2>1. ps \in Nat
    BY <1>1, <1>4
  <2>2. Divides(A, ps)
    BY <1>4 DEF Divides
  <2> QED BY <2>1, <2>2
<1>6. PanelOf(o, K, w) = ps
  BY DEF PanelOf
<1> HIDE DEF J, y
<1>7. J * AH = ps * H
  BY <1>1, <1>4
<1>8. U * H \in Nat /\ ps * H \in Nat
  BY <1>1, <1>5
<1>9. o < U * H
  OBVIOUS
<1> HIDE DEF H, U, A, c, AH, ps
<1>10. ps * H < U * H
  BY <1>4, <1>7, <1>8, <1>9
<1>11. ps < U
  BY <1>1, <1>5, <1>10, LessTimes
<1>12. Divides(min_NR, ps)
  <2>1. Divides(min_NR, w.NR) /\ Divides(w.NR, A) /\ w.NR \in Nat
    BY DEF Good, A
  <2>2. Divides(min_NR, A)
    BY <1>1, <1>2, <2>1, DividesTrans
  <2> QED BY <1>1, <1>2, <1>5, <2>2, DividesTrans
<1>13. ps < N
  <2>1. ps < dlp_reorder_round_up(N, min_NR)
    BY <1>11 DEF U, RoundN
  <2> QED BY <1>2, <1>5, <1>12, <2>1, RoundBelow
<1>14. BreadthFacts(ps, N, w)
  BY <1>5, <1>13, BreadthIs DEF A
<1> DEFINE b == Breadth(ps, N, w)
           bc == b * c
           R == y \div bc
           z == y % bc
           pc == R * c
<1>15. b \in Nat \ {0} /\ (b = A \/ ps + b = U)
  BY <1>14 DEF BreadthFacts, A, U
<1> HIDE DEF b
<1>16. y < b * H
  <2>1. CASE b = A
    BY <1>4, <2>1 DEF AH
  <2>2. CASE ps + b = U
    <3>1. U * H = ps * H + b * H /\ b * H \in Nat
      BY <1>1, <1>5, <1>15, <2>2
    <3> QED BY <1>4, <1>7, <1>8, <1>9, <3>1
  <2> QED BY <1>15, <2>1, <2>2
<1>17. bc \in Nat \ {0}
  BY <1>1, <1>15, WaysBelow
<1>18. R \in Nat /\ z \in Nat /\ z < bc /\ y = R * bc + z
  <2> HIDE DEF bc
  <2> QED BY <1>4, <1>17, DivMod
<1>19. pc \in Nat /\ Divides(c, pc)
  <2>1. pc \in Nat
    BY <1>1, <1>18
  <2>2. Divides(c, pc)
    BY <1>18 DEF Divides
  <2> QED BY <2>1, <2>2
<1>20. R * bc = pc * b /\ b * pc = pc * b
  <2>1. R \in Nat
    BY <1>18
  <2> HIDE DEF R
  <2> QED BY <1>1, <1>15, <2>1
<1>21. o - ps * H = y
  BY <1>4, <1>7, <1>8
<1>22. RowOf(o, N, K, w) = pc
  BY <1>6, <1>21 DEF RowOf, b, c, H
<1> HIDE DEF R, z, pc, bc
<1>23. pc * b \in Nat /\ H * b \in Nat /\ b * H = H * b
  BY <1>1, <1>15, <1>19
<1>24. pc * b < H * b
  BY <1>4, <1>16, <1>18, <1>20, <1>23
<1>25. pc < H
  BY <1>1, <1>15, <1>19, <1>24, LessTimes
<1>26. Divides(k_factor, pc)
  <2>1. Divides(k_factor, c)
    BY DEF Good, c
  <2> QED BY <1>1, <1>2, <1>19, <2>1, DividesTrans
<1>27. pc < K
  <2>1. pc < dlp_reorder_round_up(K, k_factor)
    BY <1>25 DEF H, RoundK
  <2> QED BY <1>2, <1>19, <1>26, <2>1, RoundBelow
<1>28. HeightFacts(pc, K, w)
  BY <1>19, <1>27, HeightIs DEF c
<1> DEFINE h == Height(pc, K, w)
<1>29. h \in Nat \ {0} /\ (h = c \/ pc + h = H)
  BY <1>28 DEF HeightFacts, c, H
<1> HIDE DEF h
<1>30. z < b * h
  <2>1. CASE h = c
    BY <1>18, <2>1 DEF bc
  <2>2. CASE pc + h = H
    <3>1. H * b = pc * b + b * h /\ b * h \in Nat
      BY <1>15, <1>19, <1>29, <2>2
    <3> QED BY <1>4, <1>16, <1>18, <1>20, <1>23, <3>1
  <2> QED BY <1>29, <2>1, <2>2
<1>31. o = ps * H + b * pc + z
  BY <1>4, <1>7, <1>8, <1>18, <1>20, <1>23
<1>32. RestOf(o, N, K, w) = z
  <2>1. o - ps * H - b * pc = z
    BY <1>8, <1>18, <1>20, <1>23, <1>31
  <2> QED BY <1>6, <1>22, <2>1 DEF RestOf, b, H
<1>33. IsPanel(ps, pc, N, K, w)
  BY <1>5, <1>13, <1>19, <1>27 DEF IsPanel, A, c
<1>34. o = Offset(ps, pc, z, N, K, w)
  BY <1>31 DEF Offset, b, H
<1>35. Encodes(o, ps, pc, z, N, K, w)
  BY <1>18, <1>30, <1>33, <1>34 DEF Encodes, b, h
<1> QED BY <1>6, <1>22, <1>32, <1>35

----------------------------------------------------------------------------
(* A thread goes through its range in pieces: the part of a panel that is  *)
(* in the range.                                                           *)

\* Columns j .. j + wd - 1 are in one panel, and whole blocks or the end of B.
IsPiece(j, wd, N, w) ==
  /\ j \in Nat /\ wd \in Nat \ {0} /\ Divides(w.NR, j)
  /\ j + wd <= N /\ j + wd <= panel_start(j, w) + w.NC
  /\ Divides(w.NR, j + wd) \/ j + wd = N

\* The offsets the packer clears for a piece.
ClearedOf(j, wd, N, K, w) ==
  UNION {PanelBase(j, pc, N, K, w) ..
           PanelBase(j, pc, N, K, w) + RoundN(wd) * Height(pc, K, w) - 1
         : pc \in PanelRows(K, w.KC)}

PieceOf(j, e, N, w) ==
  /\ IsPiece(j, panel_width(j, e, w), N, w)
  /\ NextPanel(j, w) \in Nat /\ Divides(w.NR, NextPanel(j, w)) /\ j < NextPanel(j, w)
  /\ j + panel_width(j, e, w) <= e
  /\ j + panel_width(j, e, w) = e \/ j + panel_width(j, e, w) = NextPanel(j, w)
  /\ j + panel_width(j, e, w) <= NextPanel(j, w)

\* What a thread takes at column j of a range that ends at e is a piece, and
\* the next one begins where it ends unless the range is over.
LEMMA PieceIs ==
  ASSUME NEW N, NEW K, NEW w, Good(N, K, w), NEW j \in Nat, NEW e \in Nat,
         Divides(w.NR, j), j < e, e <= N, e = N \/ Divides(w.NR, e)
  PROVE  PieceOf(j, e, N, w)
<1> DEFINE ps == panel_start(j, w)
           A == w.NC
           wd == panel_width(j, e, w)
<1>1. A \in Nat \ {0} /\ w.NR \in Nat \ {0} /\ N \in Nat \ {0} /\ Divides(w.NR, A)
  BY DEF Good
<1>2. ps \in Nat /\ Divides(A, ps) /\ ps <= j /\ j < ps + A
  BY <1>1, PanelStart
<1>3. wd = Least(Least(e - j, A), A - (j - ps))
  BY DEF panel_width, panel_offset
<1>4. NextPanel(j, w) = ps + A
  BY DEF NextPanel
<1> HIDE DEF ps, A, wd
<1>5. wd = Least(e - j, A - (j - ps))
  BY <1>1, <1>2, <1>3 DEF Least
<1>6. wd \in Nat \ {0} /\ j + wd <= e /\ j + wd <= ps + A /\ (j + wd = e \/ j + wd = ps + A)
  BY <1>1, <1>2, <1>5 DEF Least
<1>7. Divides(w.NR, ps)
  BY <1>1, <1>2, DividesTrans
<1>8. Divides(w.NR, ps + A) /\ ps + A \in Nat
  BY <1>1, <1>2, <1>7, DividesSum
<1>9. Divides(w.NR, j + wd) \/ j + wd = N
  BY <1>6, <1>8
<1>10. j + wd <= N
  BY <1>1, <1>6
<1> QED BY <1>1, <1>2, <1>4, <1>6, <1>8, <1>9, <1>10 DEF PieceOf, IsPiece, ps, A, wd

PieceFacts(j, wd, N, w) ==
  LET ps == panel_start(j, w)
  IN  /\ ps \in Nat /\ Divides(w.NC, ps) /\ ps <= j /\ ps < N
      /\ j - ps \in Nat /\ Divides(w.NR, j - ps)
      /\ RoundN(wd) \in Nat \ {0} /\ wd <= RoundN(wd)
      /\ (j - ps) + RoundN(wd) <= Breadth(ps, N, w)
      /\ \/ (j - ps) + RoundN(wd) = Breadth(ps, N, w)
         \/ Divides(w.NR, j + wd) /\ RoundN(wd) = wd

\* A piece is padded only where its panel is.
LEMMA PieceFits ==
  ASSUME NEW N, NEW K, NEW w, Good(N, K, w), NEW j, NEW wd, IsPiece(j, wd, N, w)
  PROVE  PieceFacts(j, wd, N, w)
<1> DEFINE ps == panel_start(j, w)
           A == w.NC
           R == w.NR
           b == Breadth(ps, N, w)
           p == RoundN(wd)
<1>1. /\ A \in Nat \ {0} /\ R \in Nat \ {0} /\ N \in Nat \ {0} /\ min_NR \in Nat \ {0}
      /\ Divides(R, A) /\ Divides(min_NR, R)
  BY LayoutAssumption DEF Good
<1>2. /\ j \in Nat /\ wd \in Nat \ {0} /\ Divides(R, j) /\ j + wd <= N /\ j + wd <= ps + A
      /\ Divides(R, j + wd) \/ j + wd = N
  BY DEF IsPiece
<1>3. ps \in Nat /\ Divides(A, ps) /\ ps <= j /\ j < ps + A
  BY <1>1, <1>2, PanelStart
<1>4. ps < N
  <2> HIDE DEF ps
  <2> QED BY <1>1, <1>2, <1>3
<1>5. BreadthFacts(ps, N, w)
  BY <1>3, <1>4, BreadthIs
<1>6. /\ b \in Nat /\ Least(N - ps, A) <= b
      /\ (ps + A < N /\ b = A) \/ (N <= ps + A /\ ps + b = RoundN(N))
  BY <1>5 DEF BreadthFacts
<1>7. Divides(R, ps)
  BY <1>1, <1>3, DividesTrans
<1>8. j - ps \in Nat /\ Divides(R, j - ps)
  <2> HIDE DEF ps, R
  <2>1. j - ps \in Nat /\ R > 0
    BY <1>1, <1>2, <1>3
  <2>2. Divides(R, j - ps)
    BY <1>1, <1>2, <1>3, <1>7, <2>1, DividesSum
  <2> QED BY <2>1, <2>2
<1>9. p \in Nat /\ wd <= p
  BY <1>1, <1>2, RoundUp DEF RoundN
<1>10. CASE Divides(R, j + wd)
  <2>1. Divides(R, wd)
    <3> HIDE DEF R
    <3>1. wd = (j + wd) - j /\ j + wd \in Nat /\ j <= j + wd /\ R > 0
      BY <1>1, <1>2
    <3>2. Divides(R, (j + wd) - j)
      BY <1>1, <1>2, <1>10, <3>1, DividesSum
    <3> QED BY <3>1, <3>2
  <2>2. Divides(min_NR, wd)
    BY <1>1, <1>2, <2>1, DividesTrans
  <2>3. p = wd
    BY <1>1, <1>2, <2>2, RoundMultiple DEF RoundN
  <2> HIDE DEF ps, A, b, p
  <2>4. (j - ps) + p <= b
    BY <1>1, <1>2, <1>3, <1>6, <2>3 DEF Least
  <2> QED BY <1>2, <1>3, <1>4, <1>8, <1>9, <1>10, <2>3, <2>4 DEF PieceFacts, ps, A, b, p
<1>11. CASE j + wd = N
  <2>1. Divides(min_NR, j)
    BY <1>1, <1>2, DividesTrans
  <2>2. RoundN(j + wd) = j + p
    BY <1>1, <1>2, <2>1, RoundShift DEF RoundN
  <2>3. RoundN(N) = j + p
    BY <1>11, <2>2
  <2> HIDE DEF ps, A, b, p
  <2>4. N <= ps + A
    BY <1>2, <1>11
  <2>5. ps + b = j + p
    BY <1>1, <1>3, <1>6, <2>3, <2>4
  <2>6. (j - ps) + p = b
    BY <1>2, <1>3, <1>6, <1>9, <2>5
  <2> QED BY <1>2, <1>3, <1>4, <1>6, <1>8, <1>9, <2>6 DEF PieceFacts, ps, A, b, p
<1> QED BY <1>2, <1>10, <1>11

\* Where the walk over the panels has the piece.
LEMMA BaseIs ==
  ASSUME NEW N, NEW K, NEW w, Good(N, K, w), NEW j \in Nat, j < N, NEW pc
  PROVE  PanelBase(j, pc, N, K, w) =
           Offset(panel_start(j, w), pc, (j - panel_start(j, w)) * Height(pc, K, w), N, K, w)
<1>1. dlp_gemm_get_Bpanel_width_for_kmd_traversal(j, N, w) = Breadth(panel_start(j, w), N, w)
  BY WidthIs
<1> QED BY <1>1 DEF PanelBase, Offset, Height, panel_offset

\* A number between two multiples of d has the quotient of the lower one.
LEMMA Quotient ==
  ASSUME NEW q \in Nat, NEW d \in Nat \ {0}, NEW x \in Nat, q * d <= x, x < (q + 1) * d
  PROVE  x \div d = q
<1> DEFINE r == x - q * d
<1>1. q * d \in Nat /\ (q + 1) * d = q * d + d
  OBVIOUS
<1>2. r \in Nat /\ r < d /\ x = q * d + r
  BY <1>1
<1> HIDE DEF r
<1> QED BY <1>2, DivUnique

\* The rows where panels begin.
LEMMA PanelRowsAre ==
  ASSUME NEW K \in Nat, NEW c \in Nat \ {0}, NEW pc
  PROVE  pc \in PanelRows(K, c) <=> pc \in Nat /\ Divides(c, pc) /\ pc < K
<1>1. pc \in PanelRows(K, c) <=> pc \in Nat /\ pc < K /\ pc % c = 0
  BY DEF PanelRows
<1>2. pc \in Nat => (pc % c = 0 <=> Divides(c, pc))
  BY DividesIs
<1> QED BY <1>1, <1>2

\* What is cleared for a piece are offsets of its blocks.
LEMMA ClearedWithin ==
  ASSUME NEW N, NEW K, NEW w, Good(N, K, w), NEW j, NEW wd, IsPiece(j, wd, N, w),
         NEW o, o \in ClearedOf(j, wd, N, K, w)
  PROVE  /\ o \in Nat /\ o < RoundN(N) * RoundK(K)
         /\ j <= BlockOf(o, N, K, w) /\ BlockOf(o, N, K, w) < j + wd
<1> DEFINE ps == panel_start(j, w)
           R == w.NR
           b == Breadth(ps, N, w)
           p == RoundN(wd)
<1>1. K \in Nat \ {0} /\ N \in Nat \ {0} /\ w.KC \in Nat \ {0} /\ R \in Nat \ {0}
  BY DEF Good
<1>2. j \in Nat /\ wd \in Nat \ {0} /\ j + wd <= N
  BY DEF IsPiece
<1>3. j < N
  BY <1>1, <1>2
<1>4. PieceFacts(j, wd, N, w)
  BY PieceFits
<1>5. /\ ps \in Nat /\ Divides(w.NC, ps) /\ ps < N /\ j - ps \in Nat /\ Divides(R, j - ps)
      /\ p \in Nat \ {0} /\ (j - ps) + p <= b
  BY <1>4 DEF PieceFacts
<1>6. PICK pc \in PanelRows(K, w.KC) :
        o \in PanelBase(j, pc, N, K, w) ..
                PanelBase(j, pc, N, K, w) + RoundN(wd) * Height(pc, K, w) - 1
  BY DEF ClearedOf
<1>7. pc \in Nat /\ Divides(w.KC, pc) /\ pc < K
  BY <1>1, PanelRowsAre
<1>8. IsPanel(ps, pc, N, K, w)
  BY <1>5, <1>7 DEF IsPanel
<1> DEFINE h == Height(pc, K, w)
           H == RoundK(K)
           base == PanelBase(j, pc, N, K, w)
           x == o - base
           z == (j - ps) * h + x
<1>9. HeightFacts(pc, K, w) /\ BreadthFacts(ps, N, w)
  BY <1>5, <1>7, HeightIs, BreadthIs
<1>10. h \in Nat \ {0} /\ b \in Nat \ {0}
  BY <1>9 DEF HeightFacts, BreadthFacts
<1>11. H \in Nat \ {0}
  BY RowsPadded
<1>12. base = Offset(ps, pc, (j - ps) * h, N, K, w)
  BY <1>2, <1>3, BaseIs
<1>13. base = ps * H + b * pc + (j - ps) * h
  BY <1>12 DEF Offset
<1> HIDE DEF ps, R, b, p, h, H, base
<1>14. base \in Nat
  BY <1>5, <1>7, <1>10, <1>11, <1>13
<1>15. p * h \in Nat /\ o \in base .. base + p * h - 1
  BY <1>5, <1>6, <1>10 DEF p, h, base
<1>16. x \in Nat /\ x < p * h /\ o = base + x
  BY <1>14, <1>15
<1> HIDE DEF x
<1>17. (j - ps) * h \in Nat /\ z \in Nat
  BY <1>5, <1>10, <1>16
<1>18. z < b * h
  <2>1. ((j - ps) + p) * h <= b * h
    BY <1>5, <1>10, TimesMonotone
  <2>2. ((j - ps) + p) * h = (j - ps) * h + p * h
    BY <1>5, <1>10
  <2>3. b * h \in Nat
    BY <1>10
  <2> QED BY <1>15, <1>16, <1>17, <2>1, <2>2, <2>3
<1>19. o = ps * H + b * pc + z
  BY <1>5, <1>7, <1>10, <1>11, <1>13, <1>16, <1>17
<1> HIDE DEF z
<1>20. o = Offset(ps, pc, z, N, K, w)
  BY <1>19 DEF Offset, b, H
<1>21. Decodes(o, ps, pc, z, N, K, w)
  <2>1. z < Breadth(ps, N, w) * Height(pc, K, w)
    BY <1>18 DEF b, h
  <2>2. Decodes(Offset(ps, pc, z, N, K, w), ps, pc, z, N, K, w)
    BY <1>8, <1>17, <2>1, Decode
  <2> QED BY <1>20, <2>2
<1> DEFINE d == R * h
           q == x \div d
           s == x % d
<1>22. d \in Nat \ {0}
  BY <1>1, <1>10, WaysBelow
<1>23. PICK a \in Nat : j - ps = a * R
  BY <1>5 DEF Divides
<1>24. q \in Nat /\ s \in Nat /\ s < d /\ x = q * d + s
  <2> HIDE DEF d
  <2> QED BY <1>16, <1>22, DivMod
<1> HIDE DEF q, s
<1>25. z = (a + q) * d + s
  <2>1. (j - ps) * h = a * d
    BY <1>1, <1>10, <1>23
  <2>2. (a + q) * d = a * d + q * d
    BY <1>22, <1>24
  <2> HIDE DEF d
  <2>3. a * d \in Nat /\ q * d \in Nat
    BY <1>22, <1>24
  <2> QED BY <1>24, <2>1, <2>2, <2>3 DEF z
<1>26. z \div d = a + q
  <2> HIDE DEF d
  <2>1. a + q \in Nat
    BY <1>24
  <2> QED BY <1>22, <1>24, <1>25, <2>1, DivUnique
<1>27. BlockOf(o, N, K, w) = ps + (a + q) * R
  BY <1>21, <1>26 DEF Decodes, BlockOf, R, h
<1>28. BlockOf(o, N, K, w) = j + q * R /\ q * R \in Nat
  <2>1. (a + q) * R = a * R + q * R /\ q * R \in Nat /\ a * R \in Nat
    BY <1>1, <1>24
  <2> QED BY <1>2, <1>5, <1>23, <1>27, <2>1
<1>29. q * R < p
  <2>1. (q * R) * h = q * d
    BY <1>1, <1>10, <1>24
  <2>2. q * d \in Nat
    <3> HIDE DEF d
    <3> QED BY <1>22, <1>24
  <2>3. (q * R) * h < p * h
    <3> HIDE DEF d
    <3> QED BY <1>15, <1>16, <1>24, <2>1, <2>2
  <2> QED BY <1>5, <1>10, <1>28, <2>3, LessTimes
<1>30. q * R < wd
  <2> DEFINE y == q * R
  <2>1. Divides(R, y)
    BY <1>24 DEF Divides
  <2>2. y \in Nat
    BY <1>28
  <2> HIDE DEF y
  <2>3. Divides(min_NR, R) /\ min_NR \in Nat \ {0}
    BY LayoutAssumption DEF Good, R
  <2>4. Divides(min_NR, y)
    BY <1>1, <2>1, <2>2, <2>3, DividesTrans
  <2>5. y < dlp_reorder_round_up(wd, min_NR)
    BY <1>29 DEF p, RoundN, y
  <2>6. y < wd
    BY <1>2, <2>2, <2>3, <2>4, <2>5, RoundBelow
  <2> QED BY <2>6 DEF y
<1>31. o \in Nat /\ o < RoundN(N) * RoundK(K)
  BY <1>21 DEF Decodes
<1> QED BY <1>2, <1>28, <1>30, <1>31

\* Facts about the block of an offset.
BlockFacts(o, N, K, w) ==
  /\ BlockOf(o, N, K, w) \in Nat /\ BlockOf(o, N, K, w) < N
  /\ Divides(w.NR, BlockOf(o, N, K, w))
  /\ panel_start(BlockOf(o, N, K, w), w) = PanelOf(o, K, w)
  /\ PanelOf(o, K, w) <= BlockOf(o, N, K, w)
  /\ (BlockOf(o, N, K, w) - PanelOf(o, K, w)) * Height(RowOf(o, N, K, w), K, w)
       <= RestOf(o, N, K, w)
  /\ RestOf(o, N, K, w)
       < (BlockOf(o, N, K, w) - PanelOf(o, K, w) + w.NR) * Height(RowOf(o, N, K, w), K, w)

\* The block of an offset is a block of columns of B.
LEMMA BlockOfIs ==
  ASSUME NEW N, NEW K, NEW w, Good(N, K, w), NEW o \in Nat, o < RoundN(N) * RoundK(K)
  PROVE  BlockFacts(o, N, K, w)
<1> DEFINE ps == PanelOf(o, K, w)
           pc == RowOf(o, N, K, w)
           z == RestOf(o, N, K, w)
           R == w.NR
           A == w.NC
           b == Breadth(ps, N, w)
           h == Height(pc, K, w)
           d == R * h
           q == z \div d
           s == z % d
           y == q * R
           k0 == BlockOf(o, N, K, w)
<1>1. /\ N \in Nat \ {0} /\ R \in Nat \ {0} /\ A \in Nat \ {0} /\ min_NR \in Nat \ {0}
      /\ Divides(min_NR, R) /\ Divides(R, A)
  BY LayoutAssumption DEF Good
<1>2. Encodes(o, ps, pc, z, N, K, w)
  BY Encode
<1>3. /\ ps \in Nat /\ Divides(A, ps) /\ ps < N /\ pc \in Nat /\ Divides(w.KC, pc) /\ pc < K
      /\ z \in Nat /\ z < b * h
  BY <1>2 DEF Encodes, IsPanel
<1>4. HeightFacts(pc, K, w) /\ BreadthFacts(ps, N, w)
  BY <1>3, HeightIs, BreadthIs
<1>5. h \in Nat \ {0} /\ b \in Nat \ {0} /\ b <= A /\ ps + b <= RoundN(N)
  BY <1>4 DEF HeightFacts, BreadthFacts
<1>6. k0 = ps + y
  BY DEF BlockOf
<1> HIDE DEF ps, pc, z, R, A, b, h, k0
<1>7. d \in Nat \ {0}
  BY <1>1, <1>5, WaysBelow
<1>8. q \in Nat /\ s \in Nat /\ s < d /\ z = q * d + s
  <2> HIDE DEF d
  <2> QED BY <1>3, <1>7, DivMod
<1>9. y \in Nat /\ Divides(R, y)
  <2>1. y \in Nat
    BY <1>1, <1>8
  <2>2. Divides(R, y)
    BY <1>8 DEF Divides
  <2> QED BY <2>1, <2>2
<1> HIDE DEF q, s
<1>10. q * d = y * h /\ (y + R) * h = q * d + d /\ y * h \in Nat
  BY <1>1, <1>5, <1>8
<1> HIDE DEF d, y
<1>11. y * h <= z /\ z < (y + R) * h
  BY <1>7, <1>8, <1>10
<1>12. y < b
  <2>1. y * h < b * h
    <3>1. b * h \in Nat
      BY <1>5
    <3> QED BY <1>3, <1>10, <1>11, <3>1
  <2> QED BY <1>5, <1>9, <2>1, LessTimes
<1>13. k0 \in Nat /\ ps <= k0 /\ k0 < ps + A /\ k0 < RoundN(N) /\ k0 - ps = y
  <2>1. RoundN(N) \in Nat
    BY RowsPadded
  <2> HIDE DEF RoundN
  <2> QED BY <1>1, <1>3, <1>5, <1>6, <1>9, <1>12, <2>1
<1>14. Divides(R, ps)
  BY <1>1, <1>3, DividesTrans
<1>15. Divides(R, k0)
  BY <1>1, <1>3, <1>6, <1>9, <1>14, DividesSum
<1>16. Divides(min_NR, k0)
  BY <1>1, <1>13, <1>15, DividesTrans
<1>17. k0 < N
  <2>1. k0 < dlp_reorder_round_up(N, min_NR)
    BY <1>13 DEF RoundN
  <2> QED BY <1>1, <1>13, <1>16, <2>1, RoundBelow
<1>18. panel_start(k0, w) = ps
  BY <1>1, <1>3, <1>13, PanelStartIs DEF A
<1> QED BY <1>11, <1>13, <1>15, <1>17, <1>18 DEF BlockFacts, ps, pc, z, R, h, k0

\* And all offsets of its blocks are cleared.
LEMMA ClearedAll ==
  ASSUME NEW N, NEW K, NEW w, Good(N, K, w), NEW j, NEW wd, IsPiece(j, wd, N, w),
         NEW o \in Nat, o < RoundN(N) * RoundK(K),
         j <= BlockOf(o, N, K, w), BlockOf(o, N, K, w) < j + wd
  PROVE  o \in ClearedOf(j, wd, N, K, w)
<1> DEFINE ps == PanelOf(o, K, w)
           pc == RowOf(o, N, K, w)
           z == RestOf(o, N, K, w)
           R == w.NR
           A == w.NC
           b == Breadth(ps, N, w)
           h == Height(pc, K, w)
           k0 == BlockOf(o, N, K, w)
           p == RoundN(wd)
           base == PanelBase(j, pc, N, K, w)
           H == RoundK(K)
<1>1. /\ N \in Nat \ {0} /\ R \in Nat \ {0} /\ A \in Nat \ {0} /\ w.KC \in Nat \ {0}
      /\ K \in Nat \ {0}
  BY DEF Good
<1>2. Encodes(o, ps, pc, z, N, K, w)
  BY Encode
<1>3. /\ ps \in Nat /\ Divides(A, ps) /\ ps < N /\ pc \in Nat /\ Divides(w.KC, pc) /\ pc < K
      /\ z \in Nat /\ z < b * h /\ o = ps * H + b * pc + z
  BY <1>2 DEF Encodes, IsPanel, Offset
<1>4. HeightFacts(pc, K, w) /\ BreadthFacts(ps, N, w)
  BY <1>3, HeightIs, BreadthIs
<1>5. h \in Nat \ {0} /\ b \in Nat \ {0} /\ H \in Nat \ {0}
  BY <1>4, RowsPadded DEF HeightFacts, BreadthFacts
<1>6. BlockFacts(o, N, K, w)
  BY BlockOfIs
<1>7. /\ k0 \in Nat /\ Divides(R, k0) /\ panel_start(k0, w) = ps /\ ps <= k0
      /\ (k0 - ps) * h <= z /\ z < (k0 - ps + R) * h
  BY <1>6 DEF BlockFacts
<1>8. /\ j \in Nat /\ wd \in Nat \ {0} /\ j + wd <= N /\ Divides(R, j)
      /\ j + wd <= panel_start(j, w) + A
  BY DEF IsPiece
<1>9. panel_start(j, w) = ps
  <2> DEFINE u == panel_start(j, w)
  <2>1. u \in Nat /\ Divides(A, u) /\ u <= j /\ j < u + A
    BY <1>1, <1>8, PanelStart
  <2>2. u <= k0 /\ k0 < u + A
    <3>1. j + wd <= u + A
      BY <1>8
    <3> HIDE DEF u, k0, A
    <3>2. j <= k0 /\ k0 < j + wd
      BY DEF k0
    <3> QED BY <1>1, <1>7, <1>8, <2>1, <3>1, <3>2
  <2> HIDE DEF u
  <2>3. panel_start(k0, w) = u
    BY <1>1, <1>7, <2>1, <2>2, PanelStartIs
  <2> QED BY <1>7, <2>3 DEF u
<1>10. PieceFacts(j, wd, N, w)
  BY PieceFits
<1>11. /\ j - ps \in Nat /\ p \in Nat \ {0}
       /\ (j - ps) + p = b \/ (Divides(R, j + wd) /\ p = wd)
  BY <1>9, <1>10 DEF PieceFacts
<1>12. base = Offset(ps, pc, (j - ps) * h, N, K, w)
  <2>1. j < N
    BY <1>1, <1>8
  <2> QED BY <1>8, <1>9, <2>1, BaseIs
<1>13. base = ps * H + b * pc + (j - ps) * h
  BY <1>12 DEF Offset
<1>14. j <= k0 /\ k0 < j + wd
  OBVIOUS
<1> HIDE DEF ps, pc, z, R, A, b, h, k0, p, base, H
<1>15. (j - ps) * h <= z
  <2>1. (j - ps) * h <= (k0 - ps) * h /\ (j - ps) * h \in Nat /\ (k0 - ps) * h \in Nat
    <3>1. k0 - ps \in Nat /\ j - ps <= k0 - ps
      BY <1>3, <1>7, <1>8, <1>14
    <3> QED BY <1>5, <1>11, <3>1, TimesMonotone
  <2> QED BY <1>3, <1>7, <2>1
<1>16. z < ((j - ps) + p) * h
  <2>1. CASE (j - ps) + p = b
    BY <1>3, <2>1
  <2>2. CASE Divides(R, j + wd) /\ p = wd
    <3>1. k0 + R <= j + wd
      <4>1. j + wd \in Nat
        BY <1>8
      <4> QED BY <1>1, <1>7, <1>14, <2>2, <4>1, DividesApart
    <3>2. k0 - ps + R \in Nat /\ k0 - ps + R <= (j - ps) + p
      BY <1>1, <1>3, <1>7, <1>8, <1>11, <2>2, <3>1
    <3>3. (k0 - ps + R) * h <= ((j - ps) + p) * h /\ (k0 - ps + R) * h \in Nat
          /\ ((j - ps) + p) * h \in Nat
      BY <1>5, <1>11, <3>2, TimesMonotone
    <3> QED BY <1>3, <1>7, <3>3
  <2> QED BY <1>11, <2>1, <2>2
<1>17. o \in base .. base + p * h - 1
  <2>1. ((j - ps) + p) * h = (j - ps) * h + p * h /\ (j - ps) * h \in Nat /\ p * h \in Nat
    BY <1>5, <1>11
  <2>2. ps * H \in Nat /\ b * pc \in Nat
    BY <1>3, <1>5
  <2> QED BY <1>3, <1>13, <1>15, <1>16, <2>1, <2>2
<1>18. pc \in PanelRows(K, w.KC)
  BY <1>1, <1>3, PanelRowsAre
<1> QED BY <1>17, <1>18 DEF ClearedOf, base, p, h

----------------------------------------------------------------------------
(* The chunks of a panel.                                                  *)

\* Multiples may be taken out of a division.
LEMMA DivShift ==
  ASSUME NEW x \in Nat, NEW d \in Nat \ {0}, NEW a \in Nat, Divides(d, a)
  PROVE  ((a + x) \div d) * d = a + (x \div d) * d
<1> DEFINE q == x \div d
           r == x % d
<1>1. q \in Nat /\ r \in Nat /\ r < d /\ x = q * d + r
  BY DivMod
<1>2. PICK p \in Nat : a = p * d
  BY DEF Divides
<1> HIDE DEF q, r
<1>3. a + x = (p + q) * d + r /\ p + q \in Nat
  BY <1>1, <1>2
<1>4. (a + x) \div d = p + q
  BY <1>1, <1>3, DivUnique
<1>5. (p + q) * d = a + q * d
  BY <1>1, <1>2
<1>6. ((a + x) \div d) * d = a + q * d
  BY <1>4, <1>5
<1> QED BY <1>6 DEF q

ChunkFacts(i, nc0, NR) ==
  LET c == Chunk(i, nc0, NR)
  IN  /\ c.col_start \in Nat /\ c.slot \in Nat \ {0}
      /\ c.col_start <= i /\ i < c.col_start + c.slot
      /\ (i \div NR) * NR <= c.col_start
      /\ c.col_start + c.slot <= (i \div NR) * NR + NR
      /\ c.col_start + c.slot <= RoundN(nc0)

\* The largest multiple that is not above.
LEMMA FloorIs ==
  ASSUME NEW x \in Nat, NEW d \in Nat \ {0}
  PROVE  /\ (x \div d) * d \in Nat /\ Divides(d, (x \div d) * d)
         /\ (x \div d) * d <= x /\ x < (x \div d) * d + d
<1> DEFINE q == x \div d
           r == x % d
           u == q * d
<1>1. q \in Nat /\ r \in Nat /\ r < d /\ x = u + r
  BY DivMod
<1>2. u \in Nat
  BY <1>1
<1>3. Divides(d, u)
  BY <1>1 DEF Divides
<1> HIDE DEF u, r
<1>4. u <= x /\ x < u + d
  BY <1>1, <1>2
<1> QED BY <1>2, <1>3, <1>4 DEF u

\* It is the only multiple in reach.
LEMMA FloorUnique ==
  ASSUME NEW x \in Nat, NEW d \in Nat \ {0}, NEW p \in Nat, Divides(d, p), p <= x, x < p + d
  PROVE  (x \div d) * d = p
<1> DEFINE s == (x \div d) * d
<1>1. s \in Nat /\ Divides(d, s) /\ s <= x /\ x < s + d
  BY FloorIs
<1> HIDE DEF s
<1>2. ~(s < p) /\ ~(p < s)
  BY <1>1, DividesApart
<1>3. s = p
  BY <1>1, <1>2
<1> QED BY <1>3 DEF s

\* The chunk of a column holds it, and lies in one block of NR columns and in
\* the padded panel.
LEMMA ChunkIs ==
  ASSUME NEW NR \in Nat \ {0}, Divides(min_NR, NR), NEW nc0 \in Nat, NEW i \in Nat, i < nc0
  PROVE  ChunkFacts(i, nc0, NR)
<1> DEFINE fringe == (nc0 \div NR) * NR
           r == nc0 - fringe
           m == (r \div min_NR) * min_NR
           tail == fringe + m
           g == (i \div NR) * NR
           c == Chunk(i, nc0, NR)
           u == RoundN(nc0)
<1>1. min_NR \in Nat \ {0}
  BY LayoutAssumption
<1>2. fringe \in Nat /\ Divides(NR, fringe) /\ fringe <= nc0 /\ nc0 < fringe + NR
  BY FloorIs
<1>3. g \in Nat /\ Divides(NR, g) /\ g <= i /\ i < g + NR
  BY FloorIs
<1>4. c = IF i < fringe THEN [col_start |-> g, slot |-> NR]
          ELSE IF i < tail THEN [col_start |-> fringe, slot |-> tail - fringe]
          ELSE [col_start |-> tail, slot |-> min_NR]
  BY DEF Chunk
<1> HIDE DEF fringe
<1>5. r \in Nat /\ r < NR /\ nc0 = fringe + r
  BY <1>2
<1> HIDE DEF r
<1>6. m \in Nat /\ Divides(min_NR, m) /\ m <= r /\ r < m + min_NR
  BY <1>1, <1>5, FloorIs
<1>7. u \in Nat /\ Divides(min_NR, u) /\ nc0 <= u
  BY <1>1, RoundUp DEF RoundN
<1> HIDE DEF m, g, c, u
<1>8. CASE i < fringe
  <2>1. c.col_start = g /\ c.slot = NR
    BY <1>4, <1>8
  <2>2. g < fringe
    BY <1>2, <1>3, <1>8
  <2>3. g + NR <= fringe
    BY <1>2, <1>3, <2>2, DividesApart
  <2>4. g + NR <= u
    BY <1>2, <1>3, <1>7, <2>3
  <2> QED BY <1>3, <2>1, <2>4 DEF ChunkFacts, g, c, u
<1>9. CASE ~(i < fringe)
  <2>1. g = fringe
    <3>1. fringe <= i /\ i < fringe + NR
      BY <1>2, <1>9
    <3> QED BY <1>2, <3>1, FloorUnique DEF g
  <2>2. tail \in Nat /\ tail - fringe = m /\ tail <= nc0 /\ nc0 < tail + min_NR
    BY <1>1, <1>2, <1>5, <1>6
  <2>3. CASE i < tail
    <3>1. c.col_start = fringe /\ c.slot = m
      BY <1>4, <1>9, <2>2, <2>3
    <3>2. m \in Nat \ {0} /\ m <= NR /\ fringe + m <= u /\ i < fringe + m
      BY <1>2, <1>5, <1>6, <1>7, <1>9, <2>2, <2>3
    <3>3. fringe <= i /\ fringe <= fringe /\ fringe + m <= fringe + NR
      BY <1>2, <1>9, <3>2
    <3> HIDE DEF tail
    <3> QED BY <1>2, <2>1, <3>1, <3>2, <3>3 DEF ChunkFacts, g, c, u
  <2>4. CASE ~(i < tail)
    <3>1. c.col_start = tail /\ c.slot = min_NR
      BY <1>4, <1>9, <2>4
    <3>2. m + min_NR <= NR
      <4>1. m < NR
        BY <1>5, <1>6
      <4> QED BY <1>1, <1>6, <4>1, DividesApart
    <3>3. tail + min_NR <= u
      <4>1. Divides(min_NR, fringe)
        BY <1>1, <1>2, DividesTrans
      <4>2. Divides(min_NR, tail)
        BY <1>1, <1>2, <1>6, <4>1, DividesSum
      <4>3. tail < u
        BY <1>7, <2>2, <2>4
      <4> QED BY <1>1, <1>7, <2>2, <4>2, <4>3, DividesApart
    <3>4. tail <= i /\ i < tail + min_NR /\ fringe <= tail /\ tail + min_NR <= fringe + NR
      BY <1>1, <1>2, <1>6, <2>2, <2>4, <3>2
    <3> HIDE DEF tail
    <3> QED BY <1>1, <2>1, <2>2, <3>1, <3>3, <3>4 DEF ChunkFacts, g, c, u
  <2> QED BY <2>3, <2>4
<1> QED BY <1>8, <1>9

\* Two columns of one block have the same chunk or chunks that lie apart.
LEMMA ChunksApart ==
  ASSUME NEW NR \in Nat \ {0}, Divides(min_NR, NR), NEW nc0 \in Nat,
         NEW i \in Nat, i < nc0, NEW l \in Nat, l < nc0, (i \div NR) * NR = (l \div NR) * NR
  PROVE  \/ Chunk(i, nc0, NR) = Chunk(l, nc0, NR)
         \/ Chunk(i, nc0, NR).col_start + Chunk(i, nc0, NR).slot <= Chunk(l, nc0, NR).col_start
         \/ Chunk(l, nc0, NR).col_start + Chunk(l, nc0, NR).slot <= Chunk(i, nc0, NR).col_start
<1> DEFINE fringe == (nc0 \div NR) * NR
           r == nc0 - fringe
           m == (r \div min_NR) * min_NR
           tail == fringe + m
           g == (i \div NR) * NR
           h == (l \div NR) * NR
           c == Chunk(i, nc0, NR)
           d == Chunk(l, nc0, NR)
<1>1. min_NR \in Nat \ {0}
  BY LayoutAssumption
<1>2. fringe \in Nat /\ Divides(NR, fringe) /\ fringe <= nc0 /\ nc0 < fringe + NR
  BY FloorIs
<1>3. g \in Nat /\ Divides(NR, g) /\ g <= i /\ i < g + NR /\ g = h /\ g <= l /\ l < g + NR
  BY FloorIs
<1>4. c = IF i < fringe THEN [col_start |-> g, slot |-> NR]
          ELSE IF i < tail THEN [col_start |-> fringe, slot |-> tail - fringe]
          ELSE [col_start |-> tail, slot |-> min_NR]
  BY DEF Chunk
<1>5. d = IF l < fringe THEN [col_start |-> g, slot |-> NR]
          ELSE IF l < tail THEN [col_start |-> fringe, slot |-> tail - fringe]
          ELSE [col_start |-> tail, slot |-> min_NR]
  BY <1>3 DEF Chunk
<1>6. m \in Nat
  <2>1. r \in Nat
    <3> HIDE DEF fringe
    <3> QED BY <1>2
  <2> HIDE DEF r
  <2> QED BY <1>1, <2>1, FloorIs
<1> HIDE DEF fringe, m, g, h, c, d
<1>7. i < fringe <=> l < fringe
  <2>1. g < fringe => g + NR <= fringe
    BY <1>2, <1>3, DividesApart
  <2> QED BY <1>2, <1>3, <2>1
<1>8. c = d \/ c.col_start + c.slot <= d.col_start \/ d.col_start + d.slot <= c.col_start
  BY <1>2, <1>4, <1>5, <1>6, <1>7
<1> QED BY <1>8 DEF c, d

\* The place of an element in a chunk, and the element of that place.
ElemFacts(kr, l, slot, h) ==
  LET o == dlp_reorder_elem_offset(kr, l, slot)
      d == k_factor * slot
  IN  /\ o \in Nat /\ o < slot * h
      /\ kr = (o \div d) * k_factor + ((o % d) % k_factor)
      /\ l = (o % d) \div k_factor

\* k_factor rows of a chunk are interleaved; no two elements of a chunk share
\* a place.
LEMMA ElemIs ==
  ASSUME NEW slot \in Nat \ {0}, NEW l \in Nat, l < slot,
         NEW h \in Nat, Divides(k_factor, h), NEW kr \in Nat, kr < h
  PROVE  ElemFacts(kr, l, slot, h)
<1> DEFINE f == k_factor
           d == f * slot
           q == kr \div f
           s == kr % f
           y == l * f + s
           o == q * d + y
<1>1. f \in Nat \ {0}
  BY LayoutAssumption
<1>2. dlp_reorder_elem_offset(kr, l, slot) = o
  <2>1. q \in Nat /\ s \in Nat
    BY <1>1, DivMod
  <2>2. dlp_reorder_elem_offset(kr, l, slot) = q * d + l * f + s
    BY DEF dlp_reorder_elem_offset
  <2> HIDE DEF q, s
  <2>3. q * d \in Nat /\ l * f \in Nat
    BY <1>1, <2>1
  <2> HIDE DEF d, f
  <2> QED BY <2>1, <2>2, <2>3
<1>3. q \in Nat /\ s \in Nat /\ s < f /\ kr = q * f + s
  BY <1>1, DivMod
<1>4. d \in Nat \ {0}
  BY <1>1, WaysBelow
<1> HIDE DEF q, s, f
<1>5. l * f \in Nat /\ (l + 1) * f = l * f + f /\ (l + 1) * f <= slot * f /\ slot * f = d
  BY <1>1, TimesMonotone
<1>6. y \in Nat /\ y < d
  <2>1. y \in Nat
    BY <1>1, <1>3, <1>5
  <2> HIDE DEF d
  <2>2. y < d
    BY <1>1, <1>3, <1>4, <1>5
  <2> QED BY <2>1, <2>2
<1>7. y \div f = l /\ y % f = s
  BY <1>1, <1>3, DivUnique
<1> HIDE DEF y
<1>8. o \in Nat /\ o < slot * h
  <2>1. PICK e \in Nat : h = e * f
    BY DEF Divides, f
  <2>2. q < e
    <3>1. q * f < e * f
      <4>1. q * f \in Nat /\ e * f \in Nat
        BY <1>1, <1>3
      <4> QED BY <1>3, <2>1, <4>1
    <3> QED BY <1>1, <1>3, <3>1, LessTimes
  <2>3. (q + 1) * d <= e * d /\ (q + 1) * d = q * d + d /\ q * d \in Nat
    BY <1>3, <1>4, <2>2, TimesMonotone
  <2>4. e * d = slot * h
    BY <1>1, <2>1
  <2> HIDE DEF d
  <2>5. e * d \in Nat
    BY <1>4
  <2> QED BY <1>4, <1>6, <2>3, <2>4, <2>5
<1>9. o \div d = q /\ o % d = y
  <2> HIDE DEF d
  <2> QED BY <1>3, <1>4, <1>6, DivUnique
<1> HIDE DEF o, d
<1>10. /\ kr = (o \div d) * f + ((o % d) % f)
       /\ l = (o % d) \div f
  BY <1>3, <1>7, <1>9
<1> QED BY <1>2, <1>8, <1>10 DEF ElemFacts, f, d

----------------------------------------------------------------------------
(* The place of an element in the buffer.                                  *)

IsElement(e, N, K) == e \in (0 .. K - 1) \X (0 .. N - 1)

FirstRow(e, w) == (e[1] \div w.KC) * w.KC

\* Its offset in its panel.
Within(e, N, K, w) ==
  TileOffset(e[1] - FirstRow(e, w), e[2] - panel_start(e[2], w),
             Least(N - panel_start(e[2], w), w.NC), Least(K - FirstRow(e, w), w.KC), w.NR)

PlaceOf(e, N, K, w) == Offset(panel_start(e[2], w), FirstRow(e, w), Within(e, N, K, w), N, K, w)

\* Its chunk, and its offset in the chunk.
ChunkOf(e, N, w) ==
  Chunk(e[2] - panel_start(e[2], w), Least(N - panel_start(e[2], w), w.NC), w.NR)
InChunk(e, N, w) ==
  dlp_reorder_elem_offset(e[1] - FirstRow(e, w),
                          e[2] - panel_start(e[2], w) - ChunkOf(e, N, w).col_start,
                          ChunkOf(e, N, w).slot)

PlaceFacts(e, N, K, w) ==
  LET ps == panel_start(e[2], w)
      pc == FirstRow(e, w)
      h == Height(pc, K, w)
      c == ChunkOf(e, N, w)
      i == e[2] - ps
      z == Within(e, N, K, w)
      x == InChunk(e, N, w)
  IN  /\ e[1] \in Nat /\ e[2] \in Nat /\ e = <<e[1], e[2]>>
      /\ IsPanel(ps, pc, N, K, w) /\ h \in Nat \ {0}
      /\ i \in Nat /\ i < Least(N - ps, w.NC) /\ Least(N - ps, w.NC) \in Nat
      /\ e[1] - pc \in Nat
      /\ ChunkFacts(i, Least(N - ps, w.NC), w.NR)
      /\ x \in Nat /\ x < c.slot * h /\ z = c.col_start * h + x
      /\ ElemFacts(e[1] - pc, i - c.col_start, c.slot, h)
      /\ z \in Nat /\ z < Breadth(ps, N, w) * h
      /\ (i \div w.NR) * w.NR * h <= z
      /\ z < ((i \div w.NR) * w.NR + w.NR) * h

\* An element lies in its panel, its chunk and its block.
LEMMA PlaceIs ==
  ASSUME NEW N, NEW K, NEW w, Good(N, K, w), NEW e, IsElement(e, N, K)
  PROVE  PlaceFacts(e, N, K, w)
<1> DEFINE ps == panel_start(e[2], w)
           pc == FirstRow(e, w)
           h == Height(pc, K, w)
           nc0 == Least(N - ps, w.NC)
           c == ChunkOf(e, N, w)
           i == e[2] - ps
           kr == e[1] - pc
           z == Within(e, N, K, w)
           x == InChunk(e, N, w)
           b == Breadth(ps, N, w)
           g == (i \div w.NR) * w.NR
<1>1. /\ N \in Nat \ {0} /\ K \in Nat \ {0} /\ w.NC \in Nat \ {0} /\ w.KC \in Nat \ {0}
      /\ w.NR \in Nat \ {0} /\ Divides(min_NR, w.NR)
  BY DEF Good
<1>2. e[1] \in Nat /\ e[1] < K /\ e[2] \in Nat /\ e[2] < N /\ e = <<e[1], e[2]>>
  BY <1>1 DEF IsElement
<1>3. ps \in Nat /\ Divides(w.NC, ps) /\ ps <= e[2] /\ e[2] < ps + w.NC
  BY <1>1, <1>2, PanelStart
<1>4. pc \in Nat /\ Divides(w.KC, pc) /\ pc <= e[1] /\ e[1] < pc + w.KC
  BY <1>1, <1>2, FloorIs DEF FirstRow
<1> HIDE DEF ps, pc
<1>5. ps < N /\ pc < K
  BY <1>1, <1>2, <1>3, <1>4
<1>6. IsPanel(ps, pc, N, K, w)
  BY <1>3, <1>4, <1>5 DEF IsPanel
<1>7. HeightFacts(pc, K, w) /\ BreadthFacts(ps, N, w)
  BY <1>3, <1>4, <1>5, HeightIs, BreadthIs
<1>8. h \in Nat \ {0} /\ Divides(k_factor, h) /\ Least(K - pc, w.KC) <= h /\ b \in Nat \ {0}
  BY <1>7 DEF HeightFacts, BreadthFacts
<1>9. kr \in Nat /\ kr < h
  <2>1. kr \in Nat /\ kr < Least(K - pc, w.KC)
    BY <1>1, <1>2, <1>4 DEF Least
  <2>2. Least(K - pc, w.KC) \in Nat
    BY <1>1, <1>4, <1>5 DEF Least
  <2> HIDE DEF h, kr
  <2> QED BY <1>8, <2>1, <2>2
<1>10. i \in Nat /\ nc0 \in Nat /\ i < nc0
  BY <1>1, <1>2, <1>3 DEF Least
<1>11. ChunkFacts(i, nc0, w.NR)
  <2> HIDE DEF i, nc0
  <2> QED BY <1>1, <1>10, ChunkIs
<1>12. c = Chunk(i, nc0, w.NR)
  BY DEF ChunkOf, ps
<1>13. /\ c.col_start \in Nat /\ c.slot \in Nat \ {0}
       /\ c.col_start <= i /\ i < c.col_start + c.slot
       /\ g <= c.col_start /\ c.col_start + c.slot <= g + w.NR /\ c.col_start + c.slot <= b
  BY <1>11, <1>12 DEF ChunkFacts, Breadth
<1>14. x = dlp_reorder_elem_offset(kr, i - c.col_start, c.slot)
  BY DEF InChunk, ps, pc
<1>15. z = c.col_start * h + x
  BY <1>12, <1>14 DEF Within, TileOffset, Height, ps, pc
<1>16. g \in Nat
  BY <1>1, <1>10, FloorIs
<1> HIDE DEF h, nc0, c, kr, z, x, b, g
<1>17. i - c.col_start \in Nat /\ i - c.col_start < c.slot
  <2> HIDE DEF i
  <2> QED BY <1>10, <1>13
<1>18. ElemFacts(kr, i - c.col_start, c.slot, h)
  <2> HIDE DEF i
  <2> QED BY <1>8, <1>9, <1>13, <1>17, ElemIs
<1>19. x \in Nat /\ x < c.slot * h
  BY <1>14, <1>18 DEF ElemFacts
<1>20. z \in Nat /\ z < b * h /\ g * h <= z /\ z < (g + w.NR) * h
  <2> DEFINE s == c.col_start
             t == c.slot
             gn == g + w.NR
  <2>1. s \in Nat /\ t \in Nat /\ gn \in Nat /\ g <= s /\ s + t <= gn /\ s + t <= b
    BY <1>1, <1>13, <1>16
  <2> HIDE DEF gn
  <2>2. g * h <= s * h /\ s * h \in Nat /\ g * h \in Nat
    BY <1>8, <1>16, <2>1, TimesMonotone
  <2>3. (s + t) * h <= gn * h /\ (s + t) * h <= b * h
    BY <1>8, <2>1, TimesMonotone
  <2>4. (s + t) * h = s * h + t * h /\ t * h \in Nat /\ gn * h \in Nat /\ b * h \in Nat
    BY <1>8, <2>1
  <2>5. x \in Nat /\ x < t * h /\ z = s * h + x
    BY <1>15, <1>19
  <2> HIDE DEF s, t
  <2>6. z \in Nat /\ z < b * h /\ g * h <= z /\ z < gn * h
    BY <2>2, <2>3, <2>4, <2>5
  <2> QED BY <2>6 DEF gn
<1>21. e[1] - pc \in Nat
  BY <1>9 DEF kr
<1> QED BY <1>2, <1>6, <1>8, <1>10, <1>11, <1>15, <1>18, <1>19, <1>20, <1>21
        DEF PlaceFacts, ps, pc, h, nc0, c, kr, z, x, b, g

PlaceDecoded(e, N, K, w) ==
  /\ Decodes(PlaceOf(e, N, K, w), panel_start(e[2], w), FirstRow(e, w), Within(e, N, K, w), N, K, w)
  /\ BlockOf(PlaceOf(e, N, K, w), N, K, w) = (e[2] \div w.NR) * w.NR

\* The offset of an element decodes to its panel and its block.
LEMMA PlaceDecodes ==
  ASSUME NEW N, NEW K, NEW w, Good(N, K, w), NEW e, IsElement(e, N, K)
  PROVE  PlaceDecoded(e, N, K, w)
<1> DEFINE ps == panel_start(e[2], w)
           pc == FirstRow(e, w)
           h == Height(pc, K, w)
           i == e[2] - ps
           z == Within(e, N, K, w)
           R == w.NR
           q == i \div R
           o == PlaceOf(e, N, K, w)
<1>1. PlaceFacts(e, N, K, w)
  BY PlaceIs
<1>2. /\ e[2] \in Nat /\ IsPanel(ps, pc, N, K, w) /\ h \in Nat \ {0} /\ i \in Nat
      /\ z \in Nat /\ z < Breadth(ps, N, w) * h
      /\ q * R * h <= z /\ z < (q * R + R) * h
  BY <1>1 DEF PlaceFacts
<1>3. o = Offset(ps, pc, z, N, K, w)
  BY DEF PlaceOf
<1>4. R \in Nat \ {0} /\ Divides(R, w.NC) /\ w.NC \in Nat
  BY DEF Good
<1>5. ps \in Nat /\ Divides(w.NC, ps)
  BY <1>2 DEF IsPanel
<1> HIDE DEF ps, pc, h, z, o, R
<1>6. Decodes(o, ps, pc, z, N, K, w)
  <2>1. z < Breadth(ps, N, w) * Height(pc, K, w)
    BY <1>2 DEF h
  <2>2. Decodes(Offset(ps, pc, z, N, K, w), ps, pc, z, N, K, w)
    BY <1>2, <2>1, Decode
  <2> QED BY <1>3, <2>2
<1>7. q \in Nat
  <2> HIDE DEF i
  <2> QED BY <1>2, <1>4, DivMod
<1> DEFINE d == R * h
<1>8. d \in Nat \ {0}
  BY <1>2, <1>4, WaysBelow
<1>9. z \div d = q
  <2> HIDE DEF q
  <2>1. q * d = q * R * h /\ (q + 1) * d = (q * R + R) * h
    BY <1>2, <1>4, <1>7
  <2> HIDE DEF d
  <2>2. q * d <= z /\ z < (q + 1) * d
    BY <1>2, <2>1
  <2> QED BY <1>2, <1>7, <1>8, <2>2, Quotient
<1>10. BlockOf(o, N, K, w) = ps + q * R
  <2> HIDE DEF q
  <2> QED BY <1>6, <1>9 DEF Decodes, BlockOf, R, h
<1>11. Divides(R, ps)
  BY <1>4, <1>5, DividesTrans
<1>12. ((ps + i) \div R) * R = ps + q * R
  <2> HIDE DEF i
  <2> QED BY <1>2, <1>4, <1>5, <1>11, DivShift
<1>13. ps + i = e[2]
  BY <1>2, <1>5
<1> QED BY <1>6, <1>10, <1>12, <1>13 DEF PlaceDecoded, ps, pc, z, o, R

\* No two elements share a place.
LEMMA PlaceInjective ==
  ASSUME NEW N, NEW K, NEW w, Good(N, K, w), NEW e, IsElement(e, N, K), NEW a, IsElement(a, N, K),
         PlaceOf(e, N, K, w) = PlaceOf(a, N, K, w)
  PROVE  e = a
<1> DEFINE ps == panel_start(e[2], w)
           pc == FirstRow(e, w)
           h == Height(pc, K, w)
           nc0 == Least(N - ps, w.NC)
           z == Within(e, N, K, w)
           R == w.NR
           i == e[2] - ps
           l == a[2] - ps
           c == ChunkOf(e, N, w)
           d == ChunkOf(a, N, w)
           x == InChunk(e, N, w)
           y == InChunk(a, N, w)
<1>1. PlaceFacts(e, N, K, w) /\ PlaceFacts(a, N, K, w)
  BY PlaceIs
<1>2. PlaceDecoded(e, N, K, w) /\ PlaceDecoded(a, N, K, w)
  BY PlaceDecodes
<1>3. panel_start(a[2], w) = ps /\ FirstRow(a, w) = pc /\ Within(a, N, K, w) = z
      /\ (e[2] \div R) * R = (a[2] \div R) * R
  BY <1>2 DEF PlaceDecoded, Decodes
<1>4. /\ e[1] \in Nat /\ e[2] \in Nat /\ e = <<e[1], e[2]>>
      /\ h \in Nat \ {0} /\ i \in Nat /\ i < nc0 /\ nc0 \in Nat /\ e[1] - pc \in Nat
      /\ ChunkFacts(i, nc0, R)
      /\ x \in Nat /\ x < c.slot * h /\ z = c.col_start * h + x
      /\ ElemFacts(e[1] - pc, i - c.col_start, c.slot, h)
      /\ IsPanel(ps, pc, N, K, w)
  BY <1>1 DEF PlaceFacts
<1>5. /\ a[1] \in Nat /\ a[2] \in Nat /\ a = <<a[1], a[2]>>
      /\ l \in Nat /\ l < nc0 /\ a[1] - pc \in Nat
      /\ ChunkFacts(l, nc0, R)
      /\ y \in Nat /\ y < d.slot * h /\ z = d.col_start * h + y
      /\ ElemFacts(a[1] - pc, l - d.col_start, d.slot, h)
  BY <1>1, <1>3 DEF PlaceFacts
<1>6. c = Chunk(i, nc0, R) /\ d = Chunk(l, nc0, R)
  BY <1>3 DEF ChunkOf
<1>7. x = dlp_reorder_elem_offset(e[1] - pc, i - c.col_start, c.slot)
  BY DEF InChunk
<1>8. y = dlp_reorder_elem_offset(a[1] - pc, l - d.col_start, d.slot)
  BY <1>3 DEF InChunk
<1>9. /\ R \in Nat \ {0} /\ Divides(min_NR, R) /\ Divides(R, w.NC) /\ w.NC \in Nat
      /\ ps \in Nat /\ Divides(w.NC, ps) /\ pc \in Nat
  BY <1>4 DEF Good, IsPanel
<1> HIDE DEF ps, pc, h, nc0, z, R, c, d, x, y
<1>10. (i \div R) * R = (l \div R) * R
  <2>1. Divides(R, ps)
    BY <1>9, DividesTrans
  <2>2. e[2] = ps + i /\ a[2] = ps + l
    BY <1>4, <1>5, <1>9
  <2> HIDE DEF i, l
  <2>3. ((ps + i) \div R) * R = ps + (i \div R) * R /\ ((ps + l) \div R) * R = ps + (l \div R) * R
    BY <1>4, <1>5, <1>9, <2>1, DivShift
  <2>4. (i \div R) * R \in Nat /\ (l \div R) * R \in Nat
    BY <1>4, <1>5, <1>9, FloorIs
  <2>5. ((ps + i) \div R) * R = ((ps + l) \div R) * R
    BY <1>3, <2>2
  <2> DEFINE u == (i \div R) * R
             v == (l \div R) * R
  <2>6. u \in Nat /\ v \in Nat /\ ps + u = ps + v
    BY <2>3, <2>4, <2>5
  <2> HIDE DEF u, v
  <2>7. u = v
    BY <1>9, <2>6
  <2> QED BY <2>7 DEF u, v
<1>11. c = d \/ c.col_start + c.slot <= d.col_start \/ d.col_start + d.slot <= c.col_start
  <2> HIDE DEF i, l
  <2> QED BY <1>4, <1>5, <1>6, <1>9, <1>10, ChunksApart
<1>12. /\ c.col_start \in Nat /\ c.slot \in Nat \ {0} /\ d.col_start \in Nat /\ d.slot \in Nat \ {0}
       /\ c.col_start <= i /\ d.col_start <= l
  BY <1>4, <1>5, <1>6 DEF ChunkFacts
<1>13. ASSUME NEW s \in Nat, NEW t \in Nat, NEW u \in Nat, s + t <= u,
              NEW p \in Nat, p < t * h, NEW r \in Nat, s * h + p = u * h + r
       PROVE  FALSE
  <2>1. h \in Nat /\ s + t \in Nat
    BY <1>4
  <2>2. (s + t) * h <= u * h
    BY <1>13, <2>1, TimesMonotone
  <2>3. (s + t) * h = s * h + t * h /\ s * h \in Nat /\ t * h \in Nat /\ u * h \in Nat
    BY <2>1
  <2> QED BY <1>13, <2>2, <2>3
<1>14. c = d
  <2>1. ~(c.col_start + c.slot <= d.col_start)
    BY <1>4, <1>5, <1>12, <1>13
  <2>2. ~(d.col_start + d.slot <= c.col_start)
    BY <1>4, <1>5, <1>12, <1>13
  <2> QED BY <1>11, <2>1, <2>2
<1>15. x = y
  <2> DEFINE u == c.col_start * h
  <2>1. u \in Nat /\ u + x = u + y
    BY <1>4, <1>5, <1>12, <1>14
  <2>2. x \in Nat /\ y \in Nat
    BY <1>4, <1>5
  <2> HIDE DEF u
  <2> QED BY <2>1, <2>2
<1>16. e[1] - pc = a[1] - pc /\ i - c.col_start = l - c.col_start
  <2> HIDE DEF i, l
  <2> QED BY <1>4, <1>5, <1>7, <1>8, <1>14, <1>15 DEF ElemFacts
<1>17. e[1] = a[1] /\ i = l
  <2>1. e[1] = a[1]
    BY <1>4, <1>5, <1>9, <1>16
  <2> HIDE DEF i, l
  <2>2. i \in Nat /\ l \in Nat /\ c.col_start \in Nat
    BY <1>4, <1>5, <1>12
  <2>3. i = l
    BY <1>16, <2>2
  <2> QED BY <2>1, <2>3
<1>18. e[2] = a[2]
  BY <1>4, <1>5, <1>9, <1>17
<1> QED BY <1>4, <1>5, <1>17, <1>18

ShiftFacts(i, wd, a, nc0, NR) ==
  /\ Chunk(a + i, nc0, NR).col_start = a + Chunk(i, wd, NR).col_start
  /\ Chunk(a + i, nc0, NR).slot = Chunk(i, wd, NR).slot
  /\ Chunk(i, wd, NR).col_start \in Nat

\* The chunks of a piece are chunks of its panel.
LEMMA ChunkShift ==
  ASSUME NEW NR \in Nat \ {0}, NEW a \in Nat, Divides(NR, a), NEW nc0 \in Nat, NEW wd \in Nat,
         a + wd = nc0 \/ (Divides(NR, wd) /\ a + wd <= nc0), NEW i \in Nat, i < wd
  PROVE  ShiftFacts(i, wd, a, nc0, NR)
<1> DEFINE f0 == (nc0 \div NR) * NR
           f1 == (wd \div NR) * NR
           m0 == ((nc0 - f0) \div min_NR) * min_NR
           m1 == ((wd - f1) \div min_NR) * min_NR
           t0 == f0 + m0
           t1 == f1 + m1
           g0 == ((a + i) \div NR) * NR
           g1 == (i \div NR) * NR
           c == Chunk(a + i, nc0, NR)
           d == Chunk(i, wd, NR)
<1>1. f0 \in Nat /\ Divides(NR, f0) /\ f0 <= nc0 /\ nc0 < f0 + NR
  BY FloorIs
<1>2. f1 \in Nat /\ f1 <= wd /\ g1 \in Nat
  BY FloorIs
<1>3. g0 = a + g1
  BY DivShift
<1>4. c = IF a + i < f0 THEN [col_start |-> g0, slot |-> NR]
          ELSE IF a + i < t0 THEN [col_start |-> f0, slot |-> t0 - f0]
          ELSE [col_start |-> t0, slot |-> min_NR]
  BY DEF Chunk
<1>5. d = IF i < f1 THEN [col_start |-> g1, slot |-> NR]
          ELSE IF i < t1 THEN [col_start |-> f1, slot |-> t1 - f1]
          ELSE [col_start |-> t1, slot |-> min_NR]
  BY DEF Chunk
<1>6. CASE a + wd = nc0
  <2>1. f0 = a + f1
    BY <1>6, DivShift
  <2> HIDE DEF f0, f1
  <2>2. wd - f1 \in Nat /\ nc0 - f0 = wd - f1
    BY <1>1, <1>2, <1>6, <2>1
  <2>3. m0 = m1 /\ m1 \in Nat
    BY <2>2, FloorIs, LayoutAssumption
  <2> HIDE DEF m0, m1, g0, g1, c, d
  <2>4. t0 = a + t1 /\ t1 \in Nat /\ t0 - f0 = t1 - f1
    BY <1>1, <1>2, <2>1, <2>3
  <2> HIDE DEF t0, t1
  <2>5. a + i < f0 <=> i < f1
    BY <1>1, <1>2, <2>1
  <2>6. a + i < t0 <=> i < t1
    BY <2>4
  <2>7. c.col_start = a + d.col_start /\ c.slot = d.slot /\ d.col_start \in Nat
    BY <1>2, <1>3, <1>4, <1>5, <2>1, <2>4, <2>5, <2>6
  <2> QED BY <2>7 DEF c, d, ShiftFacts
<1>7. CASE Divides(NR, wd) /\ a + wd <= nc0
  <2>1. f1 = wd
    BY <1>7, FloorUnique
  <2>2. Divides(NR, a + wd)
    BY <1>7, DividesSum
  <2>3. ~(f0 < a + wd)
    <3> HIDE DEF f0
    <3>1. a + wd \in Nat
      OBVIOUS
    <3>2. f0 < a + wd => f0 + NR <= a + wd
      BY <1>1, <2>2, <3>1, DividesApart
    <3> QED BY <1>1, <1>7, <3>2
  <2> HIDE DEF f0, f1, m0, m1, g0, g1, c, d
  <2>4. i < f1 /\ a + i < f0
    BY <1>1, <2>1, <2>3
  <2>5. c.col_start = a + d.col_start /\ c.slot = d.slot /\ d.col_start \in Nat
    BY <1>2, <1>3, <1>4, <1>5, <2>4
  <2> QED BY <2>5 DEF c, d, ShiftFacts
<1> QED BY <1>6, <1>7

\* The offset at which a thread has an element of the piece at column j.
PieceOffset(e, j, wd, N, K, w) ==
  PanelBase(j, FirstRow(e, w), N, K, w)
  + TileOffset(e[1] - FirstRow(e, w), e[2] - j, wd, Least(K - FirstRow(e, w), w.KC), w.NR)

\* It is the place of the element, wherever the piece begins and ends.
LEMMA PieceAgrees ==
  ASSUME NEW N, NEW K, NEW w, Good(N, K, w), NEW j, NEW wd, IsPiece(j, wd, N, w),
         NEW e, IsElement(e, N, K), j <= e[2], e[2] < j + wd
  PROVE  PieceOffset(e, j, wd, N, K, w) = PlaceOf(e, N, K, w)
<1> DEFINE ps == panel_start(j, w)
           pc == FirstRow(e, w)
           A == w.NC
           R == w.NR
           h == Height(pc, K, w)
           H == RoundK(K)
           b == Breadth(ps, N, w)
           nc0 == Least(N - ps, A)
           a == j - ps
           i == e[2] - j
           c == Chunk(a + i, nc0, R)
           d == Chunk(i, wd, R)
           kr == e[1] - pc
<1>1. /\ A \in Nat \ {0} /\ R \in Nat \ {0} /\ N \in Nat \ {0} /\ K \in Nat \ {0}
      /\ Divides(R, A)
  BY DEF Good
<1>2. /\ j \in Nat /\ wd \in Nat \ {0} /\ Divides(R, j) /\ j + wd <= N /\ j + wd <= ps + A
      /\ Divides(R, j + wd) \/ j + wd = N
  BY DEF IsPiece
<1>3. PieceFacts(j, wd, N, w)
  BY PieceFits
<1>4. ps \in Nat /\ Divides(A, ps) /\ ps <= j /\ ps < N /\ a \in Nat /\ Divides(R, a)
  BY <1>3 DEF PieceFacts
<1>5. PlaceFacts(e, N, K, w)
  BY PlaceIs
<1>6. /\ e[1] \in Nat /\ e[2] \in Nat /\ h \in Nat \ {0} /\ kr \in Nat /\ pc \in Nat
      /\ Within(e, N, K, w) \in Nat
  BY <1>5 DEF PlaceFacts, IsPanel
<1>7. panel_start(e[2], w) = ps
  <2> HIDE DEF ps, A
  <2>1. ps <= e[2] /\ e[2] < ps + A
    BY <1>1, <1>2, <1>4, <1>6
  <2> QED BY <1>1, <1>4, <1>6, <2>1, PanelStartIs DEF A
<1>8. i \in Nat /\ i < wd /\ a + i = e[2] - ps
  <2> HIDE DEF ps
  <2> QED BY <1>2, <1>4, <1>6
<1>9. nc0 \in Nat /\ (a + wd = nc0 \/ (Divides(R, wd) /\ a + wd <= nc0))
  <2>1. Divides(R, j + wd) => Divides(R, wd)
    <3> HIDE DEF R
    <3>1. wd = (j + wd) - j /\ j + wd \in Nat /\ j <= j + wd /\ R > 0
      BY <1>1, <1>2
    <3>2. Divides(R, j + wd) => Divides(R, (j + wd) - j)
      BY <1>1, <1>2, <3>1, DividesSum
    <3> QED BY <3>1, <3>2
  <2> HIDE DEF ps, A, R
  <2>2. nc0 \in Nat /\ a + wd <= nc0
    BY <1>1, <1>2, <1>4 DEF Least
  <2>3. j + wd = N => a + wd = nc0
    BY <1>1, <1>2, <1>4 DEF Least
  <2> QED BY <1>2, <2>1, <2>2, <2>3
<1>10. c.col_start = a + d.col_start /\ c.slot = d.slot /\ d.col_start \in Nat
  <2> HIDE DEF a, i, nc0, R, A, ps
  <2>1. wd \in Nat
    BY <1>2
  <2>2. ShiftFacts(i, wd, a, nc0, R)
    BY <1>1, <1>4, <1>8, <1>9, <2>1, ChunkShift
  <2> QED BY <2>2 DEF ShiftFacts
<1> DEFINE x == dlp_reorder_elem_offset(kr, (a + i) - c.col_start, c.slot)
           y == dlp_reorder_elem_offset(kr, i - d.col_start, d.slot)
<1>11. x = y
  <2>1. (a + i) - c.col_start = i - d.col_start
    <3> HIDE DEF a, i, c, d
    <3> QED BY <1>4, <1>8, <1>10
  <2> QED BY <1>10, <2>1
<1>12. Within(e, N, K, w) = c.col_start * h + x
  <2>1. e[2] - panel_start(e[2], w) = a + i /\ Least(N - panel_start(e[2], w), A) = nc0
    BY <1>7, <1>8
  <2> HIDE DEF a, i, nc0
  <2>2. Within(e, N, K, w) = TileOffset(kr, a + i, nc0, Least(K - pc, w.KC), R)
    BY <2>1, Zenon DEF Within
  <2> QED BY <2>2, Zenon DEF TileOffset, Height
<1>13. PieceOffset(e, j, wd, N, K, w) = PanelBase(j, pc, N, K, w) + (d.col_start * h + y)
  BY DEF PieceOffset, TileOffset, Height
<1>14. PanelBase(j, pc, N, K, w) = ps * H + b * pc + a * h
  <2>1. j < N
    BY <1>1, <1>2
  <2>2. PanelBase(j, pc, N, K, w) = Offset(ps, pc, a * h, N, K, w)
    BY <1>2, <2>1, BaseIs
  <2> QED BY <2>2 DEF Offset
<1>15. PlaceOf(e, N, K, w) = ps * H + b * pc + (c.col_start * h + x)
  BY <1>7, <1>12 DEF PlaceOf, Offset
<1>16. b \in Nat /\ H \in Nat
  <2>1. BreadthFacts(ps, N, w)
    BY <1>4, BreadthIs
  <2> QED BY <2>1, RowsPadded DEF BreadthFacts
<1>17. x \in Int
  <2>2. InChunk(e, N, w) \in Nat
    BY <1>5 DEF PlaceFacts
  <2>3. InChunk(e, N, w) = x
    <3>1. e[2] - panel_start(e[2], w) = a + i /\ Least(N - panel_start(e[2], w), A) = nc0
      BY <1>7, <1>8
    <3> HIDE DEF a, i, nc0
    <3>2. ChunkOf(e, N, w) = c
      BY <3>1, Zenon DEF ChunkOf
    <3> HIDE DEF c
    <3> QED BY <3>1, <3>2, Zenon DEF InChunk
  <2> QED BY <2>2, <2>3
<1> HIDE DEF ps, pc, A, R, h, H, b, nc0, a, i, c, d, kr, x, y
<1>18. c.col_start * h = a * h + d.col_start * h
  BY <1>4, <1>6, <1>10
<1>19. a * h \in Nat /\ d.col_start * h \in Nat /\ ps * H \in Nat /\ b * pc \in Nat
  BY <1>4, <1>6, <1>10, <1>16
<1> QED BY <1>11, <1>13, <1>14, <1>15, <1>17, <1>18, <1>19

\* The path for a tiny GEMM reads B as one panel, which it is.
LEMMA TinyAgrees ==
  ASSUME NEW N, NEW K, NEW w, Good(N, K, w), N < w.NC, K < w.KC, NEW e, IsElement(e, N, K)
  PROVE  TileOffset(e[1], e[2], N, K, w.NR) = PlaceOf(e, N, K, w)
<1>1. /\ w.NC \in Nat \ {0} /\ w.KC \in Nat \ {0} /\ N \in Nat \ {0} /\ K \in Nat \ {0}
      /\ e[1] \in Nat /\ e[1] < K /\ e[2] \in Nat /\ e[2] < N
  BY DEF Good, IsElement
<1>2. \A d \in Nat : Divides(d, 0)
  <2>1. \A d \in Nat : 0 = 0 * d
    OBVIOUS
  <2> QED BY <2>1 DEF Divides
<1>3. panel_start(e[2], w) = 0
  <2>1. 0 <= e[2] /\ e[2] < 0 + w.NC /\ Divides(w.NC, 0)
    BY <1>1, <1>2
  <2> QED BY <1>1, <2>1, PanelStartIs
<1>4. FirstRow(e, w) = 0
  <2>1. 0 <= e[1] /\ e[1] < 0 + w.KC /\ Divides(w.KC, 0)
    BY <1>1, <1>2
  <2> QED BY <1>1, <2>1, FloorUnique DEF FirstRow
<1>5. Least(N - 0, w.NC) = N /\ Least(K - 0, w.KC) = K /\ e[1] - 0 = e[1] /\ e[2] - 0 = e[2]
  BY <1>1 DEF Least
<1>6. Within(e, N, K, w) = TileOffset(e[1], e[2], N, K, w.NR)
  BY <1>3, <1>4, <1>5 DEF Within
<1>7. PlaceFacts(e, N, K, w)
  BY PlaceIs
<1>8. Within(e, N, K, w) \in Nat
  BY <1>7 DEF PlaceFacts
<1>9. BreadthFacts(0, N, w)
  <2>1. Divides(w.NC, 0) /\ 0 < N
    BY <1>1, <1>2
  <2> QED BY <2>1, BreadthIs
<1>10. Breadth(0, N, w) \in Nat /\ RoundK(K) \in Nat
  BY <1>9, RowsPadded DEF BreadthFacts
<1>11. PlaceOf(e, N, K, w) = 0 * RoundK(K) + Breadth(0, N, w) * 0 + Within(e, N, K, w)
  BY <1>3, <1>4 DEF PlaceOf, Offset
<1> HIDE DEF RoundK, Breadth, Within
<1>12. PlaceOf(e, N, K, w) = Within(e, N, K, w)
  BY <1>8, <1>10, <1>11
<1> QED BY <1>6, <1>12

----------------------------------------------------------------------------
(* The search for a tile.                                                  *)

\* The cheapest of some shapes, the first of several, exists.
LEMMA CheapestExists ==
  ASSUME NEW D, D \subseteq Nat, D # {}, NEW cost, \A i \in D : cost[i] \in Nat
  PROVE  \E i \in D : \A j \in D : cost[i] < cost[j] \/ (cost[i] = cost[j] /\ i <= j)
<1> DEFINE T == {cost[i] : i \in D}
<1>1. T \subseteq Nat /\ T # {}
  OBVIOUS
<1>2. PICK x \in T : \A y \in T : x <= y
  BY <1>1, NatMin
<1> DEFINE S == {i \in D : cost[i] = x}
<1>3. S \subseteq Nat /\ S # {}
  OBVIOUS
<1>4. PICK i \in S : \A j \in S : i <= j
  BY <1>3, NatMin
<1>5. ASSUME NEW j \in D PROVE cost[i] < cost[j] \/ (cost[i] = cost[j] /\ i <= j)
  <2>1. cost[j] \in Nat /\ x \in Nat /\ cost[i] = x /\ x <= cost[j]
    BY <1>1, <1>2
  <2>2. cost[j] = x => i <= j
    BY <1>4
  <2> QED BY <2>1, <2>2
<1> QED BY <1>5

\* A tile is some vectors wide.
IsTile(t) == t.mr \in Nat \ {0} /\ t.nr \in Nat \ {0} /\ t.nr % min_NR = 0

ShapeFacts(s) == IsTile(s) /\ s.ways.ic \in Int /\ s.ways.jc \in Int

SearchInput(in) ==
  /\ in.m \in Nat \ {0} /\ in.n \in Nat \ {0} /\ in.num_threads \in Int
  /\ in.mr \in Nat \ {0} /\ in.nr \in Nat \ {0} /\ in.nr % min_NR = 0

\* A tile with its split.
LEMMA ShapeIs ==
  ASSUME NEW in, SearchInput(in), NEW t, IsTile(t)
  PROVE  ShapeFacts(resolveShape(in, t)) /\ costEval(in, resolveShape(in, t)) \in Nat
<1> DEFINE p == [m |-> in.m, n |-> in.n, MR |-> t.mr, NR |-> t.nr]
           r == Split(in.num_threads, 0, 0)
           s == PanelGetThreading(r, p, TRUE)
           v == resolveShape(in, t)
<1>1. in.m \in Nat \ {0} /\ in.n \in Nat \ {0} /\ in.num_threads \in Int
      /\ t.mr \in Nat \ {0} /\ t.nr \in Nat \ {0} /\ t.nr % min_NR = 0
  BY DEF SearchInput, IsTile
<1>2. IsProblem(p)
  BY <1>1 DEF IsProblem
<1>3. r \in [nt : Int, ic : Int, jc : Int]
  BY <1>1 DEF Split
<1>4. IsSplit(s)
  <2> HIDE DEF p, r
  <2> QED BY <1>2, <1>3, PanelThreading
<1>5. v.mr = t.mr /\ v.nr = t.nr /\ v.ways = s
  BY DEF resolveShape, resolveWays
<1> HIDE DEF s, v
<1>6. s.ic \in Nat \ {0} /\ s.jc \in Nat \ {0}
  BY <1>4 DEF IsSplit
<1>7. ShapeFacts(v)
  BY <1>1, <1>5, <1>6 DEF ShapeFacts, IsTile
<1>8. costEval(in, v) \in Nat
  <2> DEFINE a == CeilDiv(CeilDiv(in.m, t.mr), s.ic)
             b == CeilDiv(CeilDiv(in.n, t.nr), s.jc)
  <2>1. CeilDiv(in.m, t.mr) \in Nat \ {0} /\ CeilDiv(in.n, t.nr) \in Nat \ {0}
    BY <1>1, CeilDivIs
  <2>2. a \in Nat /\ b \in Nat
    BY <1>6, <2>1, CeilDivIs
  <2>3. costEval(in, v) = (a * t.mr) * (b * t.nr)
    BY <1>5 DEF costEval
  <2> HIDE DEF a, b
  <2>4. a * t.mr \in Nat /\ b * t.nr \in Nat
    BY <1>1, <2>2
  <2>5. (a * t.mr) * (b * t.nr) \in Nat
    BY <2>4
  <2> QED BY <2>3, <2>5
<1> QED BY <1>7, <1>8 DEF v

\* The tiles that are compared.
LEMMA SweepIs ==
  ASSUME NEW in, SearchInput(in)
  PROVE  /\ DOMAIN sweepCandidates(in) \subseteq Nat /\ DOMAIN sweepCandidates(in) # {}
         /\ \A i \in DOMAIN sweepCandidates(in) : IsTile(sweepCandidates(in)[i])
<1> DEFINE D == DOMAIN candidateTiles
           admitted == {i \in D : isCandidateAdmissible(in, candidateTiles[i])}
           own == [mr |-> in.mr, nr |-> in.nr]
           all == [i \in admitted |-> candidateTiles[i]]
           s == sweepCandidates(in)
<1>1. D \subseteq Nat /\ \A i \in D : IsTile(candidateTiles[i])
  BY ShapeModelAssumption, ReorderAssumption DEF IsTile
<1>2. IsTile(streamingTile)
  BY ShapeModelAssumption, ReorderAssumption DEF IsTile
<1>3. IsTile(own)
  BY DEF SearchInput, IsTile
<1>4. s = IF isBStreamBound(in) THEN <<streamingTile>>
          ELSE IF admitted = {} THEN <<own>> ELSE all
  BY DEF sweepCandidates
<1> HIDE DEF s, own
<1>5. CASE isBStreamBound(in)
  <2>1. s = <<streamingTile>>
    BY <1>4, <1>5
  <2>2. DOMAIN s = {1} /\ s[1] = streamingTile
    BY <2>1
  <2> QED BY <1>2, <2>2 DEF s
<1>6. CASE ~isBStreamBound(in) /\ admitted = {}
  <2>1. s = <<own>>
    BY <1>4, <1>6
  <2>2. DOMAIN s = {1} /\ s[1] = own
    BY <2>1
  <2> QED BY <1>3, <2>2 DEF s
<1>7. CASE ~isBStreamBound(in) /\ admitted # {}
  <2>1. s = all
    BY <1>4, <1>7
  <2>2. DOMAIN s = admitted /\ \A i \in admitted : s[i] = candidateTiles[i]
    BY <2>1
  <2>3. admitted \subseteq D
    OBVIOUS
  <2> QED BY <1>1, <1>7, <2>2, <2>3 DEF s
<1> QED BY <1>5, <1>6, <1>7

\* The tile the search proposes is one of them.
LEMMA ProposalIs ==
  ASSUME NEW in, SearchInput(in)
  PROVE  ShapeFacts(proposeShape(in))
<1> DEFINE tiles == sweepCandidates(in)
           D == DOMAIN tiles
           shapes == Shapes(in, tiles)
           cost == [i \in DOMAIN shapes |-> costEval(in, shapes[i])]
           best == CHOOSE i \in DOMAIN shapes : \A j \in DOMAIN shapes :
                     cost[i] < cost[j] \/ (cost[i] = cost[j] /\ i <= j)
<1>1. D \subseteq Nat /\ D # {} /\ \A i \in D : IsTile(tiles[i])
  BY SweepIs
<1> HIDE DEF tiles
<1>2. DOMAIN shapes = D /\ \A i \in D : shapes[i] = resolveShape(in, tiles[i])
  BY DEF Shapes
<1>3. \A i \in D : ShapeFacts(shapes[i]) /\ costEval(in, shapes[i]) \in Nat
  BY <1>1, <1>2, ShapeIs
<1>4. proposeShape(in) = shapes[best]
  BY DEF proposeShape, cheapest, tiles
<1> HIDE DEF shapes
<1>5. \A i \in D : cost[i] \in Nat
  BY <1>2, <1>3
<1> HIDE DEF cost
<1>6. \E i \in D : \A j \in D : cost[i] < cost[j] \/ (cost[i] = cost[j] /\ i <= j)
  <2> HIDE DEF D
  <2> QED BY <1>1, <1>5, CheapestExists
<1>7. best \in D
  BY <1>2, <1>6
<1> HIDE DEF best
<1> QED BY <1>3, <1>4, <1>7

----------------------------------------------------------------------------
(* The layout every call comes to.                                         *)

\* The context a call begins with, and what the reorder makes of it.
Begun == dlp_gemm_upd_cntx_with_metadata
AgreedNR == reorderedPanelNR(n, k, Begun)
AgreedNC == dlp_reorder_round_up(Begun.NC, AgreedNR)
Agreed == [NR |-> AgreedNR, NC |-> AgreedNC, KC |-> Begun.KC]

\* Context c cuts B as w does.
Same(c, w) == c.NR = w.NR /\ c.NC = w.NC /\ c.KC = w.KC

BegunFacts ==
  /\ Begun.MC \in Nat \ {0} /\ Begun.NC \in Nat \ {0} /\ Begun.KC \in Nat \ {0}
  /\ Begun.MR \in Nat \ {0} /\ Begun.NR \in Nat \ {0}
  /\ Begun.m_hint = meta.m_hint /\ Begun.nt_hint = meta.nt_hint
  /\ meta.m_hint \in Int /\ meta.nt_hint \in Int
  /\ Begun.KC = IF "KC" \in Stated THEN meta.blocks["KC"] ELSE GemvKC

\* The metadata and the sizes of the global context make a context.
LEMMA BegunIs ==
  ASSUME meta \in Metadata
  PROVE  BegunFacts
<1>1. meta \in [blocks : [BlockNames -> Nat], m_hint : Int, nt_hint : Int]
  BY ReorderAssumption
<1>2. meta.blocks \in [BlockNames -> Nat] /\ meta.m_hint \in Int /\ meta.nt_hint \in Int
  BY <1>1
<1>3. DefaultBlocks \in [BlockNames -> Nat \ {0}] /\ DOMAIN DefaultBlocks = BlockNames
  BY ReorderAssumption
<1> DEFINE b == [x \in DOMAIN DefaultBlocks |->
                   IF x \in Stated THEN meta.blocks[x] ELSE DefaultBlocks[x]]
           Fit(x, to) == IF x \in Stated \/ Stated = {} THEN b[x]
                         ELSE dlp_reorder_round_up(b[x], to)
<1>4. \A x \in BlockNames : b[x] \in Nat \ {0}
  <2> SUFFICES ASSUME NEW x \in BlockNames PROVE b[x] \in Nat \ {0}
    OBVIOUS
  <2>1. x \in Stated => meta.blocks[x] \in Nat \ {0}
    BY <1>2 DEF Stated
  <2>2. DefaultBlocks[x] \in Nat \ {0}
    BY <1>3
  <2> QED BY <1>3, <2>1, <2>2
<1>5. "MC" \in BlockNames /\ "NC" \in BlockNames /\ "KC" \in BlockNames
      /\ "MR" \in BlockNames /\ "NR" \in BlockNames
  BY DEF BlockNames
<1>6. b["KC"] = IF "KC" \in Stated THEN meta.blocks["KC"] ELSE DefaultBlocks["KC"]
  BY <1>3, <1>5
<1>7. Begun = [MC |-> Fit("MC", b["MR"]), NC |-> Fit("NC", b["NR"]), KC |-> b["KC"],
               MR |-> b["MR"], NR |-> b["NR"], mask |-> Stated,
               m_hint |-> meta.m_hint, nt_hint |-> meta.nt_hint]
  BY DEF Begun, dlp_gemm_upd_cntx_with_metadata
<1> HIDE DEF b
<1>8. ASSUME NEW x \in Nat \ {0}, NEW to \in Nat \ {0}
      PROVE  dlp_reorder_round_up(x, to) \in Nat \ {0}
  <2> DEFINE u == dlp_reorder_round_up(x, to)
  <2>1. u \in Nat /\ x <= u
    BY RoundUp
  <2> HIDE DEF u
  <2>2. u \in Nat \ {0}
    BY <2>1
  <2> QED BY <2>2 DEF u
<1>9. Fit("MC", b["MR"]) \in Nat \ {0} /\ Fit("NC", b["NR"]) \in Nat \ {0}
  BY <1>4, <1>5, <1>8
<1>10. DefaultBlocks["KC"] = GemvKC
  BY ReorderAssumption
<1> HIDE DEF Fit
<1> QED BY <1>2, <1>4, <1>5, <1>6, <1>7, <1>9, <1>10 DEF BegunFacts

Legal == dlp_reorder_ref_blocks_legal(Begun.NR, Begun.KC)

\* The tile of a GEMM over B is a tile.
LEMMA ResolvedIs ==
  ASSUME prob \in Problems, meta \in Metadata, Legal
  PROVE  ShapeFacts(resolveGemmShape(n, k, Begun))
<1> DEFINE c == Begun
           in == makeModelInput(n, k, c)
<1>1. BegunFacts
  BY BegunIs
<1>2. n \in Nat \ {0} /\ k \in Nat \ {0}
  BY ReorderAssumption DEF n, k
<1>3. /\ c.MR \in Nat \ {0} /\ c.NR \in Nat \ {0} /\ c.m_hint \in Int /\ c.nt_hint \in Int
      /\ c.NR % min_NR = 0
  BY <1>1 DEF BegunFacts, Legal, dlp_reorder_ref_blocks_legal
<1> HIDE DEF c
<1>4. /\ in.m = c.m_hint /\ in.n = n /\ in.mr = c.MR /\ in.nr = c.NR
      /\ in.num_threads = c.nt_hint
  BY DEF makeModelInput
<1>5. resolveGemmShape(n, k, c) =
        IF canUseAnalyticalShapeModel(in) THEN proposeShape(in)
        ELSE [mr |-> in.mr, nr |-> in.nr, ways |-> Split(0, 0, 0)]
  BY DEF resolveGemmShape
<1> HIDE DEF in
<1>6. CASE canUseAnalyticalShapeModel(in)
  <2>1. in.m > 1
    BY <1>6 DEF canUseAnalyticalShapeModel, isEligible
  <2>2. SearchInput(in)
    BY <1>2, <1>3, <1>4, <2>1 DEF SearchInput
  <2>3. ShapeFacts(proposeShape(in))
    BY <2>2, ProposalIs
  <2> QED BY <1>5, <1>6, <2>3 DEF c
<1>7. CASE ~canUseAnalyticalShapeModel(in)
  <2> DEFINE s == [mr |-> in.mr, nr |-> in.nr, ways |-> Split(0, 0, 0)]
  <2>1. s.mr = in.mr /\ s.nr = in.nr /\ s.ways.ic = 0 /\ s.ways.jc = 0
    BY DEF Split
  <2>2. ShapeFacts(s)
    <3> HIDE DEF s
    <3> QED BY <1>3, <1>4, <2>1 DEF ShapeFacts, IsTile
  <2> QED BY <1>5, <1>7, <2>2 DEF c
<1> QED BY <1>6, <1>7

\* The layout is a layout.
LEMMA AgreedIs ==
  ASSUME prob \in Problems, meta \in Metadata, Legal
  PROVE  Good(n, k, Agreed)
<1>1. ShapeFacts(resolveGemmShape(n, k, Begun))
  BY ResolvedIs
<1>2. AgreedNR \in Nat \ {0} /\ AgreedNR % min_NR = 0
  BY <1>1 DEF ShapeFacts, IsTile, AgreedNR, reorderedPanelNR
<1>3. min_NR \in Nat \ {0} /\ k_factor \in Nat \ {0}
  BY LayoutAssumption
<1>4. Divides(min_NR, AgreedNR)
  BY <1>2, <1>3, DividesIs
<1>5. BegunFacts
  BY BegunIs
<1>6. Begun.NC \in Nat \ {0} /\ Begun.KC \in Nat \ {0} /\ Begun.KC % k_factor = 0
  BY <1>5 DEF BegunFacts, Legal, dlp_reorder_ref_blocks_legal
<1>7. Divides(k_factor, Begun.KC)
  BY <1>3, <1>6, DividesIs
<1> HIDE DEF AgreedNR
<1>8. AgreedNC \in Nat /\ Begun.NC <= AgreedNC /\ Divides(AgreedNR, AgreedNC)
  BY <1>2, <1>6, RoundUp DEF AgreedNC
<1>9. AgreedNC \in Nat \ {0}
  BY <1>6, <1>8
<1>10. n \in Nat \ {0} /\ k \in Nat \ {0}
  BY ReorderAssumption DEF n, k
<1>11. Agreed.NR = AgreedNR /\ Agreed.NC = AgreedNC /\ Agreed.KC = Begun.KC
  BY DEF Agreed
<1> QED BY <1>2, <1>4, <1>6, <1>7, <1>8, <1>9, <1>10, <1>11 DEF Good

\* Calls that cut B the same way walk through it the same way.
LEMMA SameWalk ==
  ASSUME NEW c, NEW w, Same(c, w)
  PROVE  /\ \A j : panel_start(j, c) = panel_start(j, w) /\ NextPanel(j, c) = NextPanel(j, w)
         /\ \A j, e : panel_width(j, e, c) = panel_width(j, e, w)
         /\ \A j, pc, N, K : PanelBase(j, pc, N, K, c) = PanelBase(j, pc, N, K, w)
<1>1. \A j : panel_start(j, c) = panel_start(j, w)
  BY DEF panel_start, Same
<1>2. \A j : NextPanel(j, c) = NextPanel(j, w)
  BY <1>1 DEF NextPanel, Same
<1>3. \A j : panel_offset(j, c) = panel_offset(j, w)
  BY <1>1 DEF panel_offset
<1>4. \A j, e : panel_width(j, e, c) = panel_width(j, e, w)
  BY <1>3 DEF panel_width, Same
<1>5. \A j, N : dlp_gemm_get_Bpanel_width_for_kmd_traversal(j, N, c)
                  = dlp_gemm_get_Bpanel_width_for_kmd_traversal(j, N, w)
  BY DEF dlp_gemm_get_Bpanel_width_for_kmd_traversal, Same
<1>6. \A j, pc, N, K : PanelBase(j, pc, N, K, c) = PanelBase(j, pc, N, K, w)
  BY <1>1, <1>3, <1>5 DEF PanelBase, Same
<1> QED BY <1>1, <1>2, <1>4, <1>6

----------------------------------------------------------------------------
(* The inductive invariant.                                                *)

\* What lies at offset o of a packed buffer.
Image(o) ==
  IF \E e \in Elements : PlaceOf(e, n, k, Agreed) = o
  THEN CHOOSE e \in Elements : PlaceOf(e, n, k, Agreed) = o
  ELSE Pad

\* Some thread has passed column c of its range.
Done(c) == \E t \in DOMAIN team : c \in Indices(team[t]) /\ c < jc[t]

Fresh == buf = [o \in 0 .. Size - 1 |-> Undef]
Filling ==
  buf = [o \in 0 .. Size - 1 |-> IF Done(BlockOf(o, n, k, Agreed)) THEN Image(o) ELSE Undef]
Full ==
  IF n = 1 THEN buf = [o \in 0 .. Size - 1 |-> <<o, 0>>]
  ELSE buf = [o \in 0 .. Size - 1 |-> Image(o)] /\ Same(lay, Agreed)

\* The team shares the columns, and each thread is at a block of its range.
Sharing ==
  \E ways \in Nat \ {0} :
    /\ team = [t \in 0 .. ways - 1 |-> dlp_thread_task_range(ways, t, n, AgreedNR, FALSE)]
    /\ jc \in [0 .. ways - 1 -> Nat]
    /\ \A t \in 0 .. ways - 1 : team[t].start <= jc[t] /\ Divides(AgreedNR, jc[t])

\* One thread has all columns, and has read none or all.
OneBlock == team = [t \in 0 .. 0 |-> Span(0, n)] /\ jc \in [0 .. 0 -> {0, n}]

PackOps == {"reorder", "reference"}
ReadOps == {"gemm", "unreorder", "unreorder_reference"}
IsRuntime(r) == r \in [nt : Int, ic : Int, jc : Int]
IsCall(c) == c = [op |-> c.op, m |-> c.m, r |-> c.r]
IsContext(c) ==
  c = [MC |-> c.MC, NC |-> c.NC, KC |-> c.KC, MR |-> c.MR, NR |-> c.NR, mask |-> c.mask,
       m_hint |-> c.m_hint, nt_hint |-> c.nt_hint]

\* What has been read: the columns that are passed; all or nothing.
HasRead == out = [e \in Elements |-> IF Done(e[2]) THEN e ELSE Undef]
HasReadAll == out = [e \in Elements |-> IF jc[0] = n THEN e ELSE Undef]

\* The context of a GEMM once its kernel is settled.
GemmContext ==
  /\ cntx.NR = AgreedNR /\ cntx.NC = AgreedNC /\ cntx.MR \in Nat \ {0}
  /\ cntx.KC = Begun.KC \/ cntx.KC = RoundK(GemvKC)

BufferInv ==
  /\ phase = "new" => buf = Empty
  /\ phase = "sized" => Fresh
  /\ phase = "over" => buf = Empty \/ Fresh
  /\ phase \in {"packb", "start"} /\ call.op \in PackOps => Fresh
  /\ phase \in {"packb", "start"} /\ call.op \in ReadOps => Full
  /\ phase = "packing" => Filling
  /\ phase \in {"kernel", "packed", "reading"} => Full

CallInv ==
  /\ phase \in {"kernel", "packb", "start"} =>
       /\ IsCall(call) /\ IsRuntime(call.r)
       /\ call.op = "gemm" => call.m \in Rows
  /\ phase \in {"kernel", "packb"} => IsContext(cntx)
  /\ phase = "kernel" => call.op = "gemm" /\ cntx = Begun
  /\ phase \in {"packb", "start"} => call.op \in PackOps \cup ReadOps
  /\ phase \in {"packb", "start"} /\ call.op \in PackOps => n > 1
  /\ phase = "packb" /\ call.op # "gemm" => cntx = Begun
  /\ phase = "packb" /\ call.op = "gemm" /\ n > 1 =>
       GemmContext /\ "MR" \in cntx.mask /\ "NR" \in cntx.mask
  /\ phase = "start" /\ call.op # "gemm" /\ n > 1 => Same(cntx, Agreed)
  /\ phase = "start" /\ call.op = "gemm" /\ n > 1 => GemmContext
  /\ phase = "packing" =>
       n > 1 /\ call.op \in PackOps /\ Same(cntx, Agreed) /\ Same(lay, Agreed)

TeamInv ==
  /\ phase \notin {"packing", "reading"} => team = Empty /\ jc = Empty
  /\ phase # "reading" => out = Nothing
  /\ phase = "packing" => Sharing
  /\ phase = "reading" =>
       \/ call.op = "vector" /\ n = 1 /\ OneBlock /\ HasReadAll
       \/ /\ call.op = "tiny" /\ n > 1 /\ OneBlock /\ HasReadAll
          /\ Same(cntx, Agreed) /\ n < cntx.NC /\ k < cntx.KC
       \/ /\ call.op \in ReadOps /\ n > 1 /\ Sharing /\ HasRead
          /\ Same(cntx, Agreed)

PhaseInv ==
  /\ prob \in Problems /\ meta \in Metadata
  /\ phase \in {"new", "sized", "kernel", "packb", "start", "packing", "packed", "reading", "over"}
  /\ call.op \in {"none", "tiny", "vector"} \cup PackOps \cup ReadOps
  /\ phase \notin {"new", "over"} => Legal

IInv == PhaseInv /\ BufferInv /\ CallInv /\ TeamInv

----------------------------------------------------------------------------
(* What no step changes.                                                   *)

\* B and the metadata stay, and with them the layout and what belongs where.
LEMMA Unmoved ==
  ASSUME prob' = prob, meta' = meta
  PROVE  /\ n' = n /\ k' = k /\ Begun' = Begun /\ AgreedNR' = AgreedNR /\ AgreedNC' = AgreedNC
         /\ Agreed' = Agreed /\ (Legal' <=> Legal) /\ Elements' = Elements /\ Nothing' = Nothing
         /\ Size' = Size /\ Stated' = Stated
         /\ \A o : Image(o)' = Image(o)
<1>1. n' = n /\ k' = k
  BY DEF n, k
<1>2. Stated' = Stated
  BY DEF Stated
<1>3. Begun' = Begun
  BY <1>2 DEF Begun, dlp_gemm_upd_cntx_with_metadata
<1>4. AgreedNR' = AgreedNR
  BY <1>1, <1>3 DEF AgreedNR
<1>5. AgreedNC' = AgreedNC
  BY <1>3, <1>4 DEF AgreedNC
<1>6. Agreed' = Agreed
  BY <1>3, <1>4, <1>5 DEF Agreed
<1>7. Legal' <=> Legal
  BY <1>3 DEF Legal
<1>8. Elements' = Elements
  BY <1>1 DEF Elements
<1>9. Nothing' = Nothing
  BY <1>8 DEF Nothing
<1>10. Size' = Size
  BY <1>1 DEF Size
<1>11. ASSUME NEW o PROVE Image(o)' = Image(o)
  BY <1>1, <1>6, <1>8 DEF Image
<1> QED BY <1>1, <1>2, <1>3, <1>4, <1>5, <1>6, <1>7, <1>8, <1>9, <1>10, <1>11

----------------------------------------------------------------------------
(* The image of B, and one step of a thread.                               *)

Settled == prob \in Problems /\ meta \in Metadata /\ Legal

\* The size of a matrix of several columns is that of its layout.
LEMMA SizeIs ==
  ASSUME Settled
  PROVE  /\ n \in Nat \ {0} /\ k \in Nat \ {0} /\ Size \in Nat \ {0}
         /\ n > 1 => Size = RoundN(n) * RoundK(k)
         /\ n = 1 => Size = k
<1>1. Good(n, k, Agreed)
  BY AgreedIs DEF Settled
<1>2. RoundK(k) \in Nat \ {0} /\ RoundN(n) \in Nat \ {0}
  BY <1>1, RowsPadded
<1>3. n \in Nat \ {0} /\ k \in Nat \ {0}
  BY <1>1 DEF Good
<1> DEFINE a == RoundK(k)
           b == RoundN(n)
<1>4. Size = IF n = 1 THEN k ELSE a * b
  BY DEF Size
<1>5. a \in Nat \ {0} /\ b \in Nat \ {0}
  BY <1>2
<1> HIDE DEF a, b
<1>6. a * b = b * a /\ a * b \in Nat \ {0}
  BY <1>5, WaysBelow
<1>7. (n > 1 => Size = b * a) /\ (n = 1 => Size = k) /\ Size \in Nat \ {0}
  BY <1>3, <1>4, <1>6
<1> QED BY <1>3, <1>7 DEF a, b

ImageFacts(e) ==
  /\ PlaceOf(e, n, k, Agreed) \in Nat
  /\ PlaceOf(e, n, k, Agreed) < RoundN(n) * RoundK(k)
  /\ Image(PlaceOf(e, n, k, Agreed)) = e
  /\ BlockOf(PlaceOf(e, n, k, Agreed), n, k, Agreed) = (e[2] \div AgreedNR) * AgreedNR

\* Every element is in the image, at its place.
LEMMA ImageIs ==
  ASSUME Settled, NEW e \in Elements
  PROVE  ImageFacts(e)
<1> DEFINE o == PlaceOf(e, n, k, Agreed)
<1>1. Good(n, k, Agreed)
  BY AgreedIs DEF Settled
<1>2. IsElement(e, n, k)
  BY DEF IsElement, Elements
<1>3. PlaceDecoded(e, n, k, Agreed)
  BY <1>1, <1>2, PlaceDecodes
<1>4. o \in Nat /\ o < RoundN(n) * RoundK(k)
  BY <1>3 DEF PlaceDecoded, Decodes
<1>5. BlockOf(o, n, k, Agreed) = (e[2] \div Agreed.NR) * Agreed.NR
  BY <1>3 DEF PlaceDecoded
<1>6. Agreed.NR = AgreedNR
  BY DEF Agreed
<1>7. \A a \in Elements : PlaceOf(a, n, k, Agreed) = o => a = e
  BY <1>1, <1>2, PlaceInjective DEF IsElement, Elements
<1>8. Image(o) = e
  BY <1>7 DEF Image
<1> QED BY <1>4, <1>5, <1>6, <1>8 DEF ImageFacts

\* And nothing else is but padding.
LEMMA ImageContents ==
  ASSUME NEW o
  PROVE  Image(o) \in Elements \cup {Pad}
  BY DEF Image

\* An element is in a piece when its block begins in it.
LEMMA BlockInPiece ==
  ASSUME Settled, NEW e \in Elements, NEW j, NEW wd, IsPiece(j, wd, n, Agreed)
  PROVE  (j <= e[2] /\ e[2] < j + wd) <=>
           (/\ j <= (e[2] \div AgreedNR) * AgreedNR
            /\ (e[2] \div AgreedNR) * AgreedNR < j + wd)
<1> DEFINE R == AgreedNR
           b == (e[2] \div R) * R
<1>1. Good(n, k, Agreed) /\ Agreed.NR = R
  BY AgreedIs DEF Settled, Agreed
<1>2. R \in Nat \ {0} /\ n \in Nat \ {0} /\ k \in Nat \ {0}
  BY <1>1 DEF Good
<1>3. /\ j \in Nat /\ wd \in Nat \ {0} /\ Divides(R, j) /\ j + wd <= n
      /\ Divides(R, j + wd) \/ j + wd = n
  BY <1>1 DEF IsPiece
<1>4. e[2] \in Nat /\ e[2] < n
  BY <1>2 DEF Elements
<1> HIDE DEF R
<1>5. b \in Nat /\ Divides(R, b) /\ b <= e[2] /\ e[2] < b + R
  BY <1>2, <1>4, FloorIs
<1> HIDE DEF b
<1>6. b < j => b + R <= j
  BY <1>2, <1>3, <1>5, DividesApart
<1>7. b < j + wd /\ Divides(R, j + wd) => b + R <= j + wd
  <2>1. j + wd \in Nat
    BY <1>3
  <2> QED BY <1>2, <1>5, <2>1, DividesApart
<1>8. j <= e[2] /\ e[2] < j + wd <=> j <= b /\ b < j + wd
  BY <1>2, <1>3, <1>4, <1>5, <1>6, <1>7
<1> QED BY <1>8 DEF b, R

RangeFacts(ways, w, R) ==
  LET r == dlp_thread_task_range(ways, w, n, R, FALSE)
  IN  /\ r.start \in Nat /\ r.end \in Nat /\ r.start <= r.end /\ r.end <= n
      /\ Divides(R, r.start)
      /\ r.end = n \/ Divides(R, r.end)

\* The range of a thread is made of blocks.
LEMMA RangeIs ==
  ASSUME n \in Nat, NEW ways \in Nat \ {0}, NEW R \in Nat \ {0}, NEW w \in 0 .. ways - 1
  PROVE  RangeFacts(ways, w, R)
<1> DEFINE r(v) == dlp_thread_task_range(ways, v, n, R, FALSE)
<1>1. \A v \in 0 .. ways - 1 :
        r(v).start \in Nat /\ r(v).end \in Nat /\ r(v).start <= r(v).end /\ r(v).end <= n
  BY RangeWithin
<1>2. RangesAligned(ways, n, R)
  BY TaskRangesAligned
<1>3. \A v \in 0 .. ways - 1 : r(v).start % R = 0
  BY <1>2 DEF RangesAligned
<1>4. \A v \in 0 .. ways - 1 : Divides(R, r(v).start)
  BY <1>1, <1>3, DividesIs
<1>5. RangesTile(ways, n, R, FALSE)
  BY TaskRangesTile
<1>6. r(ways - 1).end = n /\ \A v \in 0 .. ways - 2 : r(v).end = r(v + 1).start
  BY <1>5 DEF RangesTile
<1> HIDE DEF r
<1>7. CASE w = ways - 1
  BY <1>1, <1>4, <1>6, <1>7 DEF RangeFacts, r
<1>8. CASE w # ways - 1
  <2>1. w \in 0 .. ways - 2 /\ w + 1 \in 0 .. ways - 1
    BY <1>8
  <2>2. Divides(R, r(w).end)
    BY <1>4, <1>6, <2>1
  <2> QED BY <1>1, <1>4, <2>2 DEF RangeFacts, r
<1> QED BY <1>7, <1>8

\* Columns of a piece.
InPiece(c, j, wd) == j <= c /\ c < j + wd

StepFacts(t) ==
  LET j == jc[t]
      wd == panel_width(jc[t], team[t].end, Agreed)
  IN  /\ IsPiece(j, wd, n, Agreed)
      /\ Sharing'
      /\ \A c \in 0 .. n - 1 : InPiece(c, j, wd) => ~Done(c)
      /\ \A c \in 0 .. n - 1 : Done(c)' <=> Done(c) \/ InPiece(c, j, wd)

\* A step of a thread takes a piece nobody has taken, and passes it.
LEMMA ThreadStep ==
  ASSUME Settled, Sharing, Same(cntx, Agreed), NEW t \in DOMAIN team, Active(t), Step(t),
         prob' = prob, meta' = meta, team' = team
  PROVE  StepFacts(t)
<1> DEFINE R == AgreedNR
           j == jc[t]
           e == team[t].end
           wd == panel_width(j, e, Agreed)
           nx == NextPanel(j, Agreed)
<1>1. PICK ways \in Nat \ {0} :
        /\ team = [s \in 0 .. ways - 1 |-> dlp_thread_task_range(ways, s, n, R, FALSE)]
        /\ jc \in [0 .. ways - 1 -> Nat]
        /\ \A s \in 0 .. ways - 1 : team[s].start <= jc[s] /\ Divides(R, jc[s])
  BY DEF Sharing
<1>2. Good(n, k, Agreed) /\ Agreed.NR = R
  BY AgreedIs DEF Settled, Agreed
<1>3. n \in Nat \ {0} /\ R \in Nat \ {0}
  BY <1>2 DEF Good
<1>4. DOMAIN team = 0 .. ways - 1 /\ t \in 0 .. ways - 1
  BY <1>1
<1>5. \A s \in 0 .. ways - 1 : RangeFacts(ways, s, R)
  BY <1>3, RangeIs
<1>6. \A s \in 0 .. ways - 1 :
        /\ team[s].start \in Nat /\ team[s].end \in Nat /\ team[s].end <= n
        /\ team[s].end = n \/ Divides(R, team[s].end)
  BY <1>1, <1>5 DEF RangeFacts
<1>7. j \in Nat /\ Divides(R, j) /\ j < e /\ e \in Nat /\ e <= n /\ (e = n \/ Divides(R, e))
      /\ team[t].start <= j
  BY <1>1, <1>4, <1>6 DEF Active
<1>8. PieceOf(j, e, n, Agreed)
  <2> HIDE DEF j, e, R
  <2> QED BY <1>2, <1>7, PieceIs
<1>9. /\ IsPiece(j, wd, n, Agreed) /\ nx \in Nat /\ Divides(R, nx) /\ j < nx
      /\ j + wd <= e /\ (j + wd = e \/ j + wd = nx) /\ j + wd <= nx
  BY <1>2, <1>8 DEF PieceOf
<1>10. jc' = [jc EXCEPT ![t] = nx]
  <2>1. NextPanel(j, cntx) = nx
    BY SameWalk
  <2> QED BY <2>1 DEF Step
<1>11. wd \in Nat
  BY <1>9 DEF IsPiece
<1> HIDE DEF wd, nx
<1>12. jc' \in [0 .. ways - 1 -> Nat] /\ jc'[t] = nx
       /\ \A s \in 0 .. ways - 1 : s # t => jc'[s] = jc[s]
  BY <1>1, <1>4, <1>9, <1>10
<1>13. n' = n /\ AgreedNR' = R
  BY Unmoved
<1>14. Sharing'
  <2>1. \A s \in 0 .. ways - 1 : team[s].start <= jc'[s] /\ Divides(R, jc'[s])
    <3>1. team[t].start <= nx
      BY <1>4, <1>6, <1>7, <1>9
    <3> QED BY <1>1, <1>9, <1>12, <3>1
  <2>2. team' = [s \in 0 .. ways - 1 |-> dlp_thread_task_range(ways, s, n', AgreedNR', FALSE)]
    BY <1>1, <1>13
  <2>3. \A s \in 0 .. ways - 1 : team'[s].start <= jc'[s] /\ Divides(AgreedNR', jc'[s])
    BY <1>13, <2>1
  <2> HIDE DEF R
  <2> QED BY <1>12, <2>2, <2>3 DEF Sharing
<1>15. ASSUME NEW c \in 0 .. n - 1, InPiece(c, j, wd) PROVE ~Done(c)
  <2>1. c \in Indices(team[t])
    BY <1>3, <1>4, <1>6, <1>7, <1>9, <1>11, <1>15 DEF Indices, InPiece
  <2> SUFFICES ASSUME NEW s \in 0 .. ways - 1, c \in Indices(team[s]), c < jc[s] PROVE FALSE
    BY <1>4 DEF Done
  <2>2. s = t
    <3> SUFFICES ASSUME s # t PROVE FALSE
      OBVIOUS
    <3>1. Indices(dlp_thread_task_range(ways, s, n, R, FALSE))
            \cap Indices(dlp_thread_task_range(ways, t, n, R, FALSE)) = {}
      BY <1>3, <1>4, RangesApart
    <3>2. Indices(team[s]) \cap Indices(team[t]) = {}
      BY <1>1, <1>4, <3>1
    <3> QED BY <2>1, <3>2
  <2> QED BY <1>7, <1>15, <2>2 DEF InPiece
<1>16. ASSUME NEW c \in 0 .. n - 1 PROVE Done(c)' <=> Done(c) \/ InPiece(c, j, wd)
  <2>1. Done(c)' <=> \E s \in 0 .. ways - 1 : c \in Indices(team[s]) /\ c < jc'[s]
    BY <1>4 DEF Done, Indices
  <2>2. Done(c) <=> \E s \in 0 .. ways - 1 : c \in Indices(team[s]) /\ c < jc[s]
    BY <1>4 DEF Done
  <2>3. c \in Int /\ (c \in Indices(team[t]) <=> team[t].start <= c /\ c < e)
    BY <1>4, <1>6, <1>7 DEF Indices
  <2>4. ASSUME NEW s \in 0 .. ways - 1, c \in Indices(team[s]), c < jc'[s]
        PROVE  Done(c) \/ InPiece(c, j, wd)
    <3>1. CASE s # t
      BY <1>12, <2>2, <2>4, <3>1
    <3>2. CASE s = t /\ c < j
      BY <1>4, <2>2, <2>4, <3>2
    <3>3. CASE s = t /\ ~(c < j)
      <4>1. c < nx /\ c < e
        BY <1>12, <2>3, <2>4, <3>3
      <4>2. c < j + wd
        BY <1>9, <4>1
      <4>3. j <= c
        BY <1>7, <2>3, <3>3
      <4> QED BY <4>2, <4>3 DEF InPiece
    <3> QED BY <3>1, <3>2, <3>3
  <2>5. ASSUME NEW s \in 0 .. ways - 1, c \in Indices(team[s]), c < jc[s]
        PROVE  c < jc'[s]
    <3>1. CASE s # t
      BY <1>12, <2>5, <3>1
    <3>2. CASE s = t
      <4>1. c < j /\ jc'[s] = nx
        BY <1>12, <2>5, <3>2
      <4> QED BY <1>7, <1>9, <2>3, <4>1
    <3> QED BY <3>1, <3>2
  <2>6. ASSUME InPiece(c, j, wd) PROVE c \in Indices(team[t]) /\ c < jc'[t]
    <3>1. j <= c /\ c < j + wd
      BY <2>6 DEF InPiece
    <3>2. team[t].start <= c /\ c < e /\ c < nx
      BY <1>4, <1>6, <1>7, <1>9, <1>11, <2>3, <3>1
    <3> QED BY <1>12, <2>3, <3>2
  <2> QED BY <1>4, <2>1, <2>2, <2>4, <2>5, <2>6
<1> QED BY <1>9, <1>14, <1>15, <1>16 DEF StepFacts, wd

\* A thread has the elements of its piece at their places, and clears the
\* offsets of its blocks.
LEMMA ThreadPlaces ==
  ASSUME Settled, Same(cntx, Agreed), NEW t, NEW j, NEW wd, j = jc[t],
         wd = panel_width(jc[t], team[t].end, Agreed), IsPiece(j, wd, n, Agreed)
  PROVE  /\ Columns(t) = j .. j + wd - 1
         /\ Cleared(t) = ClearedOf(j, wd, n, k, Agreed)
         /\ \A e \in Elements : InPiece(e[2], j, wd) => OffsetOf(t, e) = PlaceOf(e, n, k, Agreed)
<1> DEFINE A == Agreed
<1>1. Good(n, k, A)
  BY AgreedIs DEF Settled
<1>2. cntx.NR = A.NR /\ cntx.NC = A.NC /\ cntx.KC = A.KC
  BY DEF Same
<1>3. panel_width(jc[t], team[t].end, cntx) = wd
  BY SameWalk
<1>4. \A pc : PanelBase(j, pc, n, k, cntx) = PanelBase(j, pc, n, k, A)
  BY SameWalk
<1> HIDE DEF A
<1>5. Columns(t) = j .. j + wd - 1
  BY <1>3 DEF Columns
<1>6. Cleared(t) = ClearedOf(j, wd, n, k, A)
  BY <1>2, <1>3, <1>4 DEF Cleared, ClearedOf, dlp_reorder_panel_elems, Height
<1>7. ASSUME NEW e \in Elements, InPiece(e[2], j, wd)
      PROVE  OffsetOf(t, e) = PlaceOf(e, n, k, A)
  <2>1. OffsetOf(t, e) = PieceOffset(e, j, wd, n, k, A)
    BY <1>2, <1>3, <1>4 DEF OffsetOf, PieceOffset, FirstRow
  <2>2. IsElement(e, n, k) /\ j <= e[2] /\ e[2] < j + wd
    BY <1>7 DEF IsElement, Elements, InPiece
  <2>3. IsPiece(j, wd, n, A)
    BY DEF A
  <2>4. PieceOffset(e, j, wd, n, k, A) = PlaceOf(e, n, k, A)
    BY <1>1, <2>2, <2>3, PieceAgrees
  <2> QED BY <2>1, <2>4
<1> QED BY <1>5, <1>6, <1>7 DEF A

\* A piece packed is a piece of the image, and only it changes.
LEMMA PackStep ==
  ASSUME Settled, n > 1, Same(cntx, Agreed), Sharing, Filling,
         NEW t \in DOMAIN team, PackPanel(t)
  PROVE  /\ Sharing' /\ Filling'
         /\ \A o \in DOMAIN buf : buf[o] # Undef => o \in DOMAIN buf' /\ buf'[o] = buf[o]
<1> DEFINE A == Agreed
           j == jc[t]
           wd == panel_width(jc[t], team[t].end, A)
           B(o) == BlockOf(o, n, k, A)
           P(e) == PlaceOf(e, n, k, A)
           bytes == 0 .. Size - 1
           moved == (0 .. k - 1) \X Columns(t)
           at == [e \in moved |-> OffsetOf(t, e)]
           here == {at[e] : e \in moved}
<1>1. /\ prob' = prob /\ meta' = meta /\ team' = team /\ Active(t) /\ Step(t)
      /\ buf' = [o \in DOMAIN buf \cup Cleared(t) \cup here |->
                   IF o \in here THEN CHOOSE e \in moved : at[e] = o
                   ELSE IF o \in Cleared(t) THEN Pad ELSE buf[o]]
  BY DEF PackPanel
<1>2. StepFacts(t)
  BY <1>1, ThreadStep
<1>3. /\ IsPiece(j, wd, n, A) /\ Sharing'
      /\ \A c \in 0 .. n - 1 : InPiece(c, j, wd) => ~Done(c)
      /\ \A c \in 0 .. n - 1 : Done(c)' <=> Done(c) \/ InPiece(c, j, wd)
  BY <1>2 DEF StepFacts
<1>4. /\ Columns(t) = j .. j + wd - 1
      /\ Cleared(t) = ClearedOf(j, wd, n, k, A)
      /\ \A e \in Elements : InPiece(e[2], j, wd) => OffsetOf(t, e) = P(e)
  BY <1>3, ThreadPlaces
<1>5. Good(n, k, A)
  BY AgreedIs DEF Settled
<1>6. Size = RoundN(n) * RoundK(k) /\ Size \in Nat
  BY SizeIs
<1>7. \A o \in bytes : o \in Nat /\ o < RoundN(n) * RoundK(k)
  BY <1>6
<1>8. buf = [o \in bytes |-> IF Done(B(o)) THEN Image(o) ELSE Undef]
  BY DEF Filling
<1>9. j \in Nat /\ wd \in Nat /\ j + wd <= n
  BY <1>3 DEF IsPiece
<1>10. n \in Nat /\ k \in Nat
  BY SizeIs
<1>11. \A e : e \in moved <=> e \in Elements /\ InPiece(e[2], j, wd)
  <2> HIDE DEF j, wd
  <2> QED BY <1>4, <1>9, <1>10 DEF Elements, InPiece
<1>12. \A e \in moved : at[e] = P(e)
  BY <1>4, <1>11
<1>13. \A e \in Elements : /\ P(e) \in bytes /\ Image(P(e)) = e
                           /\ InPiece(e[2], j, wd) <=> InPiece(B(P(e)), j, wd)
  <2> SUFFICES ASSUME NEW e \in Elements
               PROVE  /\ P(e) \in bytes /\ Image(P(e)) = e
                      /\ InPiece(e[2], j, wd) <=> InPiece(B(P(e)), j, wd)
    OBVIOUS
  <2>1. ImageFacts(e)
    BY ImageIs
  <2>2. /\ P(e) \in Nat /\ P(e) < RoundN(n) * RoundK(k) /\ Image(P(e)) = e
        /\ B(P(e)) = (e[2] \div AgreedNR) * AgreedNR
    BY <2>1 DEF ImageFacts
  <2>3. InPiece(e[2], j, wd) <=> InPiece((e[2] \div AgreedNR) * AgreedNR, j, wd)
    BY <1>3, BlockInPiece DEF InPiece
  <2> HIDE DEF P, B, j, wd
  <2>4. P(e) \in bytes
    BY <1>6, <2>2
  <2> QED BY <2>2, <2>3, <2>4
<1>14. \A o \in bytes : B(o) \in 0 .. n - 1
  <2> SUFFICES ASSUME NEW o \in bytes PROVE B(o) \in 0 .. n - 1
    OBVIOUS
  <2>1. BlockFacts(o, n, k, A)
    BY <1>5, <1>7, BlockOfIs
  <2>2. B(o) \in Nat /\ B(o) < n
    BY <2>1 DEF BlockFacts
  <2> HIDE DEF B
  <2> QED BY <1>10, <2>2
<1>15. \A o : o \in Cleared(t) <=> o \in bytes /\ InPiece(B(o), j, wd)
  <2>1. ASSUME NEW o, o \in Cleared(t) PROVE o \in bytes /\ InPiece(B(o), j, wd)
    <3>1. /\ o \in Nat /\ o < RoundN(n) * RoundK(k)
          /\ j <= B(o) /\ B(o) < j + wd
      BY <1>3, <1>4, <1>5, <2>1, ClearedWithin
    <3> HIDE DEF B, j, wd
    <3> QED BY <1>6, <3>1 DEF InPiece
  <2>2. ASSUME NEW o \in bytes, InPiece(B(o), j, wd) PROVE o \in Cleared(t)
    <3>1. j <= B(o) /\ B(o) < j + wd /\ o \in Nat /\ o < RoundN(n) * RoundK(k)
      BY <1>7, <2>2 DEF InPiece
    <3>2. o \in ClearedOf(j, wd, n, k, A)
      BY <1>3, <1>5, <3>1, ClearedAll
    <3> QED BY <1>4, <3>2
  <2> QED BY <2>1, <2>2
<1>16. DOMAIN buf = bytes
  BY <1>8
<1> HIDE DEF A, j, wd, B, P, bytes, moved, at
<1>17. here \subseteq bytes /\ \A e \in moved : InPiece(B(P(e)), j, wd)
  BY <1>11, <1>12, <1>13
<1>18. Cleared(t) \subseteq bytes
  BY <1>15
<1>19. DOMAIN buf' = bytes
  BY <1>1, <1>16, <1>17, <1>18
<1>20. ASSUME NEW o \in bytes, InPiece(B(o), j, wd) PROVE buf'[o] = Image(o)
  <2>1. o \in Cleared(t)
    BY <1>15, <1>20
  <2>2. CASE o \in here
    <3> DEFINE x == CHOOSE e \in moved : at[e] = o
    <3>1. buf'[o] = x
      BY <1>1, <2>1, <2>2
    <3>2. x \in moved /\ at[x] = o
      BY <2>2
    <3> HIDE DEF x
    <3>3. P(x) = o /\ x \in Elements
      BY <1>11, <1>12, <3>2
    <3>4. Image(o) = x
      BY <1>13, <3>3
    <3> QED BY <3>1, <3>4
  <2>3. CASE o \notin here
    <3>1. buf'[o] = Pad
      BY <1>1, <2>1, <2>3
    <3>2. ASSUME NEW e \in Elements, P(e) = o PROVE FALSE
      <4>1. e \in moved
        BY <1>11, <1>13, <1>20, <3>2
      <4>2. at[e] = o
        BY <1>12, <3>2, <4>1
      <4> QED BY <2>3, <4>1, <4>2
    <3>3. Image(o) = Pad
      BY <3>2 DEF Image, P, A
    <3> QED BY <3>1, <3>3
  <2> QED BY <2>2, <2>3
<1>21. ASSUME NEW o \in bytes, ~InPiece(B(o), j, wd) PROVE buf'[o] = buf[o]
  <2>1. o \notin Cleared(t)
    BY <1>15, <1>21
  <2>2. o \notin here
    BY <1>12, <1>17, <1>21
  <2> QED BY <1>1, <1>16, <2>1, <2>2
<1>22. \A o \in bytes : buf'[o] = IF Done(B(o))' THEN Image(o) ELSE Undef
  <2> SUFFICES ASSUME NEW o \in bytes
               PROVE  buf'[o] = IF Done(B(o))' THEN Image(o) ELSE Undef
    OBVIOUS
  <2>1. PICK c \in 0 .. n - 1 : c = B(o)
    BY <1>14
  <2>2. buf[o] = IF Done(c) THEN Image(o) ELSE Undef
    BY <1>8, <2>1 DEF B
  <2>3. Done(c)' <=> Done(c) \/ InPiece(c, j, wd)
    BY <1>3, <2>1
  <2>4. Done(B(o))' <=> Done(c)'
    <3>1. B(o)' = B(o)
      BY <1>1, Unmoved DEF B, A
    <3> QED BY <2>1, <3>1 DEF Done
  <2>5. CASE InPiece(c, j, wd)
    BY <1>20, <2>1, <2>3, <2>4, <2>5
  <2>6. CASE ~InPiece(c, j, wd)
    BY <1>21, <2>1, <2>2, <2>3, <2>4, <2>6
  <2> QED BY <2>5, <2>6
<1>23. buf' = [o \in bytes |-> IF Done(B(o))' THEN Image(o) ELSE Undef]
  <2>1. buf' = [o \in bytes |-> buf'[o]]
    BY <1>1, <1>19
  <2> QED BY <1>22, <2>1
<1>24. Filling'
  <2>1. Size' = Size /\ n' = n /\ k' = k /\ Agreed' = Agreed /\ \A o : Image(o)' = Image(o)
    BY <1>1, Unmoved
  <2> QED BY <1>23, <2>1 DEF Filling, B, A, bytes
<1>25. ASSUME NEW o \in DOMAIN buf, buf[o] # Undef PROVE o \in DOMAIN buf' /\ buf'[o] = buf[o]
  <2>1. o \in bytes /\ Done(B(o))
    BY <1>8, <1>16, <1>25 DEF B
  <2>2. ~InPiece(B(o), j, wd)
    BY <1>3, <1>14, <2>1
  <2> QED BY <1>19, <1>21, <2>1, <2>2
<1> QED BY <1>3, <1>24, <1>25

\* An offset of a packed buffer read at the place of an element.
LEMMA ReadAt ==
  ASSUME Settled, n > 1, Full, NEW e \in Elements
  PROVE  At(PlaceOf(e, n, k, Agreed)) = e
<1> DEFINE o == PlaceOf(e, n, k, Agreed)
<1>1. ImageFacts(e)
  BY ImageIs
<1>2. o \in Nat /\ o < RoundN(n) * RoundK(k) /\ Image(o) = e
  BY <1>1 DEF ImageFacts
<1>3. Size = RoundN(n) * RoundK(k) /\ Size \in Nat /\ n \in Nat
  BY SizeIs
<1> HIDE DEF o
<1>4. o \in 0 .. Size - 1
  BY <1>2, <1>3
<1>5. buf = [x \in 0 .. Size - 1 |-> Image(x)]
  BY <1>3 DEF Full
<1>6. At(o) = e
  BY <1>2, <1>4, <1>5 DEF At
<1> QED BY <1>6 DEF o

\* A piece read is a piece of B.
LEMMA ReadStep ==
  ASSUME Settled, n > 1, Full, Same(cntx, Agreed), Sharing, call.op \in ReadOps, HasRead,
         NEW t \in DOMAIN team, ReadPanel(t)
  PROVE  Sharing' /\ HasRead'
<1> DEFINE A == Agreed
           j == jc[t]
           wd == panel_width(jc[t], team[t].end, A)
           P(e) == PlaceOf(e, n, k, A)
           read == (0 .. k - 1) \X Columns(t)
<1>1. call.op \notin {"vector", "tiny"}
  BY DEF ReadOps
<1>2. /\ prob' = prob /\ meta' = meta /\ team' = team /\ Active(t) /\ Step(t)
      /\ out' = [e \in Elements |-> IF e \in read THEN At(OffsetOf(t, e)) ELSE out[e]]
  BY <1>1 DEF ReadPanel
<1>3. StepFacts(t)
  BY <1>2, ThreadStep
<1>4. /\ IsPiece(j, wd, n, A) /\ Sharing'
      /\ \A c \in 0 .. n - 1 : Done(c)' <=> Done(c) \/ InPiece(c, j, wd)
  BY <1>3 DEF StepFacts
<1>5. /\ Columns(t) = j .. j + wd - 1
      /\ \A e \in Elements : InPiece(e[2], j, wd) => OffsetOf(t, e) = P(e)
  BY <1>4, ThreadPlaces
<1>6. j \in Nat /\ wd \in Nat /\ n \in Nat /\ k \in Nat
  BY <1>4, SizeIs DEF IsPiece
<1>7. \A e \in Elements : At(P(e)) = e
  BY ReadAt
<1> HIDE DEF A, j, wd, P
<1>8. \A e \in Elements : e \in read <=> InPiece(e[2], j, wd)
  BY <1>5, <1>6 DEF Elements, InPiece
<1> HIDE DEF read
<1>9. ASSUME NEW e \in Elements PROVE out'[e] = IF Done(e[2])' THEN e ELSE Undef
  <2>1. PICK c \in 0 .. n - 1 : c = e[2]
    BY DEF Elements
  <2>2. Done(c)' <=> Done(c) \/ InPiece(c, j, wd)
    BY <1>4
  <2>3. out[e] = IF Done(c) THEN e ELSE Undef
    BY <2>1 DEF HasRead
  <2>4. CASE InPiece(c, j, wd)
    <3>1. out'[e] = e
      BY <1>2, <1>5, <1>7, <1>8, <2>1, <2>4
    <3> QED BY <2>1, <2>2, <2>4, <3>1
  <2>5. CASE ~InPiece(c, j, wd)
    <3>1. out'[e] = out[e]
      BY <1>2, <1>8, <2>1, <2>5
    <3> QED BY <2>1, <2>2, <2>3, <2>5, <3>1
  <2> QED BY <2>4, <2>5
<1>10. HasRead'
  <2>1. out' = [e \in Elements |-> out'[e]]
    BY <1>2
  <2>2. out' = [e \in Elements |-> IF Done(e[2])' THEN e ELSE Undef]
    BY <1>9, <2>1
  <2>3. Elements' = Elements
    BY <1>2, Unmoved
  <2> QED BY <2>2, <2>3 DEF HasRead
<1> QED BY <1>4, <1>10

\* One panel that is all of B.
LEMMA ReadBlock ==
  ASSUME Settled, Full, OneBlock, HasReadAll, NEW t \in DOMAIN team, ReadPanel(t),
         \/ call.op = "vector" /\ n = 1
         \/ call.op = "tiny" /\ n > 1 /\ Same(cntx, Agreed) /\ n < cntx.NC /\ k < cntx.KC
  PROVE  OneBlock' /\ HasReadAll'
<1> DEFINE Off(e) == CASE call.op = "vector" -> e[1]
                       [] call.op = "tiny" -> TileOffset(e[1], e[2], n, k, cntx.NR)
                       [] OTHER -> OffsetOf(t, e)
<1>1. call.op \in {"vector", "tiny"}
  OBVIOUS
<1>2. /\ prob' = prob /\ meta' = meta /\ team' = team /\ jc' = [jc EXCEPT ![t] = n]
      /\ out' = [e \in Elements |-> IF e \in (0 .. k - 1) \X (0 .. n - 1) THEN At(Off(e)) ELSE out[e]]
  BY <1>1 DEF ReadPanel
<1>3. out' = [e \in Elements |-> At(Off(e))]
  BY <1>2 DEF Elements
<1>4. ASSUME NEW e \in Elements PROVE At(Off(e)) = e
  <2>1. CASE call.op = "vector" /\ n = 1
    <3>1. Off(e) = e[1]
      BY <2>1
    <3>2. e[1] \in 0 .. k - 1 /\ e = <<e[1], 0>>
      BY <2>1 DEF Elements
    <3>3. Size = k
      BY <2>1, SizeIs
    <3>4. buf = [o \in 0 .. Size - 1 |-> <<o, 0>>]
      BY <2>1 DEF Full
    <3>5. At(e[1]) = e
      BY <3>2, <3>3, <3>4 DEF At
    <3> QED BY <3>1, <3>5
  <2>2. CASE call.op = "tiny" /\ n > 1 /\ Same(cntx, Agreed) /\ n < cntx.NC /\ k < cntx.KC
    <3>1. Off(e) = TileOffset(e[1], e[2], n, k, Agreed.NR)
      BY <2>2 DEF Same
    <3>2. n < Agreed.NC /\ k < Agreed.KC
      BY <2>2 DEF Same
    <3>3. Good(n, k, Agreed) /\ IsElement(e, n, k)
      BY AgreedIs DEF Settled, IsElement, Elements
    <3>4. TileOffset(e[1], e[2], n, k, Agreed.NR) = PlaceOf(e, n, k, Agreed)
      BY <3>2, <3>3, TinyAgrees
    <3>5. At(PlaceOf(e, n, k, Agreed)) = e
      BY <2>2, ReadAt
    <3> QED BY <3>1, <3>4, <3>5
  <2> QED BY <2>1, <2>2
<1> HIDE DEF Off
<1>5. t = 0 /\ DOMAIN jc = 0 .. 0 /\ DOMAIN team = 0 .. 0
  BY DEF OneBlock
<1>6. jc' = [s \in 0 .. 0 |-> n]
  <2>1. jc' = [s \in 0 .. 0 |-> IF s = t THEN n ELSE jc[s]]
    BY <1>2, <1>5
  <2>2. \A s \in 0 .. 0 : s = t
    BY <1>5
  <2> QED BY <2>1, <2>2
<1>7. n' = n /\ Elements' = Elements
  BY <1>2, Unmoved
<1>8. OneBlock'
  BY <1>2, <1>6, <1>7 DEF OneBlock
<1>9. out' = [e \in Elements |-> e]
  BY <1>3, <1>4
<1>10. HasReadAll'
  BY <1>6, <1>7, <1>9 DEF HasReadAll
<1> QED BY <1>8, <1>10

\* When every thread is at its end every column is done.
LEMMA AllDoneIs ==
  ASSUME Settled, Sharing, AllDone
  PROVE  \A c \in 0 .. n - 1 : Done(c)
<1> SUFFICES ASSUME NEW c \in 0 .. n - 1 PROVE Done(c)
  OBVIOUS
<1> DEFINE R == AgreedNR
<1>1. PICK ways \in Nat \ {0} :
        /\ team = [s \in 0 .. ways - 1 |-> dlp_thread_task_range(ways, s, n, R, FALSE)]
        /\ jc \in [0 .. ways - 1 -> Nat]
  BY DEF Sharing
<1>2. n \in Nat \ {0} /\ R \in Nat \ {0}
  BY AgreedIs DEF Settled, Good, Agreed
<1> HIDE DEF R
<1>3. PICK s \in 0 .. ways - 1 : c \in Indices(dlp_thread_task_range(ways, s, n, R, FALSE))
  BY <1>2, RangesCover
<1>4. s \in DOMAIN team /\ c \in Indices(team[s])
  BY <1>1, <1>3
<1>5. RangeFacts(ways, s, R)
  BY <1>2, RangeIs
<1>6. team[s].end \in Nat /\ team[s].start \in Nat
  BY <1>1, <1>5 DEF RangeFacts
<1>7. ~(jc[s] < team[s].end)
  BY <1>4 DEF AllDone, Active
<1>8. c < jc[s]
  <2>1. jc[s] \in Nat /\ c \in Nat
    BY <1>1, <1>2
  <2>2. c < team[s].end
    BY <1>4, <1>6, <2>1 DEF Indices
  <2> QED BY <1>6, <1>7, <2>1, <2>2
<1> QED BY <1>4, <1>8 DEF Done

\* Before its first step a team has done nothing.
LEMMA TeamBegins ==
  ASSUME Settled, NEW ways \in Nat \ {0}, NEW to, cntx.NR = AgreedNR, Start(ways, to),
         prob' = prob, meta' = meta
  PROVE  Sharing' /\ \A c : ~Done(c)'
<1> DEFINE R == AgreedNR
           r(s) == dlp_thread_task_range(ways, s, n, R, FALSE)
<1>1. n \in Nat \ {0} /\ R \in Nat \ {0}
  BY AgreedIs DEF Settled, Good, Agreed
<1>2. n' = n /\ AgreedNR' = R
  BY Unmoved
<1>3. team' = [s \in 0 .. ways - 1 |-> r(s)] /\ jc' = [s \in 0 .. ways - 1 |-> r(s).start]
  BY DEF Start
<1>4. \A s \in 0 .. ways - 1 : RangeFacts(ways, s, R)
  BY <1>1, RangeIs
<1>5. \A s \in 0 .. ways - 1 : r(s).start \in Nat /\ r(s).end \in Nat /\ Divides(R, r(s).start)
  BY <1>4 DEF RangeFacts
<1> HIDE DEF R
<1>6. team' = [s \in 0 .. ways - 1 |-> dlp_thread_task_range(ways, s, n', AgreedNR', FALSE)]
  BY <1>2, <1>3
<1> HIDE DEF r
<1>7. jc' \in [0 .. ways - 1 -> Nat]
  BY <1>3, <1>5
<1>8. \A s \in 0 .. ways - 1 : team'[s].start <= jc'[s] /\ Divides(AgreedNR', jc'[s])
  BY <1>2, <1>3, <1>5
<1>9. Sharing'
  BY <1>6, <1>7, <1>8 DEF Sharing
<1>10. ASSUME NEW c PROVE ~Done(c)'
  <2> SUFFICES ASSUME NEW s \in 0 .. ways - 1, c \in Indices(r(s)), c < r(s).start PROVE FALSE
    BY <1>3 DEF Done, Indices
  <2>1. r(s).start \in Nat /\ r(s).end \in Nat
    BY <1>5
  <2> QED BY <2>1 DEF Indices
<1> QED BY <1>9, <1>10

\* The one thread of a vector or a tiny GEMM.
LEMMA BlockBegins ==
  ASSUME NEW to, Start(1, to), n' = n
  PROVE  OneBlock' /\ jc'[0] = 0
<1>1. dlp_thread_task_range(1, 0, n, cntx.NR, FALSE) = Span(0, n)
  BY DEF dlp_thread_task_range
<1>2. 0 .. 1 - 1 = 0 .. 0 /\ 0 .. 0 = {0}
  OBVIOUS
<1>3. team' = [s \in 0 .. 0 |-> Span(0, n)]
  BY <1>1, <1>2 DEF Start
<1>4. jc' = [s \in 0 .. 0 |-> 0]
  <2>1. jc' = [s \in 0 .. 0 |-> team'[s].start]
    BY <1>2 DEF Start
  <2>2. \A s \in 0 .. 0 : team'[s].start = 0
    BY <1>3 DEF Span
  <2> QED BY <2>1, <2>2
<1> QED BY <1>3, <1>4 DEF OneBlock

----------------------------------------------------------------------------
(* The steps.                                                              *)

\* The context of a call is a context.
LEMMA BegunContext == IsContext(Begun)
  BY DEF IsContext, Begun, dlp_gemm_upd_cntx_with_metadata

\* What a step that leaves the buffer alone leaves true of it.
LEMMA BufferKept ==
  ASSUME prob' = prob, meta' = meta, buf' = buf, lay' = lay
  PROVE  (Fresh' <=> Fresh) /\ (Full' <=> Full)
<1>1. n' = n /\ Size' = Size /\ Agreed' = Agreed /\ \A o : Image(o)' = Image(o)
  BY Unmoved
<1>2. Fresh' <=> Fresh
  BY <1>1 DEF Fresh
<1>3. Full' <=> Full
  BY <1>1 DEF Full, Same
<1> QED BY <1>2, <1>3

\* A call that has not begun to work leaves no team.
LEMMA EndKeeps ==
  ASSUME IInv, End, phase \notin {"packing", "reading"}, Fresh \/ buf = Empty
  PROVE  IInv'
<1>1. phase' = "over" /\ prob' = prob /\ meta' = meta /\ buf' = buf /\ lay' = lay /\ call' = call
      /\ cntx' = cntx /\ team' = team /\ jc' = jc /\ out' = out
  BY DEF End
<1>2. Fresh' <=> Fresh
  BY <1>1, BufferKept
<1>3. PhaseInv'
  BY <1>1 DEF IInv, PhaseInv, PackOps, ReadOps
<1>4. BufferInv'
  BY <1>1, <1>2 DEF BufferInv, Empty
<1>5. CallInv'
  BY <1>1 DEF CallInv
<1>6. TeamInv'
  <2>1. Nothing' = Nothing
    BY <1>1, Unmoved
  <2> QED BY <1>1, <2>1 DEF IInv, TeamInv, Empty
<1> QED BY <1>3, <1>4, <1>5, <1>6 DEF IInv

\* A call that returns leaves the buffer as it is.
LEMMA ReturnKeeps ==
  ASSUME IInv, Return("packed"), Settled, Full, UNCHANGED <<prob, meta, buf, lay>>
  PROVE  IInv'
<1>1. phase' = "packed" /\ prob' = prob /\ meta' = meta /\ buf' = buf /\ lay' = lay
      /\ call' = NoCall /\ team' = Empty /\ jc' = Empty /\ out' = Nothing
  BY DEF Return
<1>2. Full' <=> Full
  BY <1>1, BufferKept
<1>3. (Legal' <=> Legal) /\ Nothing' = Nothing
  BY <1>1, Unmoved
<1>4. call'.op = "none"
  BY <1>1 DEF NoCall
<1>5. PhaseInv'
  BY <1>1, <1>3, <1>4 DEF Settled, PhaseInv
<1>6. BufferInv'
  BY <1>1, <1>2 DEF BufferInv
<1>7. CallInv'
  BY <1>1 DEF CallInv
<1>8. TeamInv'
  BY <1>1, <1>3 DEF TeamInv, Empty
<1> QED BY <1>5, <1>6, <1>7, <1>8 DEF IInv

\* A call begins with the context of the metadata.
LEMMA CallKeeps ==
  ASSUME IInv, Settled, NEW op, NEW m, NEW r \in Runtimes, NEW to, Call(op, m, r, to),
         phase \notin {"packing", "reading"},
         \/ op \in PackOps /\ to = "packb" /\ n > 1 /\ Fresh
         \/ op = "gemm" /\ m \in Rows /\ to = "kernel" /\ Full
         \/ op \in ReadOps \ {"gemm"} /\ to = (IF n > 1 THEN "packb" ELSE "start") /\ Full
  PROVE  IInv'
<1>1. phase' = to /\ prob' = prob /\ meta' = meta /\ buf' = buf /\ lay' = lay
      /\ call' = [op |-> op, m |-> m, r |-> r] /\ cntx' = Begun
      /\ team' = team /\ jc' = jc /\ out' = out
  BY DEF Call, Begun
<1>2. (Full' <=> Full) /\ (Fresh' <=> Fresh)
  BY <1>1, BufferKept
<1>3. (Legal' <=> Legal) /\ Nothing' = Nothing /\ n' = n /\ Begun' = Begun
  BY <1>1, Unmoved
<1>4. IsCall(call') /\ call'.op = op /\ call'.m = m /\ call'.r = r
  BY <1>1 DEF IsCall
<1>5. IsRuntime(r)
  BY ReorderAssumption DEF IsRuntime
<1>6. IsContext(cntx')
  BY <1>1, BegunContext
<1>7. to \in {"packb", "kernel", "start"} /\ (to = "start" => ~(n > 1))
  OBVIOUS
<1>8. PhaseInv'
  BY <1>1, <1>3, <1>4, <1>7 DEF Settled, PhaseInv, PackOps, ReadOps
<1>9. BufferInv'
  BY <1>1, <1>2, <1>4, <1>7 DEF BufferInv, PackOps, ReadOps
<1>10. CallInv'
  <2>1. /\ phase' \in {"kernel", "packb", "start"} =>
             /\ IsCall(call') /\ IsRuntime(call'.r)
             /\ call'.op = "gemm" => call'.m \in Rows
        /\ phase' \in {"kernel", "packb"} => IsContext(cntx')
    BY <1>4, <1>5, <1>6 DEF PackOps
  <2>2. /\ phase' = "kernel" => call'.op = "gemm" /\ cntx' = Begun'
        /\ phase' \in {"packb", "start"} => call'.op \in PackOps \cup ReadOps
        /\ phase' \in {"packb", "start"} /\ call'.op \in PackOps => n' > 1
        /\ phase' = "packb" /\ call'.op # "gemm" => cntx' = Begun'
        /\ ~(phase' = "packb" /\ call'.op = "gemm" /\ n' > 1)
        /\ ~(phase' = "start" /\ n' > 1)
        /\ phase' # "packing"
    BY <1>1, <1>3, <1>4, <1>7 DEF PackOps, ReadOps
  <2> QED BY <2>1, <2>2 DEF CallInv, IsCall, IsRuntime, IsContext
<1>11. TeamInv'
  BY <1>1, <1>3, <1>7 DEF IInv, TeamInv, Empty
<1> QED BY <1>8, <1>9, <1>10, <1>11 DEF IInv

\* The invariant settles the layout.
LEMMA InvSettled ==
  ASSUME IInv, phase \notin {"new", "over"}
  PROVE  Settled
  BY DEF IInv, PhaseInv, Settled

\* The buffer is asked for.
LEMMA GetSizeKeeps ==
  ASSUME IInv, GetSize
  PROVE  IInv'
<1> DEFINE c == dlp_gemm_upd_cntx_with_metadata
           ok == dlp_gemm_validate_metadata_with_lcntx(c) /\ dlp_reorder_ref_blocks_legal(c.NR, c.KC)
<1>1. phase = "new" /\ buf = Empty
  BY DEF GetSize, IInv, BufferInv
<1>2. CASE ~ok /\ End
  BY <1>1, <1>2, EndKeeps
<1>3. CASE ok /\ phase' = "sized" /\ buf' = [o \in 0 .. Size - 1 |-> Undef]
           /\ UNCHANGED <<prob, meta, lay, call, cntx, team, jc, out>>
  <2>1. Legal
    BY <1>3 DEF Legal, Begun
  <2>2. Legal' /\ Size' = Size /\ Nothing' = Nothing
    BY <1>3, <2>1, Unmoved
  <2>3. Fresh'
    BY <1>3, <2>2 DEF Fresh, Undef
  <2>4. PhaseInv'
    BY <1>3, <2>2 DEF IInv, PhaseInv, PackOps, ReadOps
  <2>5. BufferInv'
    BY <1>3, <2>3 DEF BufferInv
  <2>6. CallInv'
    BY <1>3 DEF CallInv
  <2>7. TeamInv'
    BY <1>1, <1>3, <2>2 DEF IInv, TeamInv, Empty
  <2> QED BY <2>4, <2>5, <2>6, <2>7 DEF IInv
<1> QED BY <1>2, <1>3 DEF GetSize

\* One column is copied.
LEMMA CopyVectorKeeps ==
  ASSUME IInv, CopyVector
  PROVE  IInv'
<1>1. phase = "sized" /\ n = 1 /\ buf' = [o \in DOMAIN buf |-> <<o, 0>>] /\ phase' = "packed"
      /\ UNCHANGED <<prob, meta, lay, call, cntx, team, jc, out>>
  BY DEF CopyVector
<1>2. n' = n /\ Size' = Size /\ (Legal' <=> Legal) /\ Nothing' = Nothing
  BY <1>1, Unmoved
<1>3. DOMAIN buf = 0 .. Size - 1
  BY <1>1 DEF IInv, BufferInv, Fresh
<1>4. Full'
  BY <1>1, <1>2, <1>3 DEF Full
<1>5. PhaseInv'
  BY <1>1, <1>2 DEF IInv, PhaseInv, PackOps, ReadOps
<1>6. BufferInv'
  BY <1>1, <1>4 DEF BufferInv
<1>7. CallInv'
  BY <1>1 DEF CallInv
<1>8. TeamInv'
  BY <1>1, <1>2 DEF IInv, TeamInv, Empty
<1> QED BY <1>5, <1>6, <1>7, <1>8 DEF IInv

\* A reorder begins.
LEMMA ReorderKeeps ==
  ASSUME IInv, NEW r \in Runtimes, NEW api \in PackOps, Reorder(r, api)
  PROVE  IInv'
<1>1. phase = "sized" /\ n > 1 /\ (End \/ Call(api, 0, r, "packb"))
  BY DEF Reorder
<1>2. Fresh /\ Settled
  BY <1>1, InvSettled DEF IInv, BufferInv
<1>3. CASE End
  BY <1>1, <1>2, <1>3, EndKeeps
<1>4. CASE Call(api, 0, r, "packb")
  BY <1>1, <1>2, <1>4, CallKeeps
<1> QED BY <1>1, <1>3, <1>4

\* A GEMM begins.
LEMMA GemmKeeps ==
  ASSUME IInv, NEW m \in Rows, NEW r \in Runtimes, Gemm(m, r)
  PROVE  IInv'
<1>1. phase = "packed" /\ Call("gemm", m, r, "kernel")
  BY DEF Gemm
<1>2. Full /\ Settled
  BY <1>1, InvSettled DEF IInv, BufferInv
<1> QED BY <1>1, <1>2, CallKeeps

\* An un-reorder begins.
LEMMA UnreorderKeeps ==
  ASSUME IInv, NEW r \in Runtimes, NEW api \in {"unreorder", "unreorder_reference"},
         Unreorder(r, api)
  PROVE  IInv'
<1>1. phase = "packed" /\ Call(api, 0, r, IF n > 1 THEN "packb" ELSE "start")
  BY DEF Unreorder
<1>2. Full /\ Settled
  BY <1>1, InvSettled DEF IInv, BufferInv
<1>3. api \in ReadOps \ {"gemm"}
  BY DEF ReadOps
<1> QED BY <1>1, <1>2, <1>3, CallKeeps

KernelContextFacts(c, t, kc, d) ==
  /\ IsContext(d) /\ d.MR = t.mr /\ d.NR = t.nr /\ d.KC = kc
  /\ d.NC = dlp_reorder_round_up(c.NC, t.nr)
  /\ "MR" \in d.mask /\ "NR" \in d.mask

\* What EXCEPT leaves of a context.
LEMMA KernelContext ==
  ASSUME NEW c, IsContext(c), NEW t, NEW kc,
         NEW d, d = [c EXCEPT !.MR = t.mr, !.NR = t.nr, !.KC = kc, !.mask = @ \cup {"MR", "NR"},
                              !.MC = dlp_reorder_round_up(@, t.mr),
                              !.NC = dlp_reorder_round_up(@, t.nr)]
  PROVE  KernelContextFacts(c, t, kc, d)
<1>1. d = [MC |-> dlp_reorder_round_up(c.MC, t.mr), NC |-> dlp_reorder_round_up(c.NC, t.nr),
           KC |-> kc, MR |-> t.mr, NR |-> t.nr, mask |-> c.mask \cup {"MR", "NR"},
           m_hint |-> c.m_hint, nt_hint |-> c.nt_hint]
  BY DEF IsContext
<1>2. d.mask = c.mask \cup {"MR", "NR"}
  BY <1>1
<1>3. "MR" \in d.mask /\ "NR" \in d.mask
  BY <1>2
<1>4. IsContext(d)
  BY <1>1 DEF IsContext
<1> QED BY <1>1, <1>3, <1>4 DEF KernelContextFacts

\* The tile of the kernel has the width of the panels.
LEMMA KernelTile ==
  ASSUME Settled, n > 1, NEW m \in Rows, NEW t,
         t = TileOf(Begun, m, resolveGemmShape(n, k, Begun))
  PROVE  /\ t.nr = AgreedNR /\ t.mr \in Nat \ {0}
         /\ RoundK(t.kc) = Begun.KC \/ RoundK(t.kc) = RoundK(GemvKC)
<1> DEFINE shape == resolveGemmShape(n, k, Begun)
<1>1. ShapeFacts(shape)
  BY ResolvedIs DEF Settled
<1>2. shape.mr \in Nat \ {0} /\ shape.nr = AgreedNR
  BY <1>1 DEF ShapeFacts, IsTile, AgreedNR, reorderedPanelNR
<1> HIDE DEF shape
<1>3. m \in Nat \ {0} /\ SkinnyMr \in Nat \ {0}
  BY ReorderAssumption
<1>4. RoundK(Begun.KC) = Begun.KC
  <2>1. Good(n, k, Agreed)
    BY AgreedIs DEF Settled
  <2>2. Begun.KC \in Nat \ {0} /\ Divides(k_factor, Begun.KC)
    BY <2>1 DEF Good, Agreed
  <2>3. k_factor \in Nat \ {0}
    BY LayoutAssumption
  <2> QED BY <2>2, <2>3, RoundMultiple DEF RoundK
<1>5. n # 1
  BY SizeIs
<1>6. t = IF m = 1 THEN [mr |-> 1, nr |-> shape.nr, kc |-> GemvKC]
          ELSE [mr |-> IF n <= SkinnyN /\ "MR" \notin Begun.mask THEN Least(m, SkinnyMr)
                       ELSE shape.mr,
                nr |-> shape.nr, kc |-> Begun.KC]
  BY <1>5 DEF TileOf, shape
<1>7. CASE m = 1
  BY <1>2, <1>6, <1>7
<1>8. CASE m # 1
  <2> DEFINE mr == IF n <= SkinnyN /\ "MR" \notin Begun.mask THEN Least(m, SkinnyMr)
                   ELSE shape.mr
  <2>1. mr \in Nat \ {0}
    BY <1>2, <1>3 DEF Least
  <2>2. t = [mr |-> mr, nr |-> shape.nr, kc |-> Begun.KC]
    BY <1>6, <1>8
  <2> HIDE DEF mr
  <2> QED BY <1>2, <1>4, <2>1, <2>2
<1> QED BY <1>7, <1>8

\* The kernel is settled.
LEMMA KernelInitKeeps ==
  ASSUME IInv, NEW jit \in BOOLEAN, KernelInit(jit)
  PROVE  IInv'
<1> DEFINE gemm == call.m > 1 /\ n > 1
           ok == jit /\ (gemm => cntx.MR > 1 /\ cntx.NR > 1)
           shape == resolveGemmShape(n, k, cntx)
           tile == TileOf(cntx, call.m, shape)
<1>1. phase = "kernel" /\ Settled /\ Full
  BY InvSettled DEF KernelInit, IInv, BufferInv
<1>2. CASE ~ok /\ Return("packed") /\ UNCHANGED <<prob, meta, buf, lay>>
  BY <1>1, <1>2, ReturnKeeps
<1>3. CASE /\ cntx' = [cntx EXCEPT !.MR = tile.mr, !.NR = tile.nr, !.KC = RoundK(tile.kc),
                                  !.mask = @ \cup {"MR", "NR"},
                                  !.MC = dlp_reorder_round_up(@, tile.mr),
                                  !.NC = dlp_reorder_round_up(@, tile.nr)]
           /\ call' = IF gemm /\ shape.ways.jc > 0 /\ call.r.ic <= 0 /\ call.r.jc <= 0
                      THEN [call EXCEPT !.r.ic = shape.ways.ic, !.r.jc = shape.ways.jc]
                      ELSE call
           /\ phase' = "packb"
           /\ UNCHANGED <<prob, meta, buf, lay, team, jc, out>>
  <2>1. IsCall(call) /\ IsRuntime(call.r) /\ call.op = "gemm" /\ call.m \in Rows /\ cntx = Begun
        /\ IsContext(cntx)
    BY <1>1 DEF IInv, CallInv
  <2>2. ShapeFacts(resolveGemmShape(n, k, Begun))
    BY <1>1, ResolvedIs DEF Settled
  <2>3. shape.ways.ic \in Int /\ shape.ways.jc \in Int
    BY <2>1, <2>2 DEF ShapeFacts
  <2>4. IsCall(call') /\ IsRuntime(call'.r) /\ call'.op = "gemm" /\ call'.m = call.m
    <3>1. CASE call' = call
      BY <2>1, <3>1
    <3>2. CASE call' = [call EXCEPT !.r.ic = shape.ways.ic, !.r.jc = shape.ways.jc]
      <4> HIDE DEF shape
      <4>1. call' = [op |-> call.op, m |-> call.m,
                     r |-> [call.r EXCEPT !.ic = shape.ways.ic, !.jc = shape.ways.jc]]
        BY <2>1, <3>2 DEF IsCall
      <4>2. IsRuntime([call.r EXCEPT !.ic = shape.ways.ic, !.jc = shape.ways.jc])
        BY <2>1, <2>3 DEF IsRuntime
      <4> QED BY <2>1, <4>1, <4>2 DEF IsCall
    <3> QED BY <1>3, <3>1, <3>2
  <2>5. /\ n' = n /\ (Legal' <=> Legal) /\ Nothing' = Nothing /\ Begun' = Begun
        /\ AgreedNR' = AgreedNR /\ AgreedNC' = AgreedNC
    BY <1>3, Unmoved
  <2>6. PICK t : t = tile
    OBVIOUS
  <2>7. /\ IsContext(cntx') /\ cntx'.MR = t.mr /\ cntx'.NR = t.nr /\ cntx'.KC = RoundK(t.kc)
        /\ cntx'.NC = dlp_reorder_round_up(cntx.NC, t.nr)
        /\ "MR" \in cntx'.mask /\ "NR" \in cntx'.mask
    <3> HIDE DEF tile
    <3>1. cntx' = [cntx EXCEPT !.MR = t.mr, !.NR = t.nr, !.KC = RoundK(t.kc),
                               !.mask = @ \cup {"MR", "NR"},
                               !.MC = dlp_reorder_round_up(@, t.mr),
                               !.NC = dlp_reorder_round_up(@, t.nr)]
      BY <1>3, <2>6
    <3>2. PICK c : c = cntx
      OBVIOUS
    <3>3. PICK d : d = cntx'
      OBVIOUS
    <3>4. PICK kc : kc = RoundK(t.kc)
      OBVIOUS
    <3>5. d = [c EXCEPT !.MR = t.mr, !.NR = t.nr, !.KC = kc, !.mask = @ \cup {"MR", "NR"},
                        !.MC = dlp_reorder_round_up(@, t.mr),
                        !.NC = dlp_reorder_round_up(@, t.nr)]
      BY <3>1, <3>2, <3>3, <3>4
    <3>6. IsContext(c)
      BY <2>1, <3>2
    <3>7. KernelContextFacts(c, t, kc, d)
      BY <3>5, <3>6, KernelContext, Zenon
    <3> QED BY <3>2, <3>3, <3>4, <3>7 DEF KernelContextFacts
  <2>8. n' > 1 => GemmContext'
    <3> SUFFICES ASSUME n > 1 PROVE GemmContext'
      BY <2>5
    <3>1. /\ t.nr = AgreedNR /\ t.mr \in Nat \ {0}
          /\ RoundK(t.kc) = Begun.KC \/ RoundK(t.kc) = RoundK(GemvKC)
      BY <1>1, <2>1, <2>6, KernelTile
    <3>2. cntx'.NC = AgreedNC
      BY <2>1, <2>7, <3>1 DEF AgreedNC
    <3> QED BY <2>5, <2>7, <3>1, <3>2 DEF GemmContext
  <2> HIDE DEF shape, tile
  <2>9. PhaseInv'
    BY <1>1, <1>3, <2>4, <2>5 DEF Settled, PhaseInv, ReadOps
  <2>10. BufferInv'
    <3>1. Full'
      BY <1>1, <1>3, BufferKept
    <3> QED BY <1>3, <2>4, <3>1 DEF BufferInv, PackOps
  <2>11. CallInv'
    BY <1>3, <2>1, <2>4, <2>7, <2>8 DEF CallInv, PackOps, ReadOps
  <2>12. TeamInv'
    BY <1>1, <1>3, <2>5 DEF IInv, TeamInv, Empty
  <2> QED BY <2>9, <2>10, <2>11, <2>12 DEF IInv
<1> QED BY <1>2, <1>3 DEF KernelInit

PackBFacts(c, nr, d) ==
  d.NR = nr /\ d.NC = dlp_reorder_round_up(c.NC, nr) /\ d.KC = c.KC /\ d.MR = c.MR

\* What EXCEPT leaves of a context.
LEMMA PackBContext ==
  ASSUME NEW c, IsContext(c), NEW nr,
         NEW d, d = [c EXCEPT !.NR = nr, !.mask = @ \cup {"NR"}, !.NC = dlp_reorder_round_up(@, nr)]
  PROVE  PackBFacts(c, nr, d)
<1>1. d = [MC |-> c.MC, NC |-> dlp_reorder_round_up(c.NC, nr), KC |-> c.KC, MR |-> c.MR,
           NR |-> nr, mask |-> c.mask \cup {"NR"}, m_hint |-> c.m_hint, nt_hint |-> c.nt_hint]
  BY DEF IsContext
<1> QED BY <1>1 DEF PackBFacts

\* The search leaves a settled tile alone.
LEMMA SettledTile ==
  ASSUME NEW N, NEW K, NEW c, "MR" \in c.mask, "NR" \in c.mask
  PROVE  reorderedPanelNR(N, K, c) = c.NR
<1> DEFINE in == makeModelInput(N, K, c)
<1>1. in.frozen = c.mask /\ in.nr = c.NR
  BY DEF makeModelInput
<1>2. resolveGemmShape(N, K, c) =
        IF canUseAnalyticalShapeModel(in) THEN proposeShape(in)
        ELSE [mr |-> in.mr, nr |-> in.nr, ways |-> Split(0, 0, 0)]
  BY DEF resolveGemmShape
<1> HIDE DEF in
<1>3. ~canUseAnalyticalShapeModel(in)
  BY <1>1 DEF canUseAnalyticalShapeModel, isEligible
<1>4. resolveGemmShape(N, K, c) = [mr |-> in.mr, nr |-> in.nr, ways |-> Split(0, 0, 0)]
  BY <1>2, <1>3
<1> QED BY <1>1, <1>4 DEF reorderedPanelNR

\* The pack kernel is settled.
LEMMA PackBInitKeeps ==
  ASSUME IInv, PackBInit
  PROVE  IInv'
<1>1. /\ phase = "packb" /\ phase' = "start"
      /\ UNCHANGED <<prob, meta, buf, lay, call, team, jc, out>>
  BY DEF PackBInit
<1>2. PICK nr : nr = reorderedPanelNR(n, k, cntx)
  OBVIOUS
<1>3. cntx' = [cntx EXCEPT !.NR = nr, !.mask = @ \cup {"NR"}, !.NC = dlp_reorder_round_up(@, nr)]
  BY <1>2 DEF PackBInit
<1>4. IsContext(cntx) /\ Settled
  BY <1>1, InvSettled DEF IInv, CallInv
<1>5. PICK c : c = cntx
  OBVIOUS
<1>6. PICK d : d = cntx'
  OBVIOUS
<1>7. d = [c EXCEPT !.NR = nr, !.mask = @ \cup {"NR"}, !.NC = dlp_reorder_round_up(@, nr)]
  BY <1>3, <1>5, <1>6
<1>8. PackBFacts(c, nr, d)
  BY <1>4, <1>5, <1>7, PackBContext, Zenon
<1>9. /\ cntx'.NR = nr /\ cntx'.NC = dlp_reorder_round_up(cntx.NC, nr) /\ cntx'.KC = cntx.KC
      /\ cntx'.MR = cntx.MR
  BY <1>5, <1>6, <1>8 DEF PackBFacts
<1>10. /\ n' = n /\ (Legal' <=> Legal) /\ Nothing' = Nothing /\ Begun' = Begun
       /\ AgreedNR' = AgreedNR /\ AgreedNC' = AgreedNC /\ Agreed' = Agreed
  BY <1>1, Unmoved
<1>11. call.op # "gemm" => Same(cntx, Agreed)'
  <2> SUFFICES ASSUME call.op # "gemm" PROVE Same(cntx, Agreed)'
    OBVIOUS
  <2>1. cntx = Begun
    BY <1>1 DEF IInv, CallInv
  <2>2. nr = AgreedNR
    BY <1>2, <2>1 DEF AgreedNR
  <2>3. cntx'.NR = AgreedNR /\ cntx'.NC = AgreedNC /\ cntx'.KC = Begun.KC
    BY <1>9, <2>1, <2>2 DEF AgreedNC
  <2> QED BY <1>10, <2>3 DEF Same, Agreed
<1>12. call.op = "gemm" /\ n > 1 => GemmContext'
  <2> SUFFICES ASSUME call.op = "gemm", n > 1 PROVE GemmContext'
    OBVIOUS
  <2>1. GemmContext /\ "MR" \in cntx.mask /\ "NR" \in cntx.mask
    BY <1>1 DEF IInv, CallInv
  <2>2. nr = cntx.NR
    BY <1>2, <2>1, SettledTile
  <2>3. nr = AgreedNR /\ cntx.NC = AgreedNC
    BY <2>1, <2>2 DEF GemmContext
  <2>4. Good(n, k, Agreed)
    BY <1>4, AgreedIs DEF Settled
  <2>5. AgreedNR \in Nat \ {0} /\ AgreedNC \in Nat /\ Divides(AgreedNR, AgreedNC)
    BY <2>4 DEF Good, Agreed
  <2>6. dlp_reorder_round_up(AgreedNC, AgreedNR) = AgreedNC
    BY <2>5, RoundMultiple
  <2> QED BY <1>9, <1>10, <2>1, <2>3, <2>6 DEF GemmContext
<1>13. PhaseInv'
  BY <1>1, <1>10 DEF IInv, PhaseInv
<1>14. BufferInv'
  <2>1. (Full' <=> Full) /\ (Fresh' <=> Fresh)
    BY <1>1, BufferKept
  <2> QED BY <1>1, <2>1 DEF IInv, BufferInv
<1>15. CallInv'
  BY <1>1, <1>10, <1>11, <1>12 DEF IInv, CallInv
<1>16. TeamInv'
  BY <1>1, <1>10 DEF IInv, TeamInv, Empty
<1> QED BY <1>13, <1>14, <1>15, <1>16 DEF IInv

\* A team has at least one thread.
LEMMA TeamSize ==
  ASSUME IInv, phase = "start"
  PROVE  Max({call.r.nt, 1}) \in Nat \ {0}
<1>1. call.r.nt \in Int
  BY DEF IInv, CallInv, IsRuntime
<1>2. PICK a \in Int : a = call.r.nt
  BY <1>1
<1>3. Max({a, 1}) \in {a, 1} /\ Max({a, 1}) >= a /\ Max({a, 1}) >= 1
  BY Pairs
<1>4. Max({a, 1}) \in Nat \ {0}
  BY <1>3
<1> QED BY <1>2, <1>4

\* The team begins to pack.
LEMMA StartPackKeeps ==
  ASSUME IInv, NEW jit \in BOOLEAN, StartPack(jit)
  PROVE  IInv'
<1> DEFINE n_threads == Max({call.r.nt, 1})
<1>1. phase = "start" /\ call.op \in PackOps /\ Settled
  BY InvSettled DEF StartPack, PackOps
<1>2. Fresh /\ n > 1 /\ Same(cntx, Agreed)
  BY <1>1 DEF IInv, BufferInv, CallInv, PackOps
<1>3. n_threads \in Nat \ {0}
  BY <1>1, TeamSize
<1> HIDE DEF n_threads
<1>4. CASE End
  BY <1>1, <1>2, <1>4, EndKeeps
<1>5. ASSUME NEW ways \in Nat \ {0}, Start(ways, "packing"), lay' = cntx,
             UNCHANGED <<prob, meta, buf, call, cntx, out>>
      PROVE  IInv'
  <2>1. cntx.NR = AgreedNR
    BY <1>2 DEF Same, Agreed
  <2>2. Sharing' /\ \A c : ~Done(c)'
    BY <1>1, <1>5, <2>1, TeamBegins
  <2>3. /\ n' = n /\ k' = k /\ (Legal' <=> Legal) /\ Nothing' = Nothing /\ Agreed' = Agreed
        /\ Size' = Size
    BY <1>5, Unmoved
  <2>4. phase' = "packing"
    BY <1>5 DEF Start
  <2>5. Filling'
    <3>1. ASSUME NEW o PROVE ~Done(BlockOf(o, n, k, Agreed))'
      <4>1. PICK c : c = BlockOf(o, n, k, Agreed)'
        OBVIOUS
      <4>2. ~Done(c)'
        BY <2>2
      <4> QED BY <4>1, <4>2 DEF Done
    <3>2. buf' = [o \in 0 .. Size' - 1 |-> Undef]
      BY <1>2, <1>5, <2>3 DEF Fresh
    <3> QED BY <3>1, <3>2 DEF Filling
  <2>6. PhaseInv'
    BY <1>1, <1>5, <2>3, <2>4 DEF Settled, PhaseInv, PackOps
  <2>7. BufferInv'
    BY <2>4, <2>5 DEF BufferInv
  <2>8. CallInv'
    <3>1. Same(cntx', Agreed') /\ Same(lay', Agreed')
      BY <1>2, <1>5, <2>3 DEF Same
    <3> QED BY <1>1, <1>2, <1>5, <2>3, <2>4, <3>1 DEF CallInv
  <2>9. TeamInv'
    BY <1>1, <1>5, <2>2, <2>3, <2>4 DEF IInv, TeamInv
  <2> QED BY <2>6, <2>7, <2>8, <2>9 DEF IInv
<1>6. CASE /\ \E ways \in IF call.op = "reference" THEN 1 .. n_threads ELSE {n_threads} :
                Start(ways, "packing")
           /\ lay' = cntx
           /\ UNCHANGED <<prob, meta, buf, call, cntx, out>>
  <2>1. \A ways \in IF call.op = "reference" THEN 1 .. n_threads ELSE {n_threads} :
          ways \in Nat \ {0}
    BY <1>3
  <2> QED BY <1>5, <1>6, <2>1
<1> QED BY <1>4, <1>6 DEF StartPack, n_threads

\* What the application stated of KC a GEMM has, and a gemv kernel takes the
\* rows of the global context otherwise.
LEMMA GemmAgrees ==
  ASSUME Settled, GemmContext, dlp_gemm_validate_metadata_with_lcntx(cntx)
  PROVE  Same(cntx, Agreed)
<1>1. Begun.KC = IF "KC" \in Stated THEN meta.blocks["KC"] ELSE GemvKC
  BY BegunIs DEF Settled, BegunFacts
<1>2. RoundK(Begun.KC) = Begun.KC
  <2>1. Good(n, k, Agreed)
    BY AgreedIs DEF Settled
  <2>2. Begun.KC \in Nat \ {0} /\ Divides(k_factor, Begun.KC)
    BY <2>1 DEF Good, Agreed
  <2>3. k_factor \in Nat \ {0}
    BY LayoutAssumption
  <2> QED BY <2>2, <2>3, RoundMultiple DEF RoundK
<1>3. cntx.KC = Begun.KC
  <2>1. CASE "KC" \in Stated
    <3>1. cntx["KC"] = meta.blocks["KC"]
      BY <2>1 DEF dlp_gemm_validate_metadata_with_lcntx
    <3> QED BY <1>1, <2>1, <3>1
  <2>2. CASE "KC" \notin Stated
    BY <1>1, <1>2, <2>2 DEF GemmContext
  <2> QED BY <2>1, <2>2
<1> QED BY <1>3 DEF GemmContext, Same, Agreed

\* A GEMM has a column way at least.
LEMMA GemmWays ==
  ASSUME Settled, GemmContext, IsCall(call), IsRuntime(call.r), call.m \in Rows
  PROVE  JcWays(CallWays, call.m) \in Nat \ {0}
<1>1. PICK r \in [nt : Int, ic : Int, jc : Int] : r = call.r
  BY DEF IsRuntime
<1>2. PICK p : p = [m |-> call.m, n |-> n, MR |-> cntx.MR, NR |-> cntx.NR]
  OBVIOUS
<1>3. AgreedNR \in Nat \ {0} /\ n \in Nat \ {0}
  BY AgreedIs DEF Settled, Good, Agreed
<1>4. call.m \in Nat \ {0}
  BY ReorderAssumption
<1>5. p.m = call.m /\ p.n = n /\ p.MR = cntx.MR /\ p.NR = cntx.NR
  BY <1>2
<1>6. IsProblem(p)
  BY <1>3, <1>4, <1>5 DEF IsProblem, GemmContext
<1>7. IsSplit(PanelGetThreading(r, p, TRUE))
  BY <1>6, PanelThreading
<1>8. PICK s : s = CallWays
  OBVIOUS
<1>9. s = PanelGetThreading(r, p, TRUE)
  BY <1>1, <1>2, <1>8 DEF CallWays, resolveWays
<1>10. s.jc \in Nat \ {0} /\ s.nt \in Nat \ {0}
  BY <1>7, <1>9 DEF IsSplit
<1> QED BY <1>8, <1>10 DEF JcWays

\* A call begins to read, as a team or as one block.
LEMMA ReadBegins ==
  ASSUME IInv, Settled, Full, phase = "start", phase' = "reading",
         UNCHANGED <<prob, meta, buf, lay, cntx, out>>,
         \/ call'.op = "vector" /\ n = 1 /\ OneBlock' /\ jc'[0] = 0
         \/ /\ call'.op = "tiny" /\ n > 1 /\ OneBlock' /\ jc'[0] = 0
            /\ Same(cntx, Agreed) /\ n < cntx.NC /\ k < cntx.KC
         \/ /\ call'.op \in ReadOps /\ n > 1 /\ Sharing' /\ Same(cntx, Agreed)
            /\ \A c : ~Done(c)'
  PROVE  IInv'
<1>1. /\ n' = n /\ k' = k /\ (Legal' <=> Legal) /\ Nothing' = Nothing /\ Agreed' = Agreed
      /\ Elements' = Elements
  BY Unmoved
<1>2. out' = Nothing
  BY DEF IInv, TeamInv
<1>3. PhaseInv'
  BY <1>1 DEF Settled, PhaseInv, ReadOps
<1>4. BufferInv'
  <2>1. Full'
    BY BufferKept
  <2> QED BY <2>1 DEF BufferInv
<1>5. CallInv'
  BY DEF CallInv
<1>6. Same(cntx, Agreed)' <=> Same(cntx, Agreed)
  BY <1>1 DEF Same
<1>7. n \in Nat \ {0}
  BY SizeIs
<1>8. jc'[0] = 0 => HasReadAll'
  BY <1>1, <1>2, <1>7 DEF HasReadAll, Nothing
<1>9. (\A c : ~Done(c)') => HasRead'
  <2> SUFFICES ASSUME \A c : ~Done(c)' PROVE HasRead'
    OBVIOUS
  <2>1. ASSUME NEW e PROVE ~Done(e[2])'
    <3>1. PICK c : c = e[2]
      OBVIOUS
    <3>2. ~Done(c)'
      OBVIOUS
    <3> QED BY <3>1, <3>2
  <2> QED BY <1>1, <1>2, <2>1 DEF HasRead, Nothing
<1>10. TeamInv'
  BY <1>1, <1>6, <1>8, <1>9 DEF TeamInv
<1> QED BY <1>3, <1>4, <1>5, <1>10 DEF IInv

\* The team begins to read.
LEMMA StartReadKeeps ==
  ASSUME IInv, NEW jit \in BOOLEAN, StartRead(jit)
  PROVE  IInv'
<1> DEFINE n_threads == Max({call.r.nt, 1})
           vector == n = 1 /\ call.op # "gemm"
           ok == \/ vector
                 \/ /\ dlp_gemm_validate_metadata_with_lcntx(cntx)
                    /\ call.op = "gemm" /\ cntx.NR > 1 => jit
                    /\ call.op = "unreorder_reference" =>
                         dlp_reorder_ref_blocks_legal(cntx.NR, cntx.KC)
<1>1. phase = "start" /\ call.op \in ReadOps /\ Settled
  BY InvSettled DEF StartRead, ReadOps
<1>2. Full /\ IsCall(call) /\ IsRuntime(call.r) /\ (call.op = "gemm" => call.m \in Rows)
  BY <1>1 DEF IInv, BufferInv, CallInv
<1>3. n_threads \in Nat \ {0} /\ n \in Nat
  BY <1>1, TeamSize, SizeIs
<1> HIDE DEF n_threads
<1>4. CASE ~ok /\ Return("packed") /\ UNCHANGED <<prob, meta, buf, lay>>
  BY <1>1, <1>2, <1>4, ReturnKeeps
<1>5. ASSUME ok, UNCHANGED <<prob, meta, buf, lay, cntx, out>>
      PROVE  n > 1 /\ call.op = "gemm" => GemmContext /\ Same(cntx, Agreed)
  <2> SUFFICES ASSUME n > 1, call.op = "gemm" PROVE GemmContext /\ Same(cntx, Agreed)
    OBVIOUS
  <2>1. GemmContext
    BY <1>1 DEF IInv, CallInv
  <2>2. dlp_gemm_validate_metadata_with_lcntx(cntx)
    BY <1>5
  <2> QED BY <1>1, <2>1, <2>2, GemmAgrees
<1>6. CASE /\ ok
           /\ n = 1 /\ Start(1, "reading") /\ call' = [call EXCEPT !.op = "vector"]
           /\ UNCHANGED <<prob, meta, buf, lay, cntx, out>>
  <2>1. phase' = "reading" /\ n' = n
    BY <1>6, Unmoved DEF Start
  <2>2. OneBlock' /\ jc'[0] = 0
    BY <1>6, <2>1, BlockBegins
  <2>3. call'.op = "vector"
    BY <1>2, <1>6 DEF IsCall
  <2> QED BY <1>1, <1>2, <1>6, <2>1, <2>2, <2>3, ReadBegins
<1>7. CASE /\ ok
           /\ n > 1 /\ call.op = "gemm" /\ is_tiny_input_bf16of32(cntx, call.m)
           /\ Start(1, "reading") /\ call' = [call EXCEPT !.op = "tiny"]
           /\ UNCHANGED <<prob, meta, buf, lay, cntx, out>>
  <2>1. phase' = "reading" /\ n' = n
    BY <1>7, Unmoved DEF Start
  <2>2. OneBlock' /\ jc'[0] = 0
    BY <1>7, <2>1, BlockBegins
  <2>3. call'.op = "tiny"
    BY <1>2, <1>7 DEF IsCall
  <2>4. n < cntx.NC /\ k < cntx.KC
    BY <1>7 DEF is_tiny_input_bf16of32
  <2>5. Same(cntx, Agreed)
    BY <1>5, <1>7
  <2> QED BY <1>1, <1>2, <1>7, <2>1, <2>2, <2>3, <2>4, <2>5, ReadBegins
<1>8. ASSUME n > 1, NEW ways \in Nat \ {0}, Start(ways, "reading"), Same(cntx, Agreed),
             UNCHANGED call, UNCHANGED <<prob, meta, buf, lay, cntx, out>>
      PROVE  IInv'
  <2>1. cntx.NR = AgreedNR
    BY <1>8 DEF Same, Agreed
  <2>2. Sharing' /\ \A c : ~Done(c)'
    BY <1>1, <1>8, <2>1, TeamBegins
  <2>3. phase' = "reading"
    BY <1>8 DEF Start
  <2> QED BY <1>1, <1>2, <1>8, <2>2, <2>3, ReadBegins
<1>9. CASE /\ ok
           /\ n > 1 /\ call.op = "gemm"
           /\ \E ways \in {JcWays(CallWays, call.m)} : Start(ways, "reading")
           /\ UNCHANGED call
           /\ UNCHANGED <<prob, meta, buf, lay, cntx, out>>
  <2>1. GemmContext /\ Same(cntx, Agreed)
    BY <1>5, <1>9
  <2>2. JcWays(CallWays, call.m) \in Nat \ {0}
    BY <1>1, <1>2, <1>9, <2>1, GemmWays
  <2> QED BY <1>8, <1>9, <2>1, <2>2
<1>10. CASE /\ n > 1 /\ call.op # "gemm"
            /\ \E ways \in IF call.op = "unreorder" /\ cntx.NR = DefaultBlocks.NR
                           THEN {n_threads} ELSE 1 .. n_threads :
                 Start(ways, "reading")
            /\ UNCHANGED call
            /\ UNCHANGED <<prob, meta, buf, lay, cntx, out>>
  <2>1. Same(cntx, Agreed)
    BY <1>1, <1>10 DEF IInv, CallInv
  <2>2. \A ways \in IF call.op = "unreorder" /\ cntx.NR = DefaultBlocks.NR
                    THEN {n_threads} ELSE 1 .. n_threads : ways \in Nat \ {0}
    BY <1>3
  <2> QED BY <1>8, <1>10, <2>1, <2>2
<1>11. \/ ~ok /\ Return("packed") /\ UNCHANGED <<prob, meta, buf, lay>>
       \/ /\ ok
          /\ \/ /\ n = 1
                /\ Start(1, "reading")
                /\ call' = [call EXCEPT !.op = "vector"]
             \/ /\ n > 1 /\ call.op = "gemm"
                /\ \/ /\ is_tiny_input_bf16of32(cntx, call.m)
                      /\ Start(1, "reading") /\ call' = [call EXCEPT !.op = "tiny"]
                   \/ /\ \E ways \in {JcWays(CallWays, call.m)} : Start(ways, "reading")
                      /\ UNCHANGED call
             \/ /\ n > 1 /\ call.op # "gemm"
                /\ \E ways \in IF call.op = "unreorder" /\ cntx.NR = DefaultBlocks.NR
                               THEN {n_threads} ELSE 1 .. n_threads :
                     Start(ways, "reading")
                /\ UNCHANGED call
          /\ UNCHANGED <<prob, meta, buf, lay, cntx, out>>
  BY DEF StartRead, n_threads
<1> HIDE DEF ok
<1> QED BY <1>4, <1>6, <1>7, <1>9, <1>10, <1>11

\* A thread packs a piece.
LEMMA PackPanelKeeps ==
  ASSUME IInv, NEW t \in DOMAIN team, PackPanel(t)
  PROVE  IInv'
<1>1. phase = "packing" /\ UNCHANGED <<prob, meta, phase, lay, call, cntx, team, out>>
  BY DEF PackPanel
<1>2. Settled /\ n > 1 /\ Same(cntx, Agreed) /\ Sharing /\ Filling
  BY <1>1, InvSettled DEF IInv, CallInv, TeamInv, BufferInv
<1>3. Sharing' /\ Filling'
  BY <1>2, PackStep
<1>4. n' = n /\ (Legal' <=> Legal) /\ Nothing' = Nothing /\ Agreed' = Agreed
  BY <1>1, Unmoved
<1>5. PhaseInv'
  BY <1>1, <1>4 DEF IInv, PhaseInv
<1>6. BufferInv'
  BY <1>1, <1>3 DEF BufferInv
<1>7. CallInv'
  BY <1>1, <1>4 DEF IInv, CallInv, Same
<1>8. TeamInv'
  BY <1>1, <1>3, <1>4 DEF IInv, TeamInv
<1> QED BY <1>5, <1>6, <1>7, <1>8 DEF IInv

\* The packers join: the buffer is full.
LEMMA PackJoinKeeps ==
  ASSUME IInv, PackJoin
  PROVE  IInv'
<1>1. phase = "packing" /\ AllDone /\ Return("packed") /\ UNCHANGED <<prob, meta, buf, lay>>
  BY DEF PackJoin
<1>2. Settled /\ n > 1 /\ Same(lay, Agreed) /\ Sharing /\ Filling
  BY <1>1, InvSettled DEF IInv, CallInv, TeamInv, BufferInv
<1>3. Good(n, k, Agreed)
  BY <1>2, AgreedIs DEF Settled
<1>4. Size \in Nat /\ n \in Nat /\ Size = RoundN(n) * RoundK(k)
  BY <1>2, SizeIs
<1>5. ASSUME NEW o \in 0 .. Size - 1 PROVE Done(BlockOf(o, n, k, Agreed))
  <2>1. o \in Nat /\ o < RoundN(n) * RoundK(k)
    BY <1>4
  <2>2. BlockFacts(o, n, k, Agreed)
    BY <1>3, <2>1, BlockOfIs
  <2>3. BlockOf(o, n, k, Agreed) \in 0 .. n - 1
    BY <1>4, <2>2 DEF BlockFacts
  <2> QED BY <1>1, <1>2, <2>3, AllDoneIs
<1>6. Full
  <2>1. buf = [o \in 0 .. Size - 1 |-> Image(o)]
    BY <1>2, <1>5 DEF Filling
  <2> QED BY <1>2, <1>4, <2>1 DEF Full
<1> QED BY <1>1, <1>2, <1>6, ReturnKeeps

\* A thread reads a piece.
LEMMA ReadPanelKeeps ==
  ASSUME IInv, NEW t \in DOMAIN team, ReadPanel(t)
  PROVE  IInv'
<1>1. phase = "reading" /\ UNCHANGED <<prob, meta, phase, buf, lay, call, cntx, team>>
  BY DEF ReadPanel
<1>2. Settled /\ Full
  BY <1>1, InvSettled DEF IInv, BufferInv
<1>3. /\ n' = n /\ k' = k /\ (Legal' <=> Legal) /\ Nothing' = Nothing /\ Agreed' = Agreed
      /\ (Full' <=> Full)
  BY <1>1, Unmoved, BufferKept
<1>4. Same(cntx, Agreed)' <=> Same(cntx, Agreed)
  BY <1>1, <1>3 DEF Same
<1>5. TeamInv'
  <2>1. \/ call.op = "vector" /\ n = 1 /\ OneBlock /\ HasReadAll
        \/ /\ call.op = "tiny" /\ n > 1 /\ OneBlock /\ HasReadAll
           /\ Same(cntx, Agreed) /\ n < cntx.NC /\ k < cntx.KC
        \/ call.op \in ReadOps /\ n > 1 /\ Sharing /\ HasRead /\ Same(cntx, Agreed)
    BY <1>1 DEF IInv, TeamInv
  <2>2. CASE call.op = "vector" /\ n = 1 /\ OneBlock /\ HasReadAll
    <3>1. OneBlock' /\ HasReadAll'
      BY <1>2, <2>2, ReadBlock
    <3> QED BY <1>1, <1>3, <2>2, <3>1 DEF TeamInv
  <2>3. CASE /\ call.op = "tiny" /\ n > 1 /\ OneBlock /\ HasReadAll
             /\ Same(cntx, Agreed) /\ n < cntx.NC /\ k < cntx.KC
    <3>1. OneBlock' /\ HasReadAll'
      BY <1>2, <2>3, ReadBlock
    <3> QED BY <1>1, <1>3, <1>4, <2>3, <3>1 DEF TeamInv
  <2>4. CASE call.op \in ReadOps /\ n > 1 /\ Sharing /\ HasRead /\ Same(cntx, Agreed)
    <3>1. Sharing' /\ HasRead'
      BY <1>2, <2>4, ReadStep
    <3> QED BY <1>1, <1>3, <1>4, <2>4, <3>1 DEF TeamInv
  <2> QED BY <2>1, <2>2, <2>3, <2>4
<1>6. PhaseInv'
  BY <1>1, <1>3 DEF IInv, PhaseInv
<1>7. BufferInv'
  BY <1>1, <1>2, <1>3 DEF BufferInv
<1>8. CallInv'
  BY <1>1 DEF CallInv
<1> QED BY <1>5, <1>6, <1>7, <1>8 DEF IInv

\* The readers join.
LEMMA ReadJoinKeeps ==
  ASSUME IInv, ReadJoin
  PROVE  IInv'
<1>1. phase = "reading" /\ Return("packed") /\ UNCHANGED <<prob, meta, buf, lay>>
  BY DEF ReadJoin
<1>2. Settled /\ Full
  BY <1>1, InvSettled DEF IInv, BufferInv
<1> QED BY <1>1, <1>2, ReturnKeeps

----------------------------------------------------------------------------
(* The theorems.                                                           *)

\* Before the first call there is no buffer.
LEMMA InvBegins == Init => IInv
<1> SUFFICES ASSUME Init PROVE IInv
  OBVIOUS
<1>1. phase = "new" /\ buf = Empty /\ call.op = "none" /\ out = Nothing /\ team = Empty
      /\ jc = Empty /\ prob \in Problems /\ meta \in Metadata
  BY DEF Init, NoCall
<1>2. PhaseInv
  BY <1>1 DEF PhaseInv
<1>3. BufferInv
  BY <1>1 DEF BufferInv
<1>4. CallInv
  BY <1>1 DEF CallInv
<1>5. TeamInv
  BY <1>1 DEF TeamInv
<1> QED BY <1>2, <1>3, <1>4, <1>5 DEF IInv

\* A step of something else keeps it.
LEMMA StutterKeeps ==
  ASSUME IInv, UNCHANGED vars
  PROVE  IInv'
<1>1. UNCHANGED <<prob, meta, phase, buf, lay, call, cntx, team, jc, out>>
  BY DEF vars
<1>2. /\ n' = n /\ k' = k /\ Begun' = Begun /\ AgreedNR' = AgreedNR /\ AgreedNC' = AgreedNC
      /\ Agreed' = Agreed /\ (Legal' <=> Legal) /\ Elements' = Elements /\ Nothing' = Nothing
      /\ Size' = Size /\ \A o : Image(o)' = Image(o)
  BY <1>1, Unmoved
<1>3. (Fresh' <=> Fresh) /\ (Full' <=> Full)
  BY <1>1, BufferKept
<1>4. Filling' <=> Filling
  BY <1>1, <1>2 DEF Filling, Done
<1>5. (Sharing' <=> Sharing) /\ (OneBlock' <=> OneBlock)
  BY <1>1, <1>2 DEF Sharing, OneBlock
<1>6. (HasRead' <=> HasRead) /\ (HasReadAll' <=> HasReadAll)
  BY <1>1, <1>2 DEF HasRead, HasReadAll, Done
<1>7. GemmContext' <=> GemmContext
  BY <1>1, <1>2 DEF GemmContext
<1>8. (Same(cntx, Agreed)' <=> Same(cntx, Agreed)) /\ (Same(lay, Agreed)' <=> Same(lay, Agreed))
  BY <1>1, <1>2 DEF Same
<1>9. PhaseInv'
  BY <1>1, <1>2 DEF IInv, PhaseInv
<1>10. BufferInv'
  BY <1>1, <1>3, <1>4 DEF IInv, BufferInv
<1>11. CallInv'
  BY <1>1, <1>2, <1>7, <1>8 DEF IInv, CallInv
<1>12. TeamInv'
  BY <1>1, <1>2, <1>5, <1>6, <1>8 DEF IInv, TeamInv
<1> QED BY <1>9, <1>10, <1>11, <1>12 DEF IInv

\* Every step keeps the invariant.
LEMMA InvKept == IInv /\ [Next]_vars => IInv'
<1> SUFFICES ASSUME IInv, [Next]_vars PROVE IInv'
  OBVIOUS
<1>1. CASE UNCHANGED vars
  BY <1>1, StutterKeeps
<1>2. CASE GetSize
  BY <1>2, GetSizeKeeps
<1>3. CASE CopyVector
  BY <1>3, CopyVectorKeeps
<1>4. CASE \E r \in Runtimes, api \in {"reorder", "reference"} : Reorder(r, api)
  BY <1>4, ReorderKeeps DEF PackOps
<1>5. CASE \E m \in Rows, r \in Runtimes : Gemm(m, r)
  BY <1>5, GemmKeeps
<1>6. CASE \E r \in Runtimes, api \in {"unreorder", "unreorder_reference"} : Unreorder(r, api)
  BY <1>6, UnreorderKeeps
<1>7. CASE PackBInit
  BY <1>7, PackBInitKeeps
<1>8. CASE \E jit \in BOOLEAN : KernelInit(jit) \/ StartPack(jit) \/ StartRead(jit)
  BY <1>8, KernelInitKeeps, StartPackKeeps, StartReadKeeps
<1>9. CASE \E t \in DOMAIN team : PackPanel(t) \/ ReadPanel(t)
  BY <1>9, PackPanelKeeps, ReadPanelKeeps
<1>10. CASE PackJoin
  BY <1>10, PackJoinKeeps
<1>11. CASE ReadJoin
  BY <1>11, ReadJoinKeeps
<1> QED BY <1>1, <1>2, <1>3, <1>4, <1>5, <1>6, <1>7, <1>8, <1>9, <1>10, <1>11 DEF Next

\* What is in the buffer in any phase.
LEMMA BufferIs ==
  ASSUME IInv
  PROVE  /\ phase # "new" \/ buf = Empty
         /\ buf = Empty \/ Fresh \/ (Settled /\ n > 1 /\ Filling) \/ (Settled /\ Full)
<1>1. phase \in {"packb", "start"} => call.op \in PackOps \cup ReadOps
  BY DEF IInv, CallInv
<1>2. phase = "packing" => n > 1
  BY DEF IInv, CallInv
<1>3. phase \notin {"new", "over"} => Settled
  BY InvSettled
<1>4. phase \in {"new", "sized", "kernel", "packb", "start", "packing", "packed", "reading", "over"}
  BY DEF IInv, PhaseInv
<1> QED BY <1>1, <1>2, <1>3, <1>4 DEF IInv, BufferInv

\* What a buffer holds.
LEMMA BufferTyped ==
  ASSUME IInv
  PROVE  /\ DOMAIN buf = (IF phase = "new" \/ buf = Empty THEN {} ELSE 0 .. Size - 1)
         /\ \A o \in DOMAIN buf : buf[o] \in Contents
<1>1. CASE buf = Empty
  BY <1>1 DEF Empty
<1>2. CASE buf # Empty /\ Fresh
  <2>1. phase # "new"
    BY <1>2, BufferIs
  <2> QED BY <1>2, <2>1 DEF Fresh, Contents
<1>3. CASE buf # Empty /\ Settled /\ n > 1 /\ Filling
  <2>1. phase # "new"
    BY <1>3, BufferIs
  <2> QED BY <1>3, <2>1, ImageContents DEF Filling, Contents
<1>4. CASE buf # Empty /\ Settled /\ Full
  <2>1. phase # "new"
    BY <1>4, BufferIs
  <2>2. CASE n = 1
    <3>1. Size = k /\ k \in Nat
      BY <1>4, <2>2, SizeIs
    <3>2. \A o \in 0 .. k - 1 : <<o, 0>> \in Elements
      BY <2>2 DEF Elements
    <3> QED BY <1>4, <2>1, <2>2, <3>1, <3>2 DEF Full, Contents
  <2>3. CASE n # 1
    BY <1>4, <2>1, <2>3, ImageContents DEF Full, Contents
  <2> QED BY <2>2, <2>3
<1> QED BY <1>1, <1>2, <1>3, <1>4, BufferIs

\* The threads of a team are where their ranges are.
LEMMA TeamTyped ==
  ASSUME IInv
  PROVE  /\ DOMAIN jc = DOMAIN team
         /\ \A t \in DOMAIN team : jc[t] \in Nat /\ team[t].end \in 0 .. n
<1>1. CASE phase \notin {"packing", "reading"}
  <2>1. team = Empty /\ jc = Empty
    BY <1>1 DEF IInv, TeamInv
  <2> QED BY <2>1 DEF Empty
<1>2. CASE phase \in {"packing", "reading"}
  <2>1. Settled /\ (Sharing \/ OneBlock)
    BY <1>2, InvSettled DEF IInv, TeamInv
  <2>2. n \in Nat \ {0} /\ AgreedNR \in Nat \ {0}
    BY <2>1, AgreedIs DEF Settled, Good, Agreed
  <2>3. CASE Sharing
    <3>1. PICK ways \in Nat \ {0} :
            /\ team = [s \in 0 .. ways - 1 |-> dlp_thread_task_range(ways, s, n, AgreedNR, FALSE)]
            /\ jc \in [0 .. ways - 1 -> Nat]
      BY <2>3 DEF Sharing
    <3>2. \A s \in 0 .. ways - 1 : RangeFacts(ways, s, AgreedNR)
      BY <2>2, RangeIs
    <3>3. ASSUME NEW s \in 0 .. ways - 1 PROVE team[s].end \in 0 .. n
      <4>1. team[s] = dlp_thread_task_range(ways, s, n, AgreedNR, FALSE)
        BY <3>1
      <4>2. team[s].end \in Nat /\ team[s].end <= n
        BY <3>2, <4>1 DEF RangeFacts
      <4> QED BY <2>2, <4>2
    <3> QED BY <3>1, <3>3
  <2>4. CASE OneBlock
    <3>1. team = [s \in 0 .. 0 |-> Span(0, n)] /\ jc \in [0 .. 0 -> {0, n}]
      BY <2>4 DEF OneBlock
    <3>2. Span(0, n).end = n
      BY DEF Span
    <3> QED BY <2>2, <3>1, <3>2
  <2> QED BY <2>1, <2>3, <2>4
<1> QED BY <1>1, <1>2

\* What a call has read so far.
LEMMA OutTyped ==
  ASSUME IInv
  PROVE  out \in [Elements -> Contents]
<1>1. CASE phase # "reading"
  <2>1. out = Nothing
    BY <1>1 DEF IInv, TeamInv
  <2> QED BY <2>1 DEF Nothing, Contents
<1>2. CASE phase = "reading"
  <2>1. HasRead \/ HasReadAll
    BY <1>2 DEF IInv, TeamInv
  <2> QED BY <2>1 DEF HasRead, HasReadAll, Contents
<1> QED BY <1>1, <1>2

\* A call reads what was written, all of it once all threads are done.
LEMMA ReadsImplied == IInv => ReadsWhatWasWritten
<1> SUFFICES ASSUME IInv, phase = "reading", NEW e \in Elements
             PROVE  out[e] = e \/ (out[e] = Undef /\ ~AllDone)
  BY DEF ReadsWhatWasWritten
<1>1. Settled
  BY InvSettled
<1>2. n \in Nat \ {0} /\ k \in Nat \ {0}
  BY <1>1, SizeIs
<1>3. CASE OneBlock /\ HasReadAll
  <2>1. out[e] = IF jc[0] = n THEN e ELSE Undef
    BY <1>3 DEF HasReadAll
  <2>2. team = [s \in 0 .. 0 |-> Span(0, n)] /\ jc \in [0 .. 0 -> {0, n}]
    BY <1>3 DEF OneBlock
  <2>3. 0 \in DOMAIN team /\ team[0].end = n /\ jc[0] \in {0, n}
    BY <2>2 DEF Span
  <2>4. jc[0] # n => ~AllDone
    BY <1>2, <2>3 DEF AllDone, Active
  <2> QED BY <2>1, <2>4
<1>4. CASE Sharing /\ HasRead
  <2>1. out[e] = IF Done(e[2]) THEN e ELSE Undef
    BY <1>4 DEF HasRead
  <2>2. e[2] \in 0 .. n - 1
    BY DEF Elements
  <2>3. AllDone => Done(e[2])
    BY <1>1, <1>4, <2>2, AllDoneIs
  <2> QED BY <2>1, <2>3
<1> QED BY <1>3, <1>4 DEF IInv, TeamInv

\* The place of an element in a packed buffer is its place in the layout.
LEMMA PlaceAgrees ==
  ASSUME Same(lay, Agreed), NEW e
  PROVE  Place(e) = PlaceOf(e, n, k, Agreed)
<1>1. lay.NR = Agreed.NR /\ lay.NC = Agreed.NC /\ lay.KC = Agreed.KC
  BY DEF Same
<1>2. panel_start(e[2], lay) = panel_start(e[2], Agreed)
  BY SameWalk
<1> QED BY <1>1, <1>2 DEF Place, PlaceOf, Offset, FirstRow, Within, Breadth

\* A packed buffer is the image of B.
LEMMA BytesImplied == IInv => BytesFixed
<1> SUFFICES ASSUME IInv, phase = "packed", n > 1
             PROVE  LET place == [e \in Elements |-> Place(e)]
                        used == {place[e] : e \in Elements}
                    IN  /\ \A e \in Elements : buf[place[e]] = e
                        /\ \A o \in DOMAIN buf \ used : buf[o] = Pad
  BY DEF BytesFixed
<1> DEFINE place == [e \in Elements |-> Place(e)]
           used == {place[e] : e \in Elements}
           P(e) == PlaceOf(e, n, k, Agreed)
<1>1. Settled /\ Full
  BY InvSettled DEF IInv, BufferInv
<1>2. Size = RoundN(n) * RoundK(k) /\ Size \in Nat /\ n \in Nat
  BY <1>1, SizeIs
<1>3. buf = [o \in 0 .. Size - 1 |-> Image(o)] /\ Same(lay, Agreed)
  BY <1>1, <1>2 DEF Full
<1>4. \A e \in Elements : place[e] = P(e)
  BY <1>3, PlaceAgrees
<1>5. ASSUME NEW e \in Elements PROVE buf[place[e]] = e
  <2>1. ImageFacts(e)
    BY <1>1, ImageIs
  <2>2. P(e) \in Nat /\ P(e) < RoundN(n) * RoundK(k) /\ Image(P(e)) = e
    BY <2>1 DEF ImageFacts
  <2> HIDE DEF P
  <2>3. P(e) \in 0 .. Size - 1
    BY <1>2, <2>2
  <2> HIDE DEF place
  <2> QED BY <1>3, <1>4, <2>2, <2>3
<1>6. ASSUME NEW o \in DOMAIN buf \ used PROVE buf[o] = Pad
  <2>1. \A e \in Elements : P(e) # o
    BY <1>4, <1>6
  <2>2. Image(o) = Pad
    BY <2>1 DEF Image
  <2> QED BY <1>3, <1>6, <2>2
<1> QED BY <1>5, <1>6

\* No step overwrites what was written.
LEMMA OnceImplied ==
  ASSUME IInv, [Next]_vars
  PROVE  [\A o \in DOMAIN buf : buf[o] # Undef => o \in DOMAIN buf' /\ buf'[o] = buf[o]]_buf
<1> DEFINE Once == \A o \in DOMAIN buf : buf[o] # Undef => o \in DOMAIN buf' /\ buf'[o] = buf[o]
<1> SUFFICES Once \/ buf' = buf
  OBVIOUS
<1>1. CASE GetSize
  <2>1. buf = Empty
    BY <1>1 DEF GetSize, IInv, BufferInv
  <2> QED BY <2>1 DEF Empty
<1>2. CASE CopyVector
  <2>1. Fresh
    BY <1>2 DEF CopyVector, IInv, BufferInv
  <2> QED BY <2>1 DEF Fresh
<1>3. CASE \E t \in DOMAIN team : PackPanel(t)
  <2>1. PICK t \in DOMAIN team : PackPanel(t)
    BY <1>3
  <2>2. phase = "packing"
    BY <2>1 DEF PackPanel
  <2>3. Settled /\ n > 1 /\ Same(cntx, Agreed) /\ Sharing /\ Filling
    BY <2>2, InvSettled DEF IInv, CallInv, TeamInv, BufferInv
  <2> QED BY <2>1, <2>3, PackStep
<1>4. CASE UNCHANGED vars
  BY <1>4 DEF vars
<1>5. CASE \E r \in Runtimes, api \in {"reorder", "reference"} : Reorder(r, api)
  BY <1>5 DEF Reorder, Call, End
<1>6. CASE \E m \in Rows, r \in Runtimes : Gemm(m, r)
  BY <1>6 DEF Gemm, Call
<1>7. CASE \E r \in Runtimes, api \in {"unreorder", "unreorder_reference"} : Unreorder(r, api)
  BY <1>7 DEF Unreorder, Call
<1>8. CASE PackBInit
  BY <1>8 DEF PackBInit
<1>9. CASE \E jit \in BOOLEAN : KernelInit(jit) \/ StartPack(jit) \/ StartRead(jit)
  <2>1. ASSUME NEW jit \in BOOLEAN, KernelInit(jit) PROVE buf' = buf
    BY <2>1 DEF KernelInit
  <2>2. ASSUME NEW jit \in BOOLEAN, StartPack(jit) PROVE buf' = buf
    BY <2>2 DEF StartPack, End
  <2>3. ASSUME NEW jit \in BOOLEAN, StartRead(jit) PROVE buf' = buf
    BY <2>3 DEF StartRead
  <2> QED BY <1>9, <2>1, <2>2, <2>3
<1>10. CASE \E t \in DOMAIN team : ReadPanel(t)
  BY <1>10 DEF ReadPanel
<1>11. CASE PackJoin \/ ReadJoin
  BY <1>11 DEF PackJoin, ReadJoin
<1> QED BY <1>1, <1>2, <1>3, <1>4, <1>5, <1>6, <1>7, <1>8, <1>9, <1>10, <1>11 DEF Next

\* The invariant holds: what every phase of every call knows of the buffer,
\* the context, the team and what has been read.
THEOREM ReorderInvariant == Spec => []IInv
  BY InvBegins, InvKept, PTL DEF Spec

\* The types, for every B, metadata and runtime: no packer, whatever width the
\* tile search chose, writes past the size the query of
\* aocl_get_reorder_buf_size_bf16bf16f32of32 gave.
THEOREM ReorderTypes == Spec => []TypeOK
<1>1. IInv => TypeOK
  BY BufferTyped, TeamTyped, OutTyped DEF IInv, PhaseInv, TypeOK, PackOps, ReadOps
<1> QED BY <1>1, ReorderInvariant, PTL

\* A GEMM, a gemv, the tiny path and the un-reorders find every element of B
\* where they look for it, for all sizes, all rows and all thread counts,
\* although none of them is told how B was packed.
THEOREM ReorderReadsWhatWasWritten == Spec => []ReadsWhatWasWritten
  BY ReorderInvariant, ReadsImplied, PTL

\* The bytes of a packed buffer do not depend on the threads that packed it,
\* and all of them are defined.
THEOREM ReorderBytesFixed == Spec => []BytesFixed
  BY ReorderInvariant, BytesImplied, PTL

\* The threads that pack a B never write to the same byte.
THEOREM ReorderWrittenOnce == Spec => WrittenOnce
<1>1. IInv /\ [Next]_vars =>
        [\A o \in DOMAIN buf : buf[o] # Undef => o \in DOMAIN buf' /\ buf'[o] = buf[o]]_buf
  BY OnceImplied
<1> QED BY <1>1, ReorderInvariant, PTL DEF Spec, WrittenOnce
=============================================================================
