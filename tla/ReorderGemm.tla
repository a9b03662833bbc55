---------------------------- MODULE ReorderGemm ----------------------------
(***************************************************************************)
(* The life of a reordered bf16 B: its size is asked for, it is packed by  *)
(* a team of threads, and GEMMs, gemvs and un-reorders of other rows and   *)
(* other thread counts read it (classic/aocl_gemm_bf16_utils.c,            *)
(* aocl_gemm_bf16bf16f32of32.c, frame/bf16bf16f32/dlp_gemm_reorder_bf16.c, *)
(* dlp_gemm_bf16.c, dlp_gemm_bf16_tiny.c, frame/gemm_utils/                *)
(* dlp_gemm_reorder_ref.c, the context of config/dlp_gemm_config).         *)
(*                                                                         *)
(* The buffer is all that passes from one call to the next: no call is     *)
(* told how it was packed.  The application hands every call the same      *)
(* metadata; that is its side of the contract.                             *)
(*                                                                         *)
(* An element of B is its place <<row, column>> and the buffer a memory of *)
(* such places.  The JIT packer writes what the reference packer writes,   *)
(* and a kernel reads a micro panel by the chunks it was packed in.        *)
(* OpenMP delivers the threads asked for, except where the code asks it    *)
(* how many there are.  Row strides and the cap they put on MR are left    *)
(* out: no panel depends on MR.                                            *)
(***************************************************************************)
EXTENDS ReorderLayout, ShapeModel

CONSTANTS
  DefaultBlocks,  \* blksz of the global context
  Problems,       \* [n, k] of B
  Metadata,       \* [blocks, m_hint, nt_hint]; a block size of 0 is not stated
  Runtimes,       \* [nt, ic, jc] of dlp_rntm_init_from_global
  Rows,           \* m of the GEMMs
  GemvKC,         \* kc of the kernel for m = 1
  SkinnyN, SkinnyMr,
  Tiny            \* [k_thresh, mnk] of is_tiny_input_bf16of32

BlockNames == {"MC", "NC", "KC", "MR", "NR"}

\* Every tile is as wide as a number of vectors, and the kernel for m = 1 takes
\* as many rows as the panels of the global context have (4096, in all maps of
\* dlp_gemm_blksz_map.h).
ASSUME ReorderAssumption ==
  /\ Problems \subseteq [n : Nat \ {0}, k : Nat \ {0}]
  /\ DefaultBlocks \in [BlockNames -> Nat \ {0}]
  /\ Metadata \subseteq [blocks : [BlockNames -> Nat], m_hint : Int, nt_hint : Int]
  /\ Rows \subseteq Nat \ {0}
  /\ Runtimes \subseteq [nt : Int, ic : Int, jc : Int]
  /\ SkinnyMr \in Nat \ {0}
  /\ \A t \in {candidateTiles[i] : i \in DOMAIN candidateTiles} \cup {streamingTile} :
       t.nr % min_NR = 0
  /\ GemvKC = DefaultBlocks.KC

VARIABLES
  prob, meta,   \* B and what the application says of the calls
  phase,        \* how far the running call is
  buf,          \* the reordered buffer: what lies at each offset
  lay,          \* the context it was packed with
  call, cntx,   \* the running call [op, m, r] and its local context
  team, jc,     \* the ranges of its threads, and the column each is at
  out           \* the elements of B it has read

vars == <<prob, meta, phase, buf, lay, call, cntx, team, jc, out>>

Undef == <<>>          \* never written
Pad == <<"zero">>
n == prob.n
k == prob.k
Elements == (0 .. k - 1) \X (0 .. n - 1)
Nothing == [e \in Elements |-> Undef]
Empty == [x \in {} |-> 0]
NoCall == [op |-> "none", m |-> 0, r |-> Split(0, 0, 0)]

----------------------------------------------------------------------------
(* The context of a call.                                                  *)

Stated == {x \in DOMAIN meta.blocks : meta.blocks[x] > 0}

\* A size that is not stated is rounded to the tile; without block_params
\* (nothing is stated) there is nothing to round.
dlp_gemm_upd_cntx_with_metadata ==
  LET b == [x \in DOMAIN DefaultBlocks |->
              IF x \in Stated THEN meta.blocks[x] ELSE DefaultBlocks[x]]
      Fit(x, to) == IF x \in Stated \/ Stated = {} THEN b[x]
                    ELSE dlp_reorder_round_up(b[x], to)
  IN  [MC |-> Fit("MC", b.MR), NC |-> Fit("NC", b.NR), KC |-> b.KC,
       MR |-> b.MR, NR |-> b.NR, mask |-> Stated,
       m_hint |-> meta.m_hint, nt_hint |-> meta.nt_hint]

dlp_gemm_validate_hints(c) == c.m_hint >= 0 /\ c.nt_hint >= 0

dlp_gemm_effective_thread_count(r) ==
  IF r.ic > 0 \/ r.jc > 0 THEN Max({r.ic, 1}) * Max({r.jc, 1}) ELSE r.nt

dlp_is_single_thread(r) == r.nt = 1 \/ (r.ic > 0 /\ r.jc > 0 /\ r.ic * r.jc = 1)

\* A GEMM must run on as many threads as the panels were chosen for.
dlp_gemm_validate_hints_with_call(c, r) ==
  /\ dlp_gemm_validate_hints(c)
  /\ c.m_hint # 0 /\ c.nt_hint # 0 => c.nt_hint = dlp_gemm_effective_thread_count(r)

\* What the application stated must have survived the inits.
dlp_gemm_validate_metadata_with_lcntx(c) ==
  Stated # {} =>
    /\ \A x \in Stated : c[x] = meta.blocks[x]
    /\ c.MC % c.MR = 0 /\ c.NC % c.NR = 0

\* Mutant: the gemv kernel has its own width whatever B was packed at.
TileGemvFixed(c, m, shape) ==
  IF n = 1 THEN [mr |-> 16, nr |-> 1, kc |-> c.KC]
  ELSE IF m = 1 THEN [mr |-> 1, nr |-> DefaultBlocks.NR, kc |-> GemvKC]
  ELSE [mr |-> shape.mr, nr |-> shape.nr, kc |-> c.KC]

\* The tile of the kernel.  A gemv kernel has MR and kc of its own but the
\* width B was packed at; the MR of a GEMM grows when B is narrow.
TileOf(c, m, shape) ==
  IF n = 1 THEN [mr |-> 16, nr |-> 1, kc |-> c.KC]
  ELSE IF m = 1 THEN [mr |-> 1, nr |-> shape.nr, kc |-> GemvKC]
  ELSE [mr |-> IF n <= SkinnyN /\ "MR" \notin c.mask THEN Least(m, SkinnyMr) ELSE shape.mr,
        nr |-> shape.nr, kc |-> c.KC]

----------------------------------------------------------------------------
Init ==
  /\ prob \in Problems /\ meta \in Metadata
  /\ phase = "new"
  /\ buf = Empty /\ lay = Empty
  /\ call = NoCall /\ cntx = Empty
  /\ team = Empty /\ jc = Empty
  /\ out = Nothing

\* The application gives up: it has no buffer.
End == phase' = "over" /\ UNCHANGED <<prob, meta, buf, lay, call, cntx, team, jc, out>>

\* The call returns; "to" tells whether there is a packed buffer.
Return(to) ==
  /\ phase' = to
  /\ call' = NoCall /\ cntx' = Empty /\ team' = Empty /\ jc' = Empty
  /\ out' = Nothing

\* Mutant: only the rows are padded.
SizeUnpadded == IF n = 1 THEN k ELSE RoundK(k) * n
Size == IF n = 1 THEN k ELSE RoundK(k) * RoundN(n)

\* aocl_get_reorder_buf_size_bf16bf16f32of32, and the application's allocation.
GetSize ==
  LET c == dlp_gemm_upd_cntx_with_metadata
      ok == /\ dlp_gemm_validate_metadata_with_lcntx(c)
            /\ dlp_reorder_ref_blocks_legal(c.NR, c.KC)
  IN  /\ phase = "new"
      /\ \/ ~ok /\ End
         \/ /\ ok
            /\ buf' = [o \in 0 .. Size - 1 |-> Undef]
            /\ phase' = "sized"
            /\ UNCHANGED <<prob, meta, lay, call, cntx, team, jc, out>>

----------------------------------------------------------------------------
(* A call: its context, the tile, the team.                                *)

Call(op, m, r, to) ==
  /\ call' = [op |-> op, m |-> m, r |-> r]
  /\ cntx' = dlp_gemm_upd_cntx_with_metadata
  /\ phase' = to
  /\ UNCHANGED <<prob, meta, buf, lay, team, jc, out>>

\* dlp_init_and_get_kernel_hndl: the tile is settled, MC and NC fit it, and
\* the ways a GEMM's tile was chosen under are published, unless the runtime
\* pins its own.  Without a kernel the call is refused; there is none for a
\* GEMM with a tile of one row or column.
KernelInit(jit) ==
  LET gemm == call.m > 1 /\ n > 1
      ok == jit /\ (gemm => cntx.MR > 1 /\ cntx.NR > 1)
  IN  /\ phase = "kernel"
      /\ \/ ~ok /\ Return("packed") /\ UNCHANGED <<prob, meta, buf, lay>>
         \/ /\ ok
            /\ \E shape \in {resolveGemmShape(n, k, cntx)} :
               \E tile \in {TileOf(cntx, call.m, shape)} :
                 /\ cntx' = [cntx EXCEPT !.MR = tile.mr, !.NR = tile.nr, !.KC = RoundK(tile.kc),
                                         !.mask = @ \cup {"MR", "NR"},
                                         !.MC = dlp_reorder_round_up(@, tile.mr),
                                         !.NC = dlp_reorder_round_up(@, tile.nr)]
                 /\ call' = IF gemm /\ shape.ways.jc > 0 /\ call.r.ic <= 0 /\ call.r.jc <= 0
                            THEN [call EXCEPT !.r.ic = shape.ways.ic, !.r.jc = shape.ways.jc]
                            ELSE call
            /\ phase' = "packb"
            /\ UNCHANGED <<prob, meta, buf, lay, team, jc, out>>

\* dlp_init_and_get_packb_kernel_hndl.
PackBInit ==
  /\ phase = "packb"
  /\ \E nr \in {reorderedPanelNR(n, k, cntx)} :
       cntx' = [cntx EXCEPT !.NR = nr, !.mask = @ \cup {"NR"},
                            !.NC = dlp_reorder_round_up(@, nr)]
  /\ phase' = "start"
  /\ UNCHANGED <<prob, meta, buf, lay, call, team, jc, out>>

\* The team walks over the columns of B, a panel at a time.
Start(ways, to) ==
  /\ team' = [t \in 0 .. ways - 1 |-> dlp_thread_task_range(ways, t, n, cntx.NR, FALSE)]
  /\ jc' = [t \in 0 .. ways - 1 |-> team'[t].start]
  /\ phase' = to

Active(t) == jc[t] < team[t].end
AllDone == \A t \in DOMAIN team : ~Active(t)
Step(t) == jc' = [jc EXCEPT ![t] = NextPanel(@, cntx)]

\* The offset at which thread t has element <<row, column>> of its panel.
OffsetOf(t, e) ==
  LET j == jc[t]
      pc == (e[1] \div cntx.KC) * cntx.KC
      nc0 == panel_width(j, team[t].end, cntx)
  IN  PanelBase(j, pc, n, k, cntx)
      + TileOffset(e[1] - pc, e[2] - j, nc0, Least(k - pc, cntx.KC), cntx.NR)

Columns(t) == jc[t] .. jc[t] + panel_width(jc[t], team[t].end, cntx) - 1

\* The offsets dlp_reorder_ref_packb zeroes before it copies.
Cleared(t) ==
  LET nc0 == panel_width(jc[t], team[t].end, cntx)
  IN  UNION {LET base == PanelBase(jc[t], pc, n, k, cntx)
             IN  base .. base + dlp_reorder_panel_elems(nc0, Least(k - pc, cntx.KC)) - 1
             : pc \in PanelRows(k, cntx.KC)}

----------------------------------------------------------------------------
(* Reordering.                                                             *)

\* B with one column is copied.
CopyVector ==
  /\ phase = "sized" /\ n = 1
  /\ buf' = [o \in DOMAIN buf |-> <<o, 0>>]
  /\ phase' = "packed"
  /\ UNCHANGED <<prob, meta, lay, call, cntx, team, jc, out>>

\* aocl_reorder_bf16bf16f32of32 and its _reference.
Reorder(r, api) ==
  /\ phase = "sized" /\ n > 1
  /\ IF dlp_gemm_validate_hints(meta) THEN Call(api, 0, r, "packb") ELSE End

\* The parallel region.  The pack kernel may not have been generated, and the
\* reference does not need it; a reference team is as large as OpenMP makes it.
StartPack(jit) ==
  LET n_threads == Max({call.r.nt, 1})
      ok == /\ dlp_gemm_validate_metadata_with_lcntx(cntx)
            /\ IF call.op = "reference" THEN dlp_reorder_ref_blocks_legal(cntx.NR, cntx.KC)
               ELSE jit
  IN  /\ phase = "start" /\ call.op \in {"reorder", "reference"}
      /\ \/ ~ok /\ End
         \/ /\ ok
            /\ \E ways \in IF call.op = "reference" THEN 1 .. n_threads ELSE {n_threads} :
                 Start(ways, "packing")
            /\ lay' = cntx
            /\ UNCHANGED <<prob, meta, buf, call, cntx, out>>

PackPanel(t) ==
  /\ phase = "packing" /\ Active(t)
  /\ LET moved == (0 .. k - 1) \X Columns(t)
         at == [e \in moved |-> OffsetOf(t, e)]
         here == {at[e] : e \in moved}
     IN  buf' = [o \in DOMAIN buf \cup Cleared(t) \cup here |->
                   IF o \in here THEN CHOOSE e \in moved : at[e] = o
                   ELSE IF o \in Cleared(t) THEN Pad ELSE buf[o]]
  /\ Step(t)
  /\ UNCHANGED <<prob, meta, phase, lay, call, cntx, team, out>>

PackJoin ==
  /\ phase = "packing" /\ AllDone
  /\ Return("packed")
  /\ UNCHANGED <<prob, meta, buf, lay>>

----------------------------------------------------------------------------
(* Reading the buffer back.                                                *)

\* aocl_gemm_bf16bf16f32of32 over the buffer; a call that is refused reads
\* nothing.
Gemm(m, r) ==
  /\ phase = "packed"
  /\ dlp_gemm_validate_hints_with_call(meta, r)
  /\ Call("gemm", m, r, "kernel")

\* aocl_unreorder_bf16bf16f32of32 and its _reference.
Unreorder(r, api) ==
  /\ phase = "packed"
  /\ n > 1 => dlp_gemm_validate_hints(meta)
  /\ Call(api, 0, r, IF n > 1 THEN "packb" ELSE "start")

\* One block of everything: with one thread the loops are left out.
is_tiny_input_bf16of32(c, m) ==
  /\ m <= c.MC /\ n < c.NC /\ k < c.KC
  /\ m <= 6 * c.MR /\ n <= 2 * c.NR /\ k <= Tiny.k_thresh /\ m * n * k < Tiny.mnk

\* The column ways of a GEMM; a gemv splits n over everybody.
JcWays(s, m) == IF m = 1 /\ s.jc = 1 THEN s.nt ELSE s.jc
CallWays == resolveWays(call.r, [m |-> call.m, n |-> n, MR |-> cntx.MR, NR |-> cntx.NR])

\* B with one column and the tiny path are one block.  The ic threads of a
\* column way read the same panels and stand for one.  At another width than
\* the default an un-reorder is the reference, whose team may be smaller.  A
\* GEMM is refused without a pack kernel, even though B is packed.
StartRead(jit) ==
  LET n_threads == Max({call.r.nt, 1})
      vector == n = 1 /\ call.op # "gemm"
      ok == \/ vector
            \/ /\ dlp_gemm_validate_metadata_with_lcntx(cntx)
               /\ call.op = "gemm" /\ cntx.NR > 1 => jit
               /\ call.op = "unreorder_reference" =>
                    dlp_reorder_ref_blocks_legal(cntx.NR, cntx.KC)
  IN  /\ phase = "start" /\ call.op \in {"gemm", "unreorder", "unreorder_reference"}
      /\ \/ ~ok /\ Return("packed") /\ UNCHANGED <<prob, meta, buf, lay>>
         \/ /\ ok
            /\ \/ /\ n = 1
                  /\ Start(1, "reading")
                  /\ call' = [call EXCEPT !.op = "vector"]
               \/ /\ n > 1 /\ call.op = "gemm"
                  /\ IF is_tiny_input_bf16of32(cntx, call.m) /\ dlp_is_single_thread(call.r)
                     THEN Start(1, "reading") /\ call' = [call EXCEPT !.op = "tiny"]
                     ELSE (\E ways \in {JcWays(CallWays, call.m)} : Start(ways, "reading")) /\ UNCHANGED call
               \/ /\ n > 1 /\ call.op # "gemm"
                  /\ \E ways \in IF call.op = "unreorder" /\ cntx.NR = DefaultBlocks.NR
                                 THEN {n_threads} ELSE 1 .. n_threads :
                       Start(ways, "reading")
                  /\ UNCHANGED call
            /\ UNCHANGED <<prob, meta, buf, lay, cntx, out>>

At(o) == IF o \in DOMAIN buf THEN buf[o] ELSE Undef

\* A thread reads the elements of a panel; the tiny path and a vector are read
\* as one panel.
ReadPanel(t) ==
  /\ phase = "reading" /\ Active(t)
  /\ LET Offset(e) == CASE call.op = "vector" -> e[1]
                        [] call.op = "tiny" -> TileOffset(e[1], e[2], n, k, cntx.NR)
                        [] OTHER -> OffsetOf(t, e)
         read == (0 .. k - 1) \X (IF call.op \in {"vector", "tiny"} THEN 0 .. n - 1
                                  ELSE Columns(t))
     IN  out' = [e \in Elements |-> IF e \in read THEN At(Offset(e)) ELSE out[e]]
  /\ IF call.op \in {"vector", "tiny"} THEN jc' = [jc EXCEPT ![t] = n] ELSE Step(t)
  /\ UNCHANGED <<prob, meta, phase, buf, lay, call, cntx, team>>

ReadJoin ==
  /\ phase = "reading" /\ AllDone
  /\ Return("packed")
  /\ UNCHANGED <<prob, meta, buf, lay>>

Next ==
  \/ GetSize
  \/ CopyVector
  \/ \E r \in Runtimes, api \in {"reorder", "reference"} : Reorder(r, api)
  \/ \E m \in Rows, r \in Runtimes : Gemm(m, r)
  \/ \E r \in Runtimes, api \in {"unreorder", "unreorder_reference"} : Unreorder(r, api)
  \/ PackBInit
  \/ \E jit \in BOOLEAN : KernelInit(jit) \/ StartPack(jit) \/ StartRead(jit)
  \/ \E t \in DOMAIN team : PackPanel(t) \/ ReadPanel(t)
  \/ PackJoin
  \/ ReadJoin

Spec == Init /\ [][Next]_vars

----------------------------------------------------------------------------
(* Properties.                                                             *)

Contents == Elements \cup {Undef, Pad}

\* The buffer is exactly as large as the size query said: no packer writes
\* past it.
TypeOK ==
  /\ phase \in {"new", "sized", "kernel", "packb", "start", "packing", "packed",
                "reading", "over"}
  /\ prob \in Problems /\ meta \in Metadata
  /\ DOMAIN buf = (IF phase = "new" \/ buf = Empty THEN {} ELSE 0 .. Size - 1)
  /\ \A o \in DOMAIN buf : buf[o] \in Contents
  /\ call.op \in {"none", "reorder", "reference", "gemm", "tiny", "vector", "unreorder",
                  "unreorder_reference"}
  /\ DOMAIN jc = DOMAIN team
  /\ \A t \in DOMAIN team : jc[t] \in Nat /\ team[t].end \in 0 .. n
  /\ out \in [Elements -> Contents]

\* Whatever call reads the buffer finds every element of B where it looks for
\* it: the widths, panels and paddings that the size query, the reorder, the
\* five loops, the gemv, the tiny path and the un-reorder work out on their
\* own agree, for other rows and other thread counts than the packer's.
ReadsWhatWasWritten ==
  phase = "reading" =>
    \A e \in Elements : out[e] = e \/ (out[e] = Undef /\ ~AllDone)

\* The panels of different threads do not overlap in the buffer: what a thread
\* packed no thread writes again.
WrittenOnce ==
  [][\A o \in DOMAIN buf : buf[o] # Undef => o \in DOMAIN buf' /\ buf'[o] = buf[o]]_buf

\* "Thread count does not change the bytes": a packed buffer is the image that
\* one thread going over all panels in turn would leave, and "fully defined".
Place(e) ==
  LET j == panel_start(e[2], lay)
      pc == (e[1] \div lay.KC) * lay.KC
      nc0 == Least(n - j, lay.NC)
  IN  j * RoundK(k) + RoundN(nc0) * pc
      + TileOffset(e[1] - pc, e[2] - j, nc0, Least(k - pc, lay.KC), lay.NR)
BytesFixed ==
  phase = "packed" /\ n > 1 =>
    LET place == [e \in Elements |-> Place(e)]
        used == {place[e] : e \in Elements}
    IN  /\ \A e \in Elements : buf[place[e]] = e
        /\ \A o \in DOMAIN buf \ used : buf[o] = Pad
=============================================================================
