---------------------------- MODULE GemmFiveLoop ----------------------------
(***************************************************************************)
(* The five-loop GEMM driver and its cooperative packing of B              *)
(* (classic/frame/s8s8s32/dlp_gemm_s8s8s32.c; the u8, bf16, f16 and f32    *)
(* drivers have the same frame).  With tag PACK_KC it is the driver for    *)
(* 4-bit weights (classic/frame/bf16bf16f32/dlp_gemm_bf16s4.c), whose B is *)
(* reordered and widened into a packed panel; its UNPACKED works as the    *)
(* REORDERED of the others.                                                *)
(*                                                                         *)
(* The ic_ways threads of a jc team share a communicator and, when B is to *)
(* be packed, one buffer: the chief allocates and publishes it, everybody  *)
(* packs a slice of the current panel, everybody reads the whole panel,    *)
(* and the next panel overwrites it.  Barriers are all that orders this.   *)
(* A communicator serves one call of the driver: batches of teams larger   *)
(* than one thread give a team one GEMM (BatchDecorator!BatchShared).      *)
(*                                                                         *)
(* Barriers are the ones AbstractBarrier states; AtomicBarrier implements  *)
(* them.  What a kernel computes is abstracted to which panel it read and  *)
(* which tile of C it added to; packing, to which panel a column holds.    *)
(***************************************************************************)
EXTENDS Integers, FiniteSetsExt, Sequences, TaskRange

CONSTANTS
  Shapes,    \* problems: sizes, blocking, team, B's tag, is C accumulated apart
  PadN, PadK \* packed panels are padded to multiples of these

ASSUME FiveLoopAssumption ==
  /\ \A s \in Shapes :
       s \in [ic_ways : Nat \ {0}, jc_ways : Nat \ {0},
              m : Nat \ {0, 1}, n : Nat \ {0, 1}, k : Nat \ {0},  \* else a GEMV
              MR : Nat \ {0}, NR : Nat \ {0}, MC : Nat \ {0}, NC : Nat \ {0},
              KC : Nat \ {0}, downscale : BOOLEAN,
              mtag_b : {"PACK", "PACK_KC", "REORDERED", "UNPACKED"}]
  /\ PadN \in Nat \ {0} /\ PadK \in Nat \ {0}

VARIABLES
  s,            \* the shape
  at,           \* where each thread is
  jcs, ics,     \* the jc and ic ranges of each thread
  jc, pc, ic,   \* loop variables of each thread
  nc0,          \* the width of the block of columns each thread is at
  buf,          \* pack_b_buffer of each thread: an index of heap, 0 for NULL
  sent_object,  \* of each jc team's communicator
  heap,         \* pack buffers: [live, size, panel, sums]
  temp,         \* elements of each thread's temporary C buffer, -1 for NULL
  entered, passed,  \* barrier calls begun and returned from
  added         \* added[i, j]: k blocks added to element i, j of C

vars == <<s, at, jcs, ics, jc, pc, ic, nc0, buf, sent_object, heap,
          temp, entered, passed, added>>
loops == <<jcs, ics, jc, pc, ic, nc0>>

MinOf(a, b) == IF a <= b THEN a ELSE b
MakeMultiple(a, b) == ((a + b - 1) \div b) * b

----------------------------------------------------------------------------
(* The team of a thread and its loop ranges.                               *)

Threads == 0 .. s.ic_ways * s.jc_ways - 1
JcId(t) == jc_work_id(t, s.ic_ways)
IcId(t) == ic_work_id(t, s.ic_ways)
Chief(t) == IcId(t) = 0
TeamOf(t) == {u \in Threads : JcId(u) = JcId(t)}

JcLoop(t) == dlp_thread_task_range(s.jc_ways, JcId(t), s.n, s.NR, FALSE)
IcLoop(t) == dlp_thread_task_range(s.ic_ways, IcId(t), s.m, s.MR, FALSE)

Packs == s.mtag_b \in {"PACK", "PACK_KC"}
Reordered == s.mtag_b \in {"PACK_KC", "REORDERED"}

\* A reordered B was laid out in panels of NC columns: the block a thread
\* takes ends with the panel it begins in, and the next begins the next panel.
PanelStart(j) == (j \div s.NC) * s.NC
BlockWidth(j, end) ==
  LET width == MinOf(end - j, s.NC)
  IN  IF Reordered /\ j + width > PanelStart(j) + s.NC
      THEN s.NC - (j - PanelStart(j))
      ELSE width
NextJcFromCut(t) == jc[t] + s.NC
NextJc(t) == (IF Reordered THEN PanelStart(jc[t]) ELSE jc[t]) + s.NC

kc0(t) == MinOf(s.k - pc[t], s.KC)

\* The slice of the panel a thread packs.
PackRange(t) == dlp_thread_task_range(s.ic_ways, IcId(t), nc0[t], s.NR, FALSE)

\* Room for w columns of the panel and, with 8-bit operands, a 4-byte sum each.
BufferSize(t, w) ==
  MakeMultiple(w, PadN) * (MakeMultiple(kc0(t), PadK) + (IF s.mtag_b = "PACK" THEN 4 ELSE 0))

\* The buffer is made for the width before the cut.
AllocWidth(t) == MinOf(jcs[t].end - jc[t], s.NC)

\* Elements of the buffer C is accumulated in when it is stored downscaled:
\* the width before the cut, since the blocks after the cut may be wider.
TempSizeOfCutBlock(j, end, rows) == BlockWidth(j, end) * (rows.end - rows.start)
TempSize(j, end, rows) == MinOf(end - j, s.NC) * (rows.end - rows.start)

Panel(t) == <<jc[t], pc[t]>>
PanelsUpTo(t) == {<<jc[t], x>> : x \in {y \in 0 .. pc[t] : y % s.KC = 0}}

----------------------------------------------------------------------------
Init ==
  /\ s \in Shapes
  /\ at = [t \in Threads |-> "begin"]
  /\ jcs = [t \in Threads |-> Span(0, 0)]
  /\ ics = [t \in Threads |-> Span(0, 0)]
  /\ jc = [t \in Threads |-> 0]
  /\ nc0 = [t \in Threads |-> 0]
  /\ pc = [t \in Threads |-> 0]
  /\ ic = [t \in Threads |-> 0]
  /\ buf = [t \in Threads |-> 0]
  /\ sent_object = [g \in 0 .. s.jc_ways - 1 |-> 0]
  /\ heap = <<>>
  /\ temp = [t \in Threads |-> -1]
  /\ entered = [t \in Threads |-> 0]
  /\ passed = [t \in Threads |-> 0]
  /\ added = [e \in (0 .. s.m - 1) \X (0 .. s.n - 1) |-> 0]

Goto(t, to) == at' = [at EXCEPT ![t] = to]

\* The first step inside the pc loop.
BlockStart == IF Packs THEN "send" ELSE "compute"

\* The head of the jc loop, and what follows when it is done.
EnterJc(t, j, end, rows) ==
  /\ jc' = [jc EXCEPT ![t] = j]
  /\ nc0' = [nc0 EXCEPT ![t] = BlockWidth(j, end)]
  /\ pc' = [pc EXCEPT ![t] = 0]
  /\ ic' = [ic EXCEPT ![t] = rows.start]
  /\ temp' = IF j < end /\ s.downscale /\ s.k > s.KC /\ temp[t] = -1
             THEN [temp EXCEPT ![t] = TempSize(j, end, rows)] ELSE temp
  /\ Goto(t, IF j < end THEN BlockStart
             ELSE IF Packs THEN "arriveLast" ELSE "release")

\* An unpacked B is refused: the driver returns and C stays as it is.
Begin(t) ==
  /\ at[t] = "begin"
  /\ \/ /\ s.mtag_b = "UNPACKED"
        /\ Goto(t, "done")
        /\ UNCHANGED <<loops, temp>>
     \/ /\ s.mtag_b # "UNPACKED"
        /\ jcs' = [jcs EXCEPT ![t] = JcLoop(t)]
        /\ ics' = [ics EXCEPT ![t] = IcLoop(t)]
        /\ EnterJc(t, JcLoop(t).start, JcLoop(t).end, IcLoop(t))
  /\ UNCHANGED <<s, buf, sent_object, heap, entered, passed, added>>

----------------------------------------------------------------------------
(* Packing B.                                                              *)

Nothing == <<-1, -1>>
NewBuffer(t) ==
  [live |-> TRUE, size |-> BufferSize(t, AllocWidth(t)),
   panel |-> [c \in 0 .. AllocWidth(t) - 1 |-> Nothing],
   sums |-> [c \in 0 .. AllocWidth(t) - 1 |-> {}]]

\* Waits for the others only when there is something new to receive.
SendBufferAtOnce(t) ==
  /\ at[t] = "send"
  /\ \/ /\ Chief(t)
        /\ buf[t] = 0
        /\ heap' = Append(heap, NewBuffer(t))
        /\ buf' = [buf EXCEPT ![t] = Len(heap')]
        /\ sent_object' = [sent_object EXCEPT ![JcId(t)] = buf'[t]]
     \/ /\ ~Chief(t) \/ buf[t] # 0
        /\ UNCHANGED <<heap, buf, sent_object>>
  /\ Goto(t, IF buf[t] = 0 THEN "arriveAlloc" ELSE "receive")
  /\ UNCHANGED <<s, loops, temp, entered, passed, added>>

\* The chief allocates once and publishes the buffer.
SendBuffer(t) ==
  /\ at[t] = "send"
  /\ \/ /\ Chief(t)
        /\ buf[t] = 0
        /\ heap' = Append(heap, NewBuffer(t))
        /\ buf' = [buf EXCEPT ![t] = Len(heap')]
        /\ sent_object' = [sent_object EXCEPT ![JcId(t)] = buf'[t]]
     \/ /\ Chief(t)
        /\ buf[t] # 0
        /\ sent_object' = [sent_object EXCEPT ![JcId(t)] = buf[t]]
        /\ UNCHANGED <<heap, buf>>
     \/ /\ ~Chief(t)
        /\ UNCHANGED <<heap, buf, sent_object>>
  /\ Goto(t, "arriveAlloc")
  /\ UNCHANGED <<s, loops, temp, entered, passed, added>>

Arrive(t, here, wait) ==
  /\ at[t] = here
  /\ entered' = [entered EXCEPT ![t] = @ + 1]
  /\ Goto(t, wait)
  /\ UNCHANGED <<s, loops, buf, sent_object, heap, temp, passed, added>>

Leave(t, wait, next) ==
  /\ at[t] = wait
  /\ \A u \in TeamOf(t) : entered[t] <= entered[u]
  /\ passed' = [passed EXCEPT ![t] = @ + 1]
  /\ Goto(t, next)
  /\ UNCHANGED <<s, loops, buf, sent_object, heap, temp, entered, added>>

\* The barriers of a call: around the packing of each panel, and at the end.
Barriers(t) ==
  \/ Arrive(t, "arriveAlloc", "waitAlloc") \/ Leave(t, "waitAlloc", "receive")
  \/ Arrive(t, "arrivePack", "waitPack") \/ Leave(t, "waitPack", "compute")
  \/ Arrive(t, "arriveLast", "waitLast") \/ Leave(t, "waitLast", "release")

ReceiveBuffer(t) ==
  /\ at[t] = "receive"
  /\ buf' = [buf EXCEPT ![t] = sent_object[JcId(t)]]
  /\ Goto(t, "pack")
  /\ UNCHANGED <<s, loops, sent_object, heap, temp, entered, passed, added>>

\* A slice is packed; the sums are zeroed at the first k block.  A thread with
\* an empty slice only asks for the strides.
PackSlice(t) ==
  /\ LET mine == Indices(PackRange(t))
         b == heap[buf[t]]
     IN  heap' = [heap EXCEPT ![buf[t]] =
           [b EXCEPT
              !.panel = [c \in DOMAIN @ |-> IF c \in mine THEN Panel(t) ELSE @[c]],
              !.sums = [c \in DOMAIN @ |->
                          IF c \notin mine THEN @[c]
                          ELSE IF pc[t] = 0 THEN {Panel(t)} ELSE @[c] \cup {Panel(t)}]]]
  /\ UNCHANGED <<s, loops, buf, sent_object, temp, entered, passed, added>>

PackWithoutBarrier(t) == at[t] = "pack" /\ PackSlice(t) /\ Goto(t, "compute")
PackUnlessEmpty(t) ==
  /\ at[t] = "pack"
  /\ PackSlice(t)
  /\ Goto(t, IF Indices(PackRange(t)) = {} THEN "compute" ELSE "arrivePack")
Pack(t) == at[t] = "pack" /\ PackSlice(t) /\ Goto(t, "arrivePack")

----------------------------------------------------------------------------
(* Computing: one block of MC rows at a time, then the next k block, then  *)
(* the next block of columns.                                              *)

Compute(t) ==
  /\ at[t] = "compute"
  /\ ic[t] < ics[t].end
  /\ LET rows == ic[t] .. ic[t] + MinOf(ics[t].end - ic[t], s.MC) - 1
         cols == jc[t] .. jc[t] + nc0[t] - 1
     IN  added' = [e \in DOMAIN added |->
                     added[e] + (IF e \in rows \X cols THEN 1 ELSE 0)]
  /\ ic' = [ic EXCEPT ![t] = @ + s.MC]
  /\ UNCHANGED <<s, at, jcs, ics, jc, pc, nc0, buf, sent_object, heap, temp,
                entered, passed>>

NextBlock(t) ==
  /\ at[t] = "compute"
  /\ ic[t] >= ics[t].end
  /\ \/ /\ pc[t] + s.KC < s.k
        /\ pc' = [pc EXCEPT ![t] = @ + s.KC]
        /\ ic' = [ic EXCEPT ![t] = ics[t].start]
        /\ Goto(t, BlockStart)
        /\ UNCHANGED <<jc, nc0, temp>>
     \/ /\ pc[t] + s.KC >= s.k
        /\ EnterJc(t, NextJc(t), jcs[t].end, ics[t])
  /\ UNCHANGED <<s, jcs, ics, buf, sent_object, heap, entered, passed, added>>

ReleaseByAll(t) ==
  /\ at[t] = "release"
  /\ heap' = IF buf[t] # 0 THEN [heap EXCEPT ![buf[t]].live = FALSE] ELSE heap
  /\ buf' = [buf EXCEPT ![t] = 0]
  /\ temp' = [temp EXCEPT ![t] = -1]
  /\ Goto(t, "done")
  /\ UNCHANGED <<s, loops, sent_object, entered, passed, added>>

\* The chief frees the buffer after the last barrier; locals die with the call.
Release(t) ==
  /\ at[t] = "release"
  /\ heap' = IF Chief(t) /\ buf[t] # 0
             THEN [heap EXCEPT ![buf[t]].live = FALSE] ELSE heap
  /\ buf' = [buf EXCEPT ![t] = 0]
  /\ temp' = [temp EXCEPT ![t] = -1]
  /\ Goto(t, "done")
  /\ UNCHANGED <<s, loops, sent_object, entered, passed, added>>

----------------------------------------------------------------------------
Step(t) ==
  \/ Begin(t) \/ SendBuffer(t) \/ ReceiveBuffer(t) \/ Pack(t)
  \/ Compute(t) \/ NextBlock(t) \/ Release(t) \/ Barriers(t)

Next == \E t \in Threads : Step(t)

MaxThreads == Max({x.ic_ways * x.jc_ways : x \in Shapes})

\* The operating system keeps every thread of the team running.
Fairness == \A t \in 0 .. MaxThreads - 1 : WF_vars(t \in Threads /\ Step(t))

Spec == Init /\ [][Next]_vars
FairSpec == Spec /\ Fairness

----------------------------------------------------------------------------
(* Properties.                                                             *)

\* Whoever reads the packed panel reads the panel of its own columns and k
\* block, complete and in a buffer that is still allocated, for as long as it
\* reads; and the column sums hold all the k blocks so far and no other.
PanelIntact ==
  \A t \in Threads : at[t] = "compute" /\ Packs =>
    /\ heap[buf[t]].live
    /\ \A c \in 0 .. nc0[t] - 1 : /\ heap[buf[t]].panel[c] = Panel(t)
                                  /\ heap[buf[t]].sums[c] = PanelsUpTo(t)

\* While a slice is written nobody in the team reads the buffer, and whoever
\* else writes packs another slice of the same panel into the same buffer.
PackExclusive ==
  \A t \in Threads : at[t] = "pack" =>
    /\ heap[buf[t]].live
    /\ \A u \in TeamOf(t) \ {t} :
         /\ at[u] # "compute"
         /\ at[u] = "pack" => /\ buf[u] = buf[t] /\ Panel(u) = Panel(t)
                              /\ Indices(PackRange(u)) \cap Indices(PackRange(t)) = {}

\* The pack buffer was sized for the first panel; it holds every
\* later one, fringe blocks and padding included.  So does the temporary C
\* buffer, also when a reordered panel cuts the first block short.
BufferFits ==
  \A t \in Threads :
    /\ at[t] \in {"pack", "compute"} /\ Packs =>
         /\ BufferSize(t, nc0[t]) <= heap[buf[t]].size
         /\ 0 .. nc0[t] - 1 \subseteq DOMAIN heap[buf[t]].panel
    /\ at[t] = "compute" /\ s.downscale /\ s.k > s.KC =>
         nc0[t] * (ics[t].end - ics[t].start) <= temp[t]

AllFinished == \A t \in Threads : at[t] = "done"

\* A buffer is freed once, by the chief that allocated it, and none is left
\* when the team is done.
BuffersFreedOnce ==
  /\ \A t \in Threads : at[t] = "release" /\ Chief(t) /\ buf[t] # 0 => heap[buf[t]].live
  /\ AllFinished => \A b \in 1 .. Len(heap) : ~heap[b].live

KBlocks == (s.k + s.KC - 1) \div s.KC

\* Every element of C receives every k block once: beta is applied with
\* the first and the post-operations with the last.  A refused call adds nothing.
ResultComplete ==
  /\ \A t \in Threads : at[t] = "compute" =>
       \A i \in Indices(ics[t]), j \in jc[t] .. jc[t] + nc0[t] - 1 :
         added[<<i, j>>] = (pc[t] \div s.KC) + (IF i < ic[t] THEN 1 ELSE 0)
  /\ AllFinished => \A e \in DOMAIN added :
                      added[e] = IF s.mtag_b = "UNPACKED" THEN 0 ELSE KBlocks

\* The team gets through: nobody waits at a barrier that another one skips.
TeamFinishes == <>AllFinished
=============================================================================
