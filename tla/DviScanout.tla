----------------------------- MODULE DviScanout -----------------------------
(***************************************************************************)
(* The TMDS buffer ring between the renderer and the DVI output.           *)
(*                                                                         *)
(* The renderer (render_loop, core 0) takes buffers from q_tmds_free, fills*)
(* one scanline into each and puts it into q_tmds_valid.  The DMA interrupt*)
(* (dvi_dma_irq_handler, core 0 as well) fires once per output line, when  *)
(* the hardware starts to send the line whose control blocks it has just   *)
(* loaded; it selects the buffer of the NEXT line and hands finished       *)
(* buffers back.  Core 1 touches neither queue, and the interrupt cannot be*)
(* interrupted by the renderer, so the handler is one atomic action and    *)
(* every queue operation of the renderer is one action of its own.         *)
(*                                                                         *)
(* Pixels are abstracted: a rendered scanline is the number of its line in *)
(* the frame (0 .. Lines-1), which the properties compare with the row of  *)
(* the screen it is sent to.                                               *)
(***************************************************************************)
EXTENDS Naturals, Sequences, FiniteSets

CONSTANTS
  Buffers,          \* the TMDS buffers (DVI_N_TMDS_BUFFERS of them, 8)
  NoBuf,            \* the NULL buffer pointer, and the blank line of the DMA
  QueueSize,        \* capacity of q_tmds_valid and q_tmds_free (8)
  CellRepeat,       \* scanlines of one LORES cell (4)
  TextRows,         \* text rows of a screen (24)
  MixedRows,        \* graphics rows of a mixed screen (20)
  VidexGlyphLines,  \* scanlines of a Videx glyph (9)
  Border,           \* blank output lines above and below the 448 (16)
  VFrontPorch, VSyncWidth, VBackPorch,   \* vertical timing (10, 2, 33)
  MaxLate           \* bound on late_scanline_ctr, an unbounded counter

GlyphLines == 2 * CellRepeat                        \* 8
Lines      == TextRows * GlyphLines + 4 * GlyphLines   \* 224, A2DVI_SCANLINES/2

ASSUME BufferAssumption ==
  /\ IsFiniteSet(Buffers)
  /\ NoBuf \notin Buffers
  /\ QueueSize \in Nat
  /\ Cardinality(Buffers) \in 3 .. QueueSize
  /\ MaxLate \in Nat

\* The Videx screen (rows of 9 scanlines and one status line) is as high as
\* the Apple screen (rows of 8 scanlines and four status lines).
ASSUME GeometryAssumption ==
  /\ CellRepeat \in Nat \ {0}
  /\ TextRows \in Nat
  /\ MixedRows \in 0 .. TextRows
  /\ VidexGlyphLines \in Nat \ {0}
  /\ TextRows * VidexGlyphLines + GlyphLines = Lines
  /\ Border \in Nat /\ Border % 2 = 0
  /\ {VFrontPorch, VSyncWidth, VBackPorch} \subseteq Nat \ {0}

VARIABLES
  v_state, v_ctr,           \* dvi_timing_state
  q_tmds_free,              \* buffers ready to be rendered into
  q_tmds_valid,             \* rendered scanlines, oldest first
  tmds_buf_release_next,    \* shown for the last time on the next line
  tmds_buf_release,         \* being sent for the last time
  late_scanline_ctr,        \* rows that passed before their scanline came
  scanline_emulation,       \* blank every other output line
  dma_list,                 \* what the loaded control blocks send next
  dma_sending,              \* what the hardware is sending now
  phase, mode,              \* the part of render_loop, its kind of screen
  rows, row, k,             \* text rows of this part, this row, its scanline
  cells, work,              \* the buffers the renderer holds
  line                      \* scanlines of this frame already sent

timing   == <<v_state, v_ctr>>
ring     == <<q_tmds_free, q_tmds_valid>>
irqvars  == <<v_state, v_ctr, tmds_buf_release_next, tmds_buf_release,
              late_scanline_ctr, dma_list, dma_sending>>
renderer == <<phase, mode, rows, row, k, cells, work, line>>
vars     == <<ring, irqvars, scanline_emulation, renderer>>

Modes == {"line", "cell", "mixed", "videx"}

Scanline == [buf : Buffers, line : 0 .. Lines - 1]

Durations == [FRONT_PORCH |-> VFrontPorch, SYNC |-> VSyncWidth,
              BACK_PORCH  |-> VBackPorch,
              ACTIVE      |-> 2 * Lines + 2 * Border]

FollowedBy == [FRONT_PORCH |-> "SYNC", SYNC |-> "BACK_PORCH",
               BACK_PORCH  |-> "ACTIVE", ACTIVE |-> "FRONT_PORCH"]

\* Scanlines of a row: all parts are drawn in rows of the same height but for
\* the body of a Videx screen.
Height == IF phase = "body" /\ mode = "videx" THEN VidexGlyphLines ELSE GlyphLines

TypeOK ==
  /\ v_state \in DOMAIN Durations
  /\ v_ctr \in 0 .. Durations[v_state] - 1
  /\ q_tmds_free \in Seq(Buffers)
  /\ q_tmds_valid \in Seq(Scanline)
  /\ tmds_buf_release_next \in Buffers \cup {NoBuf}
  /\ tmds_buf_release \in Buffers \cup {NoBuf}
  /\ late_scanline_ctr \in 0 .. MaxLate
  /\ scanline_emulation \in BOOLEAN
  /\ dma_list \in Scanline \cup {NoBuf}
  /\ dma_sending \in Scanline \cup {NoBuf}
  /\ phase \in {"start", "top", "body", "bottom"}
  /\ mode \in Modes
  /\ rows \in Nat
  /\ row \in 0 .. rows
  /\ k \in 0 .. Height - 1
  /\ cells \in Seq(Buffers)
  /\ work \in Buffers \cup {NoBuf}
  /\ line \in 0 .. Lines

(***************************************************************************)
(* Initial state: dvi_init and dvi_start.  All buffers are free; the first *)
(* control blocks are those of a blank line without sync.                  *)
(***************************************************************************)
Init ==
  /\ v_state = "FRONT_PORCH" /\ v_ctr = 0
  /\ q_tmds_free \in
       {s \in [1 .. Cardinality(Buffers) -> Buffers] :
          \A i, j \in DOMAIN s : s[i] = s[j] => i = j}
  /\ q_tmds_valid = << >>
  /\ tmds_buf_release_next = NoBuf /\ tmds_buf_release = NoBuf
  /\ late_scanline_ctr = 0
  /\ scanline_emulation = TRUE
  /\ dma_list = NoBuf /\ dma_sending = NoBuf
  /\ phase = "start" /\ mode = "line" /\ rows = 0
  /\ row = 0 /\ k = 0
  /\ cells = << >> /\ work = NoBuf
  /\ line = 0

-----------------------------------------------------------------------------
(* The renderer: render_loop, one frame after the other.                   *)

\* Mutant of DebugRows: the status lines of a Videx screen are not left out.
DebugRowsAlwaysTwo(videx, top, text) == 2

\* render_debug: text rows, or blank ones, above and below the screen.  A Videx
\* screen has none above and a single one below.
DebugRows(videx, top, text) ==
  IF text THEN (IF videx THEN 0 ELSE 1) + (IF videx /\ top THEN 0 ELSE 1)
  ELSE IF videx THEN (IF top THEN 0 ELSE 1) ELSE 2

\* A LORES/DGR text row is drawn as a block of two cells; the block holds its
\* two original buffers while it gets and sends the copies of each.
InCells ==
  /\ phase = "body"
  /\ \/ mode = "cell"
     \/ mode = "mixed" /\ row < MixedRows

LacksCells    == InCells /\ k = 0 /\ Len(cells) < 2
SendsOriginal == InCells /\ k \in {CellRepeat - 1, 2 * CellRepeat - 1}

Enter(part, count) ==
  /\ phase' = part
  /\ rows' = count
  /\ row' = 0 /\ k' = 0

\* The soft switches select the renderer once, at the start of the frame;
\* IFLAGS_DEBUG_LINES is read anew by each of the two calls of render_debug.
StartFrame ==
  /\ phase = "start"
  /\ \E m \in Modes, text \in BOOLEAN :
       /\ mode' = m
       /\ Enter("top", DebugRows(m = "videx", TRUE, text))
  /\ line' = 0
  /\ UNCHANGED <<ring, irqvars, scanline_emulation, cells, work>>

StartBody ==
  /\ phase = "top" /\ row = rows
  /\ Enter("body", TextRows)
  /\ UNCHANGED <<ring, irqvars, scanline_emulation, mode, cells, work, line>>

StartBottom ==
  /\ phase = "body" /\ row = rows
  /\ \E text \in BOOLEAN :
       Enter("bottom", DebugRows(mode = "videx", FALSE, text))
  /\ UNCHANGED <<ring, irqvars, scanline_emulation, mode, cells, work, line>>

\* Core 1 may have changed IFLAGS_SCANLINEEMU; it is copied here.
EndFrame ==
  /\ phase = "bottom" /\ row = rows
  /\ Enter("start", 0)
  /\ scanline_emulation' \in BOOLEAN
  /\ UNCHANGED <<ring, irqvars, mode, cells, work, line>>

\* dvi_get_scanline: blocks while q_tmds_free is empty.
GetCell ==
  /\ row < rows /\ LacksCells
  /\ q_tmds_free # << >>
  /\ cells' = Append(cells, Head(q_tmds_free))
  /\ q_tmds_free' = Tail(q_tmds_free)
  /\ UNCHANGED <<q_tmds_valid, irqvars, scanline_emulation,
                 phase, mode, rows, row, k, work, line>>

GetLine ==
  /\ row < rows /\ ~ LacksCells /\ ~ SendsOriginal
  /\ work = NoBuf
  /\ q_tmds_free # << >>
  /\ work' = Head(q_tmds_free)
  /\ q_tmds_free' = Tail(q_tmds_free)
  /\ UNCHANGED <<q_tmds_valid, irqvars, scanline_emulation,
                 phase, mode, rows, row, k, cells, line>>

\* dvi_send_scanline: blocks while q_tmds_valid is full.
Send(b) ==
  /\ Len(q_tmds_valid) < QueueSize
  /\ q_tmds_valid' = Append(q_tmds_valid, [buf |-> b, line |-> line])
  /\ line' = line + 1
  /\ IF k + 1 = Height THEN row' = row + 1 /\ k' = 0
                        ELSE row' = row /\ k' = k + 1
  /\ UNCHANGED <<q_tmds_free, irqvars, scanline_emulation, phase, mode, rows>>

SendLine ==
  /\ work # NoBuf
  /\ Send(work)
  /\ work' = NoBuf
  /\ UNCHANGED cells

SendCell ==
  /\ row < rows /\ ~ LacksCells /\ SendsOriginal
  /\ Send(Head(cells))
  /\ cells' = Tail(cells)
  /\ UNCHANGED work

Renderer ==
  \/ StartFrame \/ StartBody \/ StartBottom \/ EndFrame
  \/ GetCell \/ GetLine \/ SendLine \/ SendCell

-----------------------------------------------------------------------------
(* The DMA interrupt: dvi_dma_irq_handler.                                 *)

\* Mutant of dvi_timing_state_advance: each state is one line too long.
AdvanceOneLate ==
  LET over == v_ctr = Durations[v_state]
  IN  /\ v_state' = IF over THEN FollowedBy[v_state] ELSE v_state
      /\ v_ctr' = IF over THEN 0 ELSE v_ctr + 1

dvi_timing_state_advance ==
  LET over == v_ctr + 1 = Durations[v_state]
  IN  /\ v_state' = IF over THEN FollowedBy[v_state] ELSE v_state
      /\ v_ctr' = IF over THEN 0 ELSE v_ctr + 1

\* Mutants of Released: a buffer goes back one interrupt early, or never.
ReleasedEarly ==
  IF tmds_buf_release_next = NoBuf THEN q_tmds_free
  ELSE Append(q_tmds_free, tmds_buf_release_next)

ReleasedNever == q_tmds_free

\* A buffer goes back two interrupts after it was selected for the last time.
Released ==
  IF tmds_buf_release = NoBuf THEN q_tmds_free
  ELSE Append(q_tmds_free, tmds_buf_release)

\* Mutant of Skipped: late scanlines are shown all the same.
SkippedNone == 0

\* Late scanlines, as many as are there, go back without being shown.
Skipped == IF late_scanline_ctr < Len(q_tmds_valid)
           THEN late_scanline_ctr ELSE Len(q_tmds_valid)
LateLeft == late_scanline_ctr - Skipped
OnTime   == SubSeq(q_tmds_valid, Skipped + 1, Len(q_tmds_valid))
Returned == Released \o [i \in 1 .. Skipped |-> q_tmds_valid[i].buf]

\* What the handler does before it looks for a scanline.  Without room in
\* q_tmds_free it would panic or, for a skipped buffer, block for ever.
IrqPrologue ==
  /\ dvi_timing_state_advance
  /\ Len(Returned) <= QueueSize
  /\ tmds_buf_release' = tmds_buf_release_next
  /\ q_tmds_free' = Returned
  /\ dma_sending' = dma_list
  /\ UNCHANGED <<scanline_emulation, renderer>>

\* Mutant of BlankLine: the emulation blanks the second line of each row.
BlankLineOdd(state, ctr, emulation) ==
  \/ state # "ACTIVE"
  \/ ctr < Border
  \/ emulation /\ ctr % 2 = 1
  \/ ctr >= Border + 2 * Lines

\* The line the handler prepares (v_state', v_ctr') has no picture.
BlankLine(state, ctr, emulation) ==
  \/ state # "ACTIVE"
  \/ ctr < Border
  \/ emulation /\ ctr % 2 = 0
  \/ ctr >= Border + 2 * Lines

SecondLine(ctr) == ctr % 2 = 1             \* DVI_VERTICAL_REPEAT is 2

IrqBlank ==
  /\ IrqPrologue
  /\ BlankLine(v_state', v_ctr', scanline_emulation)
  /\ dma_list' = NoBuf
  /\ tmds_buf_release_next' = NoBuf
  /\ q_tmds_valid' = OnTime
  /\ late_scanline_ctr' = LateLeft

\* Mutant of IrqPeek: the first line of a row releases the buffer already.
IrqPeekReleases ==
  /\ IrqPrologue
  /\ ~ BlankLine(v_state', v_ctr', scanline_emulation)
  /\ OnTime # << >> /\ ~ SecondLine(v_ctr')
  /\ dma_list' = Head(OnTime)
  /\ tmds_buf_release_next' = Head(OnTime).buf
  /\ q_tmds_valid' = OnTime
  /\ late_scanline_ctr' = LateLeft

\* First of a row's two lines: the scanline is sent and stays in the queue.
IrqPeek ==
  /\ IrqPrologue
  /\ ~ BlankLine(v_state', v_ctr', scanline_emulation)
  /\ OnTime # << >> /\ ~ SecondLine(v_ctr')
  /\ dma_list' = Head(OnTime)
  /\ tmds_buf_release_next' = NoBuf
  /\ q_tmds_valid' = OnTime
  /\ late_scanline_ctr' = LateLeft

\* Second line: the scanline is sent for the last time.
IrqTake ==
  /\ IrqPrologue
  /\ ~ BlankLine(v_state', v_ctr', scanline_emulation)
  /\ OnTime # << >> /\ SecondLine(v_ctr')
  /\ dma_list' = Head(OnTime)
  /\ tmds_buf_release_next' = Head(OnTime).buf
  /\ q_tmds_valid' = Tail(OnTime)
  /\ late_scanline_ctr' = LateLeft

\* Mutant of IrqMissing: both lines of a missing row are counted.
IrqMissingEachLine ==
  /\ IrqPrologue
  /\ ~ BlankLine(v_state', v_ctr', scanline_emulation)
  /\ OnTime = << >>
  /\ dma_list' = NoBuf
  /\ tmds_buf_release_next' = NoBuf
  /\ q_tmds_valid' = OnTime
  /\ late_scanline_ctr' = LateLeft + 1
  /\ late_scanline_ctr' <= MaxLate

\* No scanline: the line is blank, and a row that ends is counted as late.
IrqMissing ==
  /\ IrqPrologue
  /\ ~ BlankLine(v_state', v_ctr', scanline_emulation)
  /\ OnTime = << >>
  /\ dma_list' = NoBuf
  /\ tmds_buf_release_next' = NoBuf
  /\ q_tmds_valid' = OnTime
  /\ late_scanline_ctr' = IF SecondLine(v_ctr') THEN LateLeft + 1 ELSE LateLeft
  /\ late_scanline_ctr' <= MaxLate                              \* the bound

Irq == IrqBlank \/ IrqPeek \/ IrqTake \/ IrqMissing

Next == Renderer \/ Irq

Spec == Init /\ [][Next]_vars

\* The DMA never stops, and neither does the renderer while it has a buffer.
FairSpec == Spec /\ WF_vars(Irq) /\ WF_vars(Renderer)

-----------------------------------------------------------------------------
(* Properties                                                              *)

Held == {cells[i] : i \in DOMAIN cells} \cup ({work} \ {NoBuf})

BufferOf(shown) == IF shown = NoBuf THEN NoBuf ELSE shown.buf

\* The interrupt finds room in q_tmds_free for all it has to give back: the
\* panic "TMDS free queue full in IRQ!" (dvi.c:198) and the blocking add of
\* dvi.c:214, which would hang the core inside the interrupt, cannot happen.
FreeQueueHasRoom == Len(Returned) <= QueueSize

\* The renderer never draws into a buffer that the DMA is sending or is about
\* to send, nor may it get such a buffer: "two IRQs must go by before freeing"
\* (dvi.h:46-49).
NoTearing ==
  LET live == {BufferOf(dma_list), BufferOf(dma_sending)}
  IN  live \cap (Held \cup {q_tmds_free[i] : i \in DOMAIN q_tmds_free}) = {}

\* A scanline is shown in its own row or not at all, whatever was late before
\* ("it would be in the wrong vertical position on-screen", dvi.c:212).
InItsRow ==
  dma_list # NoBuf => /\ v_state = "ACTIVE"
                      /\ dma_list.line = (v_ctr - Border) \div 2

\* Each frame has exactly as many scanlines as the screen has rows, in every
\* mode, and although IFLAGS_DEBUG_LINES may change between its two parts.
FullFrame == phase = "start" /\ rows = 0 => line \in {0, Lines}

\* A row ends in one of two ways (dvi.c:228-240). Its second line shows a scanline,
\* the one of its first line unless that was blank, and nothing is late any more; or
\* both of its lines were blank and it counts as late. So no row that has begun is
\* broken off or counted, whatever else is skipped, and even if the emulation flag
\* changes there; one whose scanline comes between its two lines begins half a row late.
ShownOrLate ==
  [][ timing' # timing /\ SecondLine(v_ctr') /\ ~ BlankLine(v_state', v_ctr', FALSE)
        => \/ /\ dma_list' # NoBuf /\ dma_list \in {NoBuf, dma_list'}
              /\ late_scanline_ctr' = 0
           \/ /\ dma_list' = NoBuf /\ dma_list = NoBuf
              /\ late_scanline_ctr' > 0 ]_vars

\* The renderer never waits for ever: it finishes frame after frame, although
\* it holds up to two buffers while it waits for another one.
FramesFinish == []<>(phase = "start")
=============================================================================
