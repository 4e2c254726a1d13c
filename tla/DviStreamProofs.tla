-------------------------- MODULE DviStreamProofs ---------------------------
(***************************************************************************)
(* Proofs that the picture never shifts: each scanline is shown in its own *)
(* row, however late the renderer was, and the ring implements the line    *)
(* stream, for every screen geometry and every bound on lateness.  Then    *)
(* that lateness ends: a renderer that keeps the pace of PacedScanout gains*)
(* a line with every blank line, until no row is missing any more.         *)
(***************************************************************************)
EXTENDS DviScanoutProofs, DviRefinement, PacedInvariant

\* Scanlines are numbered per frame; rows are compared with them modulo a frame.
Congruent(a, b) == \E n \in Int : a = b + n * Lines

\* Rows of the picture that have passed.
RowsPast ==
  IF v_state # "ACTIVE" \/ v_ctr < Border THEN 0
  ELSE IF v_ctr >= Border + 2 * Lines THEN Lines
  ELSE (v_ctr + 1 - Border) \div 2

\* The scanlines in the queue follow one another, the late ones first, and then
\* comes the one that the renderer draws.
SequenceInv ==
  /\ \A i \in 1 .. Len(q_tmds_valid) :
       Congruent(q_tmds_valid[i].line, RowsPast - late_scanline_ctr + i - 1)
  /\ Congruent(line, RowsPast - late_scanline_ctr + Len(q_tmds_valid))

StreamInv == Inductive /\ SequenceInv /\ InItsRow

-----------------------------------------------------------------------------
(* Congruence.                                                             *)

\* A number of frames is an integer, and a frame more is its lines more.
LEMMA Frames ==
  ASSUME NEW n \in Int
  PROVE  n * Lines \in Int /\ (n + 1) * Lines = n * Lines + Lines
                           /\ (n - 1) * Lines = n * Lines - Lines
  BY Geometry

LEMMA CongruentShift ==
  ASSUME NEW a \in Int, NEW b \in Int, NEW c \in Int, Congruent(a, b)
  PROVE  Congruent(a + c, b + c)
<1>1. PICK n \in Int : a = b + n * Lines
  BY DEF Congruent
<1> DEFINE f == n * Lines
<1>2. f \in Int /\ a = b + f
  BY <1>1, Frames
<1> HIDE DEF f
<1>3. a + c = b + c + f
  BY <1>2
<1> QED
  BY <1>3 DEF Congruent, f

LEMMA CongruentFrame ==
  ASSUME NEW a \in Int, NEW b \in Int, Congruent(a, b)
  PROVE  Congruent(a - Lines, b) /\ Congruent(a, b - Lines)
<1>1. PICK n \in Int : a = b + n * Lines
  BY DEF Congruent
<1> DEFINE f == n * Lines
           g == (n - 1) * Lines
           h == (n + 1) * Lines
<1>2. f \in Int /\ a = b + f /\ g = f - Lines /\ h = f + Lines /\ Lines \in Int
  BY <1>1, Frames, Geometry
<1> HIDE DEF f, g, h
<1>3. a - Lines = b + g /\ a = b - Lines + h
  BY <1>2
<1>4. n - 1 \in Int /\ n + 1 \in Int
  OBVIOUS
<1> QED
  BY <1>3, <1>4 DEF Congruent, g, h

\* Two rows of the same frame that are congruent are the same.
LEMMA CongruentRows ==
  ASSUME NEW a \in 0 .. Lines - 1, NEW b \in 0 .. Lines - 1, Congruent(a, b)
  PROVE  a = b
<1>1. PICK n \in Int : a = b + n * Lines
  BY DEF Congruent
<1>2. Lines \in Nat \ {0}
  BY Geometry
<1>3. ASSUME n >= 1 PROVE n * Lines >= Lines
  <2>1. n \in Nat
    BY <1>3
  <2> QED
    BY <1>2, <1>3, <2>1, Multiples
<1>4. ASSUME n <= -1 PROVE n * Lines <= - Lines
  <2>1. - n \in Nat /\ - n >= 1
    BY <1>4
  <2>2. (- n) * Lines >= Lines
    BY <1>2, <2>1, Multiples
  <2>3. n * Lines = - ((- n) * Lines)
    BY <1>2
  <2> QED
    BY <1>2, <2>2, <2>3, Frames
<1>5. n = 0 => n * Lines = 0
  BY <1>2
<1>6. n >= 1 \/ n <= -1 \/ n = 0
  OBVIOUS
<1> DEFINE f == n * Lines
<1>7. f \in Int /\ a = b + f /\ (f >= Lines \/ f <= - Lines \/ f = 0)
  BY <1>1, <1>3, <1>4, <1>5, <1>6, Frames
<1> HIDE DEF f
<1> QED
  BY <1>2, <1>7

-----------------------------------------------------------------------------
(* The initial state and the renderer.                                     *)

LEMMA InitStream == Init => StreamInv
<1> SUFFICES ASSUME Init PROVE StreamInv
  OBVIOUS
<1>1. RowsPast = 0 /\ q_tmds_valid = << >> /\ Len(q_tmds_valid) = 0
      /\ late_scanline_ctr = 0 /\ line = 0
  BY DEF Init, RowsPast
<1>2. Congruent(0, 0)
  <2>1. 0 = 0 + 0 * Lines
    BY Geometry
  <2> QED
    BY <2>1 DEF Congruent
<1>3. 0 - 0 + 0 = 0
  OBVIOUS
<1>4. SequenceInv
  BY <1>1, <1>2, <1>3 DEF SequenceInv
<1>5. InItsRow
  BY DEF Init, InItsRow
<1> QED
  BY <1>4, <1>5, InitInductive DEF StreamInv

LEMMA RowsPastType == Inductive => RowsPast \in 0 .. Lines
<1> SUFFICES ASSUME Inductive PROVE RowsPast \in 0 .. Lines
  OBVIOUS
<1>1. v_ctr \in Nat /\ Border \in Nat /\ Lines \in Nat
  BY Geometry, GeometryAssumption DEF Inductive, TypeOK, Durations
<1> QED
  BY <1>1 DEF RowsPast

\* A scanline joins those that wait.
LEMMA SendSequence ==
  ASSUME StreamInv, row < rows, NEW b \in Buffers, Send(b)
  PROVE  SequenceInv' /\ InItsRow'
<1>1. line \in 0 .. Lines - 1
  BY LineAdvances DEF StreamInv
<1>2. /\ q_tmds_valid \in Seq(Scanline) /\ Len(q_tmds_valid) \in Nat
      /\ q_tmds_valid' = Append(q_tmds_valid, [buf |-> b, line |-> line])
      /\ line' = line + 1
      /\ UNCHANGED <<v_state, v_ctr, late_scanline_ctr, dma_list>>
  BY DEF Send, irqvars, StreamInv, Inductive, TypeOK
<1>3. RowsPast' = RowsPast /\ RowsPast \in Int /\ late_scanline_ctr \in Int
  BY <1>2, RowsPastType, BufferAssumption DEF RowsPast, StreamInv, Inductive, TypeOK
<1> DEFINE base == RowsPast - late_scanline_ctr
           len  == Len(q_tmds_valid)
<1>4. base \in Int /\ len \in Nat /\ base' = base
  BY <1>2, <1>3
<1>5. /\ Len(q_tmds_valid') = len + 1
      /\ \A i \in 1 .. len : q_tmds_valid'[i] = q_tmds_valid[i]
      /\ q_tmds_valid'[len + 1].line = line
  <2> DEFINE e == [buf |-> b, line |-> line]
  <2>1. e \in Scanline /\ e.line = line
    BY <1>1 DEF Scanline
  <2> HIDE DEF e
  <2>2. q_tmds_valid' = Append(q_tmds_valid, e)
    BY <1>2 DEF e
  <2> QED
    BY <1>2, <2>1, <2>2, AppendElements
<1>6. /\ \A i \in 1 .. len : Congruent(q_tmds_valid[i].line, base + i - 1)
      /\ Congruent(line, base + len)
  BY DEF StreamInv, SequenceInv
<1> HIDE DEF base, len
<1>7. \A i \in 1 .. len + 1 : Congruent(q_tmds_valid'[i].line, base + i - 1)
  <2>1. base + len = base + (len + 1) - 1
    BY <1>4
  <2>2. Congruent(q_tmds_valid'[len + 1].line, base + (len + 1) - 1)
    BY <1>5, <1>6, <2>1
  <2>3. \A i \in 1 .. len : Congruent(q_tmds_valid'[i].line, base + i - 1)
    BY <1>5, <1>6
  <2>4. \A i \in 1 .. len + 1 : i \in 1 .. len \/ i = len + 1
    BY <1>4
  <2> QED
    BY <2>2, <2>3, <2>4
<1>8. Congruent(line + 1, base + (len + 1))
  <2> DEFINE next == base + len
  <2>3. line \in Int /\ next \in Int /\ Congruent(line, next)
    BY <1>1, <1>4, <1>6
  <2> HIDE DEF next
  <2>4. Congruent(line + 1, next + 1)
    BY <2>3, CongruentShift
  <2>1. Congruent(line + 1, base + len + 1)
    BY <2>4 DEF next
  <2>2. base + len + 1 = base + (len + 1)
    BY <1>4
  <2> QED
    BY <2>1, <2>2
<1>9. SequenceInv'
  BY <1>2, <1>4, <1>5, <1>7, <1>8 DEF SequenceInv, base
<1>10. InItsRow'
  BY <1>2 DEF StreamInv, InItsRow
<1> QED
  BY <1>9, <1>10

\* A frame begins where another one ended.
LEMMA StartFrameSequence ==
  ASSUME StreamInv, StartFrame
  PROVE  SequenceInv' /\ InItsRow'
<1>1. line \in {0, Lines} /\ line' = 0
  BY DEF StartFrame, StreamInv, Inductive, LineInv
<1>2. UNCHANGED <<q_tmds_valid, v_state, v_ctr, late_scanline_ctr, dma_list>>
  BY DEF StartFrame, ring, irqvars
<1>3. RowsPast' = RowsPast /\ RowsPast - late_scanline_ctr + Len(q_tmds_valid) \in Int
  BY <1>2, RowsPastType, BufferAssumption DEF RowsPast, StreamInv, Inductive, TypeOK
<1>4. Congruent(0, RowsPast - late_scanline_ctr + Len(q_tmds_valid))
  <2> DEFINE next == RowsPast - late_scanline_ctr + Len(q_tmds_valid)
  <2>1. Congruent(line, next) /\ next \in Int
    BY <1>3 DEF StreamInv, SequenceInv
  <2> HIDE DEF next
  <2>2. Congruent(0, next)
    <3>1. Lines \in Int /\ Lines - Lines = 0
      BY Geometry
    <3>2. line = Lines => Congruent(Lines - Lines, next)
      BY <2>1, <3>1, CongruentFrame
    <3> QED
      BY <1>1, <2>1, <3>1, <3>2
  <2> QED
    BY <2>2 DEF next
<1>5. SequenceInv'
  BY <1>1, <1>2, <1>3, <1>4 DEF StreamInv, SequenceInv
<1> QED
  BY <1>2, <1>5 DEF StreamInv, InItsRow

\* What touches neither the scanlines nor the beam.
LEMMA SequenceStays ==
  ASSUME StreamInv,
         UNCHANGED <<q_tmds_valid, line, v_state, v_ctr, late_scanline_ctr, dma_list>>
  PROVE  SequenceInv' /\ InItsRow'
  BY DEF StreamInv, SequenceInv, RowsPast, InItsRow

LEMMA RendererStream == StreamInv /\ Renderer => SequenceInv' /\ InItsRow'
<1> SUFFICES ASSUME StreamInv, Renderer PROVE SequenceInv' /\ InItsRow'
  OBVIOUS
<1>1. CASE StartFrame
  BY <1>1, StartFrameSequence
<1>2. CASE StartBody \/ StartBottom \/ EndFrame \/ GetCell \/ GetLine
  BY <1>2, SequenceStays
  DEF StartBody, StartBottom, EndFrame, GetCell, GetLine, ring, irqvars
<1>3. CASE SendLine
  <2>1. work \in Buffers /\ row < rows /\ Send(work)
    BY <1>3 DEF SendLine, StreamInv, Inductive, TypeOK, RendererInv
  <2> QED
    BY <2>1, SendSequence
<1>4. CASE SendCell
  <2>1. cells # << >> /\ row < rows /\ Send(Head(cells))
    BY <1>4, Geometry
    DEF StreamInv, Inductive, TypeOK, SendCell, RendererInv, LacksCells, SendsOriginal
  <2>2. Head(cells) \in Buffers
    BY <2>1, TailElements DEF StreamInv, Inductive, TypeOK
  <2> QED
    BY <2>1, <2>2, SendSequence
<1> QED
  BY <1>1, <1>2, <1>3, <1>4 DEF Renderer

-----------------------------------------------------------------------------
(* The interrupt.                                                          *)

\* In the picture a row ends with each odd line; elsewhere no row passes, but
\* for the beginning of another frame.
LEMMA RowsPass ==
  ASSUME Inductive, dvi_timing_state_advance
  PROVE  /\ InPicture' /\ v_ctr' % 2 = 1 => RowsPast' = RowsPast + 1
         /\ ~ (InPicture' /\ v_ctr' % 2 = 1) =>
              RowsPast' = RowsPast \/ (RowsPast = Lines /\ RowsPast' = 0)
         /\ InPicture' => /\ RowsPast = (v_ctr' - Border) \div 2
                          /\ RowsPast \in 0 .. Lines - 1
<1>1. /\ v_ctr \in Nat /\ v_state \in DOMAIN Durations
      /\ v_ctr < Durations[v_state] /\ Durations["ACTIVE"] = 2 * Lines + 2 * Border
      /\ Lines \in Nat \ {0} /\ Border \in Nat /\ Border % 2 = 0
  BY Geometry, GeometryAssumption DEF Inductive, TypeOK, Durations
<1>2. CASE v_state = "ACTIVE" /\ v_ctr + 1 # Durations["ACTIVE"]
  <2>1. v_state' = "ACTIVE" /\ v_ctr' = v_ctr + 1
    BY <1>2 DEF dvi_timing_state_advance
  <2>2. CASE v_ctr' < Border
    BY <1>1, <1>2, <2>1, <2>2 DEF RowsPast, InPicture
  <2>3. CASE v_ctr' >= Border /\ v_ctr' < Border + 2 * Lines
    <3>1. PICK c \in Int : Border = 2 * c
      <4>1. Border = 2 * (Border \div 2)
        BY <1>1
      <4> QED
        BY <1>1, <4>1
    <3>2. RowsPast = (v_ctr' - Border) \div 2
      BY <1>1, <1>2, <2>1, <2>3, <3>1 DEF RowsPast
    <3>3. RowsPast' = (v_ctr' + 1 - Border) \div 2
      BY <1>1, <2>1, <2>3 DEF RowsPast
    <3> QED
      BY <1>1, <2>1, <2>3, <3>1, <3>2, <3>3 DEF InPicture
  <2>4. CASE v_ctr' >= Border + 2 * Lines
    <3>1. RowsPast' = Lines /\ ~ InPicture'
      BY <1>1, <2>1, <2>4 DEF RowsPast, InPicture
    <3>2. RowsPast = Lines
      <4>1. CASE v_ctr >= Border + 2 * Lines
        BY <1>1, <1>2, <4>1 DEF RowsPast
      <4>2. CASE v_ctr + 1 = Border + 2 * Lines
        <5>1. RowsPast = (v_ctr + 1 - Border) \div 2
          BY <1>1, <1>2, <4>2 DEF RowsPast
        <5>2. v_ctr + 1 - Border = 2 * Lines
          BY <1>1, <4>2
        <5> QED
          BY <1>1, <5>1, <5>2
      <4> QED
        BY <1>1, <2>1, <2>4, <4>1, <4>2
    <3> QED
      BY <3>1, <3>2
  <2> QED
    BY <1>1, <2>1, <2>2, <2>3, <2>4
<1>3. CASE v_state = "ACTIVE" /\ v_ctr + 1 = Durations["ACTIVE"]
  <2>1. v_state' = "FRONT_PORCH" /\ v_ctr' = 0
    BY <1>3 DEF dvi_timing_state_advance, FollowedBy
  <2>2. RowsPast' = 0 /\ ~ InPicture'
    BY <2>1 DEF RowsPast, InPicture
  <2>3. RowsPast = Lines
    <3>1. v_ctr + 1 = 2 * Lines + 2 * Border
      BY <1>1, <1>3
    <3>2. CASE Border = 0
      <4>1. RowsPast = (v_ctr + 1 - Border) \div 2 /\ v_ctr + 1 - Border = 2 * Lines
        BY <1>1, <1>3, <3>1, <3>2 DEF RowsPast
      <4> QED
        BY <1>1, <4>1
    <3>3. CASE Border # 0
      BY <1>1, <1>3, <3>1, <3>3 DEF RowsPast
    <3> QED
      BY <3>2, <3>3
  <2> QED
    BY <2>2, <2>3
<1>4. CASE v_state # "ACTIVE"
  <2>1. RowsPast = 0
    BY <1>4 DEF RowsPast
  <2>2. CASE v_state' # "ACTIVE"
    BY <2>1, <2>2 DEF RowsPast, InPicture
  <2>3. CASE v_state' = "ACTIVE"
    <3>1. v_ctr' = 0
      BY <1>1, <1>4, <2>3 DEF dvi_timing_state_advance
    <3> QED
      BY <1>1, <2>1, <2>3, <3>1 DEF RowsPast, InPicture
  <2> QED
    BY <2>2, <2>3
<1> QED
  BY <1>2, <1>3, <1>4

\* Skipping late scanlines keeps them in step with the rows.
LEMMA OnTimeSequence ==
  ASSUME StreamInv
  PROVE  /\ \A i \in 1 .. Len(OnTime) : Congruent(OnTime[i].line, RowsPast - LateLeft + i - 1)
         /\ Congruent(line, RowsPast - LateLeft + Len(OnTime))
         /\ RowsPast - LateLeft \in Int
<1>1. /\ Skipped \in 0 .. Len(q_tmds_valid) /\ Len(q_tmds_valid) \in Nat
      /\ Len(OnTime) = Len(q_tmds_valid) - Skipped
      /\ \A i \in 1 .. Len(OnTime) : OnTime[i] = q_tmds_valid[Skipped + i]
  BY SkippedLines DEF StreamInv, Inductive, TypeOK
<1>2. late_scanline_ctr \in Int /\ RowsPast \in Int /\ LateLeft = late_scanline_ctr - Skipped
  BY RowsPastType, BufferAssumption DEF StreamInv, Inductive, TypeOK, LateLeft
<1> HIDE DEF Skipped, OnTime, LateLeft, RowsPast
<1>3. ASSUME NEW i \in 1 .. Len(OnTime)
      PROVE  Congruent(OnTime[i].line, RowsPast - LateLeft + i - 1)
  <2>1. Skipped + i \in 1 .. Len(q_tmds_valid)
    BY <1>1
  <2>2. Congruent(q_tmds_valid[Skipped + i].line,
                  RowsPast - late_scanline_ctr + (Skipped + i) - 1)
    BY <2>1 DEF StreamInv, SequenceInv
  <2>3. RowsPast - late_scanline_ctr + (Skipped + i) - 1 = RowsPast - LateLeft + i - 1
    BY <1>1, <1>2
  <2> QED
    BY <1>1, <2>2, <2>3
<1>4. Congruent(line, RowsPast - LateLeft + Len(OnTime))
  <2>1. RowsPast - late_scanline_ctr + Len(q_tmds_valid) = RowsPast - LateLeft + Len(OnTime)
    BY <1>1, <1>2
  <2> QED
    BY <2>1 DEF StreamInv, SequenceInv
<1>5. RowsPast - LateLeft \in Int
  BY <1>1, <1>2
<1> QED
  BY <1>3, <1>4, <1>5

\* As long as no scanline is taken and no row passes.
LEMMA SequenceKept ==
  ASSUME StreamInv, line' = line, q_tmds_valid' = OnTime, late_scanline_ctr' = LateLeft,
         RowsPast' = RowsPast \/ (RowsPast = Lines /\ RowsPast' = 0)
  PROVE  SequenceInv'
<1>1. /\ \A i \in 1 .. Len(OnTime) : Congruent(OnTime[i].line, RowsPast - LateLeft + i - 1)
      /\ Congruent(line, RowsPast - LateLeft + Len(OnTime))
      /\ OnTime \in Seq(Scanline) /\ LateLeft \in Int /\ RowsPast \in Int
      /\ line \in Int /\ Lines \in Int
  BY OnTimeSequence, RowsPastType, SkippedLines, BufferAssumption, Geometry
  DEF StreamInv, Inductive, TypeOK
<1>2. \A i \in 1 .. Len(OnTime) : OnTime[i].line \in Int
  <2>1. \A e \in Scanline : e.line \in Int
    BY Geometry DEF Scanline
  <2> QED
    BY <1>1, <2>1
<1>3. CASE RowsPast' = RowsPast
  BY <1>1, <1>3 DEF SequenceInv
<1>4. CASE RowsPast = Lines /\ RowsPast' = 0
  <2>1. ASSUME NEW i \in 1 .. Len(OnTime)
        PROVE  Congruent(OnTime[i].line, 0 - LateLeft + i - 1)
    <3> DEFINE a == OnTime[i].line
               b == RowsPast - LateLeft + i - 1
    <3>1. Congruent(a, b) /\ a \in Int /\ b \in Int /\ b - Lines = 0 - LateLeft + i - 1
      BY <1>1, <1>2, <1>4
    <3> HIDE DEF a, b
    <3>2. Congruent(a, b - Lines)
      BY <3>1, CongruentFrame
    <3> QED
      BY <3>1, <3>2 DEF a
  <2>2. Congruent(line, 0 - LateLeft + Len(OnTime))
    <3> DEFINE b == RowsPast - LateLeft + Len(OnTime)
    <3>1. Congruent(line, b) /\ b \in Int /\ b - Lines = 0 - LateLeft + Len(OnTime)
      BY <1>1, <1>4
    <3> HIDE DEF b
    <3>2. Congruent(line, b - Lines)
      BY <1>1, <3>1, CongruentFrame
    <3> QED
      BY <3>1, <3>2
  <2> QED
    BY <1>4, <2>1, <2>2 DEF SequenceInv
<1> QED
  BY <1>3, <1>4

\* The next line is in the picture.
LEMMA InPictureNext ==
  InPicture' <=> /\ v_state' = "ACTIVE" /\ v_ctr' >= Border
                 /\ v_ctr' < Border + 2 * Lines
  BY DEF InPicture

LEMMA Parity == \A n \in Nat : n % 2 \in {0, 1}
  OBVIOUS

\* A line with a picture.
LEMMA PictureLine ==
  ASSUME Inductive, IrqPrologue, ~ BlankLine(v_state', v_ctr', scanline_emulation)
  PROVE  InPicture' /\ v_ctr' \in Nat /\ v_ctr' % 2 \in {0, 1}
<1>1. v_ctr' \in Nat
  BY TimingAdvances, Geometry, GeometryAssumption DEF Inductive, IrqPrologue, Durations
<1>2. /\ v_state' = "ACTIVE" /\ ~ (v_ctr' < Border)
      /\ ~ (v_ctr' >= Border + 2 * Lines)
  BY DEF BlankLine
<1>3. Border \in Nat /\ Lines \in Nat
  BY Geometry
<1>4. InPicture'
  BY <1>1, <1>2, <1>3, InPictureNext
<1>5. v_ctr' % 2 \in {0, 1}
  BY <1>1, Parity, Zenon
<1> QED
  BY <1>1, <1>4, <1>5

\* The scanline that is shown is that of the row.
LEMMA HeadInItsRow ==
  ASSUME StreamInv, IrqPrologue, ~ BlankLine(v_state', v_ctr', scanline_emulation),
         OnTime # << >>, dma_list' = Head(OnTime)
  PROVE  InItsRow'
<1>1. InPicture' /\ RowsPast = (v_ctr' - Border) \div 2 /\ RowsPast \in 0 .. Lines - 1
  BY PictureLine, RowsPass DEF StreamInv, IrqPrologue
<1>2. /\ LateLeft = 0 /\ OnTime \in Seq(Scanline) /\ Len(OnTime) >= 1
      /\ Head(OnTime) = OnTime[1] /\ OnTime[1] \in Scanline
  BY SkippedLines DEF StreamInv
<1>3. OnTime[1].line \in 0 .. Lines - 1
  BY <1>2 DEF Scanline
<1>4. Congruent(OnTime[1].line, RowsPast - LateLeft + 1 - 1)
  BY <1>2, OnTimeSequence
<1>5. RowsPast - LateLeft + 1 - 1 = RowsPast
  BY <1>1, <1>2
<1>6. OnTime[1].line = RowsPast
  BY <1>1, <1>3, <1>4, <1>5, CongruentRows
<1> QED
  BY <1>1, <1>2, <1>6 DEF InItsRow, InPicture

LEMMA IrqBlankStream == StreamInv /\ IrqBlank => SequenceInv' /\ InItsRow'
<1> SUFFICES ASSUME StreamInv, IrqBlank PROVE SequenceInv' /\ InItsRow'
  OBVIOUS
<1>1. /\ Inductive /\ dvi_timing_state_advance /\ line' = line /\ q_tmds_valid' = OnTime
      /\ late_scanline_ctr' = LateLeft /\ dma_list' = NoBuf
  BY DEF IrqBlank, IrqPrologue, renderer, StreamInv
<1>2. ~ (InPicture' /\ v_ctr' % 2 = 1)
  <2>1. v_ctr' \in Int
    BY <1>1, TimingAdvances, Geometry, GeometryAssumption DEF Inductive, Durations
  <2>2. ASSUME v_state' # "ACTIVE" \/ v_ctr' < Border \/ v_ctr' >= Border + 2 * Lines
        PROVE  ~ InPicture'
    <3>1. Border \in Nat /\ Lines \in Nat
      BY Geometry
    <3> QED
      BY <2>1, <2>2, <3>1, InPictureNext
  <2>3. ASSUME v_ctr' % 2 = 0
        PROVE  v_ctr' % 2 # 1
    <3>1. 0 # 1
      OBVIOUS
    <3> QED
      BY <2>3, <3>1, Zenon
  <2> QED
    BY <2>2, <2>3, Zenon DEF IrqBlank, BlankLine
<1>3. RowsPast' = RowsPast \/ (RowsPast = Lines /\ RowsPast' = 0)
  BY <1>1, <1>2, RowsPass
<1> QED
  BY <1>1, <1>3, SequenceKept DEF InItsRow

LEMMA IrqPeekStream == StreamInv /\ IrqPeek => SequenceInv' /\ InItsRow'
<1> SUFFICES ASSUME StreamInv, IrqPeek PROVE SequenceInv' /\ InItsRow'
  OBVIOUS
<1>1. /\ Inductive /\ IrqPrologue /\ dvi_timing_state_advance /\ line' = line
      /\ q_tmds_valid' = OnTime /\ late_scanline_ctr' = LateLeft
      /\ ~ BlankLine(v_state', v_ctr', scanline_emulation) /\ v_ctr' % 2 # 1
      /\ OnTime # << >> /\ dma_list' = Head(OnTime)
  BY DEF IrqPeek, IrqPrologue, renderer, StreamInv, SecondLine
<1>2. RowsPast' = RowsPast \/ (RowsPast = Lines /\ RowsPast' = 0)
  BY <1>1, RowsPass
<1> QED
  BY <1>1, <1>2, SequenceKept, HeadInItsRow

LEMMA IrqTakeStream == StreamInv /\ IrqTake => SequenceInv' /\ InItsRow'
<1> SUFFICES ASSUME StreamInv, IrqTake PROVE SequenceInv' /\ InItsRow'
  OBVIOUS
<1>1. /\ Inductive /\ IrqPrologue /\ dvi_timing_state_advance /\ line' = line
      /\ q_tmds_valid' = Tail(OnTime) /\ late_scanline_ctr' = LateLeft
      /\ ~ BlankLine(v_state', v_ctr', scanline_emulation) /\ v_ctr' % 2 = 1
      /\ OnTime # << >> /\ dma_list' = Head(OnTime)
  BY DEF IrqTake, IrqPrologue, renderer, StreamInv, SecondLine
<1>2. RowsPast' = RowsPast + 1
  BY <1>1, PictureLine, RowsPass
<1>3. /\ OnTime \in Seq(Scanline) /\ LateLeft \in Int /\ RowsPast \in Int /\ Len(OnTime) \in Nat
      /\ \A i \in 1 .. Len(OnTime) : Congruent(OnTime[i].line, RowsPast - LateLeft + i - 1)
      /\ Congruent(line, RowsPast - LateLeft + Len(OnTime))
  BY <1>1, OnTimeSequence, RowsPastType, SkippedLines, BufferAssumption DEF StreamInv
<1>4. /\ Len(q_tmds_valid') = Len(OnTime) - 1
      /\ \A i \in 1 .. Len(q_tmds_valid') : q_tmds_valid'[i] = OnTime[i + 1]
  BY <1>1, <1>3, TailElements
<1> HIDE DEF OnTime, LateLeft, RowsPast
<1>5. ASSUME NEW i \in 1 .. Len(q_tmds_valid')
      PROVE  Congruent(q_tmds_valid'[i].line, RowsPast' - late_scanline_ctr' + i - 1)
  <2>1. Congruent(OnTime[i + 1].line, RowsPast - LateLeft + (i + 1) - 1)
    BY <1>3, <1>4
  <2>2. RowsPast - LateLeft + (i + 1) - 1 = RowsPast' - late_scanline_ctr' + i - 1
    BY <1>1, <1>2, <1>3
  <2> QED
    BY <1>4, <2>1, <2>2
<1>6. Congruent(line, RowsPast' - late_scanline_ctr' + Len(q_tmds_valid'))
  <2>1. RowsPast - LateLeft + Len(OnTime) = RowsPast' - late_scanline_ctr' + Len(q_tmds_valid')
    BY <1>1, <1>2, <1>3, <1>4
  <2> QED
    BY <1>3, <2>1
<1>7. SequenceInv'
  BY <1>1, <1>5, <1>6 DEF SequenceInv
<1> QED
  BY <1>1, <1>7, HeadInItsRow

LEMMA IrqMissingStream == StreamInv /\ IrqMissing => SequenceInv' /\ InItsRow'
<1> SUFFICES ASSUME StreamInv, IrqMissing PROVE SequenceInv' /\ InItsRow'
  OBVIOUS
<1>1. /\ Inductive /\ IrqPrologue /\ dvi_timing_state_advance /\ line' = line
      /\ q_tmds_valid' = OnTime /\ OnTime = << >> /\ dma_list' = NoBuf
      /\ ~ BlankLine(v_state', v_ctr', scanline_emulation)
      /\ late_scanline_ctr' = IF v_ctr' % 2 = 1 THEN LateLeft + 1 ELSE LateLeft
  BY DEF IrqMissing, IrqPrologue, renderer, StreamInv, SecondLine
<1>2. CASE v_ctr' % 2 # 1
  <2>1. RowsPast' = RowsPast \/ (RowsPast = Lines /\ RowsPast' = 0)
    BY <1>1, <1>2, RowsPass
  <2> QED
    BY <1>1, <1>2, <2>1, SequenceKept DEF InItsRow
<1>3. CASE v_ctr' % 2 = 1
  <2>1. RowsPast' = RowsPast + 1 /\ late_scanline_ctr' = LateLeft + 1
    BY <1>1, <1>3, PictureLine, RowsPass
  <2>2. /\ LateLeft \in Int /\ RowsPast \in Int /\ Len(OnTime) = 0
        /\ Congruent(line, RowsPast - LateLeft + Len(OnTime))
    BY <1>1, OnTimeSequence, RowsPastType, SkippedLines, BufferAssumption DEF StreamInv
  <2> HIDE DEF OnTime, LateLeft, RowsPast
  <2>3. RowsPast - LateLeft + Len(OnTime) = RowsPast' - late_scanline_ctr' + Len(q_tmds_valid')
    BY <1>1, <2>1, <2>2
  <2>4. Congruent(line', RowsPast' - late_scanline_ctr' + Len(q_tmds_valid'))
    BY <1>1, <2>2, <2>3
  <2>5. Len(q_tmds_valid') = 0
    BY <1>1, <2>2
  <2>6. SequenceInv'
    BY <2>4, <2>5 DEF SequenceInv
  <2> QED
    BY <1>1, <2>6 DEF InItsRow
<1> QED
  BY <1>2, <1>3

-----------------------------------------------------------------------------
(* The theorems.                                                           *)

LEMMA NextInductive == Inductive /\ [Next]_vars => Inductive'
  BY StartFrameInductive, StartBodyInductive, StartBottomInductive, EndFrameInductive,
     GetCellInductive, GetLineInductive, SendLineInductive, SendCellInductive,
     IrqBlankInductive, IrqPeekInductive, IrqTakeInductive, IrqMissingInductive,
     StutterInductive
  DEF Next, Renderer, Irq

\* The scanlines in the queue follow one another, in step with the rows that have passed
\* and those that were late, in every reachable state (dvi.c:210-216).
THEOREM ScanlinesInSequence == Spec => []StreamInv
<1>1. StreamInv /\ [Next]_vars => StreamInv'
  <2> SUFFICES ASSUME StreamInv, [Next]_vars PROVE SequenceInv' /\ InItsRow'
    BY NextInductive DEF StreamInv
  <2>1. CASE Renderer
    BY <2>1, RendererStream
  <2>2. CASE Irq
    BY <2>2, IrqBlankStream, IrqPeekStream, IrqTakeStream, IrqMissingStream DEF Irq
  <2>3. CASE UNCHANGED vars
    BY <2>3, SequenceStays DEF vars, ring, irqvars, renderer
  <2> QED
    BY <2>1, <2>2, <2>3 DEF Next
<1> QED
  BY InitStream, <1>1, PTL DEF Spec

\* A scanline is shown in its own row or not at all, however many were late, and
\* however many pictures ago (dvi.c:212).
THEOREM RowsInPlace == Spec => []InItsRow
<1>1. StreamInv => InItsRow
  BY DEF StreamInv
<1> QED
  BY <1>1, ScanlinesInSequence, PTL

-----------------------------------------------------------------------------
(* The refinement: the ring implements the line stream.                    *)

Period == 2 * Lines + 2 * Border + (VFrontPorch + VSyncWidth + VBackPorch)

LEMMA Modulo ==
  ASSUME NEW h \in Nat \ {0}, NEW n \in 0 .. h
  PROVE  n % h = IF n = h THEN 0 ELSE n
<1>1. n # h => n % h = n
  OBVIOUS
<1>2. h % h = 0
  OBVIOUS
<1> QED
  BY <1>1, <1>2

\* Porches and sync follow the picture, and then comes the next one.
LEMMA BeamType ==
  Inductive => beam \in 0 .. Period - 1 /\ Period \in Nat \ {0}
<1> SUFFICES ASSUME Inductive PROVE beam \in 0 .. Period - 1 /\ Period \in Nat \ {0}
  OBVIOUS
<1>1. /\ Lines \in Nat \ {0} /\ Border \in Nat
      /\ VFrontPorch \in Nat \ {0} /\ VSyncWidth \in Nat \ {0} /\ VBackPorch \in Nat \ {0}
  BY Geometry, GeometryAssumption
<1>2. v_state \in {"FRONT_PORCH", "SYNC", "BACK_PORCH", "ACTIVE"}
      /\ v_ctr \in 0 .. Durations[v_state] - 1
  BY DEF Inductive, TypeOK, Durations
<1> QED
  BY <1>1, <1>2 DEF beam, Period, Durations

LEMMA BeamAdvances ==
  ASSUME Inductive, dvi_timing_state_advance
  PROVE  beam' = (beam + 1) % Period
<1>1. /\ Lines \in Nat \ {0} /\ Border \in Nat
      /\ VFrontPorch \in Nat \ {0} /\ VSyncWidth \in Nat \ {0} /\ VBackPorch \in Nat \ {0}
  BY Geometry, GeometryAssumption
<1>2. v_state \in {"FRONT_PORCH", "SYNC", "BACK_PORCH", "ACTIVE"}
      /\ v_ctr \in 0 .. Durations[v_state] - 1
  BY DEF Inductive, TypeOK, Durations
<1>3. beam' = IF beam + 1 = Period THEN 0 ELSE beam + 1
  <2>1. CASE v_ctr + 1 # Durations[v_state]
    <3>1. v_state' = v_state /\ v_ctr' = v_ctr + 1
      BY <2>1 DEF dvi_timing_state_advance
    <3> QED
      BY <1>1, <1>2, <2>1, <3>1 DEF beam, Period, Durations
  <2>2. CASE v_ctr + 1 = Durations[v_state]
    <3>1. v_state' = FollowedBy[v_state] /\ v_ctr' = 0
      BY <2>2 DEF dvi_timing_state_advance
    <3> QED
      BY <1>1, <1>2, <2>2, <3>1 DEF beam, Period, Durations, FollowedBy
  <2> QED
    BY <2>1, <2>2
<1>4. beam + 1 \in 0 .. Period /\ Period \in Nat \ {0}
  BY BeamType
<1>5. (beam + 1) % Period = IF beam + 1 = Period THEN 0 ELSE beam + 1
  BY <1>4, Modulo
<1> QED
  BY <1>3, <1>5

\* The ring and the stream agree on which lines have a picture.
LEMMA BeamInPicture ==
  Inductive => /\ Stream!InPicture(beam) <=> InPicture
               /\ InPicture => beam = v_ctr
<1> SUFFICES ASSUME Inductive
             PROVE  /\ Stream!InPicture(beam) <=> InPicture
                    /\ InPicture => beam = v_ctr
  OBVIOUS
<1>1. /\ Lines \in Nat \ {0} /\ Border \in Nat
      /\ VFrontPorch \in Nat \ {0} /\ VSyncWidth \in Nat \ {0} /\ VBackPorch \in Nat \ {0}
  BY Geometry, GeometryAssumption
<1>2. v_state \in {"FRONT_PORCH", "SYNC", "BACK_PORCH", "ACTIVE"}
      /\ v_ctr \in 0 .. Durations[v_state] - 1
  BY DEF Inductive, TypeOK, Durations
<1> QED
  BY <1>1, <1>2 DEF beam, InPicture, Stream!InPicture, Durations

LEMMA BeamInPictureNext ==
  Inductive' => /\ Stream!InPicture(beam') <=> InPicture'
                /\ InPicture' => beam' = v_ctr'
<1>1. (Inductive => /\ Stream!InPicture(beam) <=> InPicture
                    /\ InPicture => beam = v_ctr)'
  BY BeamInPicture, PTL
<1> QED
  BY <1>1 DEF Stream!InPicture

LEMMA InitRefines == Init => Stream!StreamInit
<1> SUFFICES ASSUME Init PROVE Stream!StreamInit
  OBVIOUS
<1>1. beam = 2 * Lines + 2 * Border
  <2>1. v_state = "FRONT_PORCH" /\ v_ctr = 0
    BY DEF Init
  <2>2. Lines \in Nat /\ Border \in Nat
    BY Geometry
  <2> QED
    BY <2>1, <2>2 DEF beam, Durations
<1>2. Len(q_tmds_valid) = 0 /\ lead = 0
  BY DEF Init, lead
<1>3. shown = NoBuf /\ scanline_emulation = TRUE
  BY DEF Init, shown
<1> QED
  BY <1>1, <1>2, <1>3 DEF Stream!StreamInit

\* A scanline that is sent is delivered.
LEMMA SendRefines ==
  ASSUME Inductive, row < rows, NEW b \in Buffers, Send(b)
  PROVE  Stream!Deliver
<1>1. line \in 0 .. Lines - 1
  BY LineAdvances
<1>2. Len(q_tmds_valid') = Len(q_tmds_valid) + 1 /\ Len(q_tmds_valid) \in Nat
      /\ late_scanline_ctr \in Nat
  BY <1>1, SendAppends, BufferAssumption DEF Inductive, TypeOK
<1>3. /\ UNCHANGED <<v_state, v_ctr, late_scanline_ctr, dma_list, scanline_emulation>>
      /\ Len(q_tmds_valid) < QueueSize
  BY DEF Send, irqvars
<1>4. beam' = beam /\ shown' = shown
  BY <1>3 DEF beam, shown
<1>5. lead < QueueSize /\ lead' = lead + 1
  BY <1>2, <1>3, BufferAssumption DEF lead
<1> QED
  BY <1>3, <1>4, <1>5 DEF Stream!Deliver

\* The monitor does not see what touches neither the scanlines nor the beam.
LEMMA StreamStays ==
  ASSUME UNCHANGED <<q_tmds_valid, v_state, v_ctr, late_scanline_ctr, dma_list,
                     scanline_emulation>>
  PROVE  UNCHANGED Stream!svars
  BY DEF beam, shown, lead, Stream!svars

LEMMA RendererRefines ==
  StreamInv /\ Renderer => Stream!StreamNext \/ UNCHANGED Stream!svars
<1> SUFFICES ASSUME StreamInv, Renderer
             PROVE  Stream!StreamNext \/ UNCHANGED Stream!svars
  OBVIOUS
<1>1. CASE StartFrame \/ StartBody \/ StartBottom \/ GetCell \/ GetLine
  BY <1>1, StreamStays
  DEF StartFrame, StartBody, StartBottom, GetCell, GetLine, ring, irqvars
<1>2. CASE EndFrame
  <2>1. /\ UNCHANGED <<q_tmds_valid, v_state, v_ctr, late_scanline_ctr, dma_list>>
        /\ scanline_emulation' \in BOOLEAN
    BY <1>2 DEF EndFrame, ring, irqvars
  <2>2. beam' = beam /\ shown' = shown /\ lead' = lead
    BY <2>1 DEF beam, shown, lead
  <2>3. Stream!Switch
    BY <2>1, <2>2 DEF Stream!Switch
  <2> QED
    BY <2>3 DEF Stream!StreamNext
<1>3. CASE SendLine
  <2>1. work \in Buffers /\ row < rows /\ Send(work) /\ Inductive
    BY <1>3 DEF SendLine, StreamInv, Inductive, TypeOK, RendererInv
  <2> QED
    BY <2>1, SendRefines DEF Stream!StreamNext
<1>4. CASE SendCell
  <2>1. cells # << >> /\ row < rows /\ Send(Head(cells)) /\ Inductive
    BY <1>4, Geometry
    DEF StreamInv, Inductive, TypeOK, SendCell, RendererInv, LacksCells, SendsOriginal
  <2>2. Head(cells) \in Buffers
    BY <2>1, TailElements DEF StreamInv, Inductive, TypeOK
  <2> QED
    BY <2>1, <2>2, SendRefines DEF Stream!StreamNext
<1> QED
  BY <1>1, <1>2, <1>3, <1>4 DEF Renderer

\* The scanline that is shown is that of its row.
LEMMA HeadShown ==
  ASSUME Inductive, OnTime # << >>, dma_list' = Head(OnTime), InItsRow'
  PROVE  shown' = (v_ctr' - Border) \div 2
<1>1. OnTime \in Seq(Scanline)
  BY SkippedLines
<1>2. dma_list' # NoBuf
  BY <1>1, TailElements, BlankAssumption
<1> QED
  BY <1>2 DEF InItsRow, shown

\* A row ends with its scanline, and with nothing late; or none of it was shown, and it
\* counts as late (dvi.c:228-240).
THEOREM RowsEnd == Spec => ShownOrLate
<1> DEFINE Shown  == dma_list' # NoBuf /\ dma_list \in {NoBuf, dma_list'}
                       /\ late_scanline_ctr' = 0
           Missed == dma_list' = NoBuf /\ dma_list = NoBuf /\ late_scanline_ctr' > 0
           Ends   == timing' # timing /\ SecondLine(v_ctr')
                       /\ ~ BlankLine(v_state', v_ctr', FALSE)
<1>1. Inductive /\ [Next]_vars => [Ends => Shown \/ Missed]_vars
  <2> SUFFICES ASSUME Inductive, Next, Ends PROVE Shown \/ Missed
    OBVIOUS
  <2>1. ~ Renderer
    BY DEF Renderer, StartFrame, StartBody, StartBottom, EndFrame, GetCell, GetLine,
           SendLine, SendCell, Send, irqvars, timing
  <2>2. Irq /\ IrqPrologue
    BY <2>1 DEF Next, Irq, IrqBlank, IrqPeek, IrqTake, IrqMissing
  <2>3. SecondLine(v_ctr') /\ ~ BlankLine(v_state', v_ctr', scanline_emulation)
    BY DEF BlankLine, SecondLine
  <2>4. v_ctr \in Nat /\ v_ctr' = v_ctr + 1 /\ v_ctr % 2 = 0
    <3>1. TypeOK /\ dvi_timing_state_advance
      BY <2>2 DEF Inductive, IrqPrologue
    <3>2. v_ctr' # 0
      BY <2>3 DEF SecondLine
    <3>3. v_ctr \in Nat /\ v_ctr' = v_ctr + 1
      BY <3>1, <3>2, Geometry, GeometryAssumption
      DEF TypeOK, Durations, dvi_timing_state_advance
    <3> QED
      BY <2>3, <3>3 DEF SecondLine
  <2>5. CASE IrqTake
    <3>1. dma_list' = Head(OnTime) /\ OnTime # << >> /\ late_scanline_ctr' = 0
      BY <2>5, SkippedLines DEF IrqTake
    <3>2. dma_list' # NoBuf
      BY <3>1, SkippedLines, BlankAssumption, TailElements
    <3>3. dma_list \in {NoBuf, dma_list'}
      BY <2>2, <2>4, <3>1, SecondLineFollows
    <3> QED
      BY <3>1, <3>2, <3>3
  <2>6. CASE IrqMissing
    <3>1. dma_list' = NoBuf /\ OnTime = << >> /\ late_scanline_ctr' = LateLeft + 1
      BY <2>3, <2>6 DEF IrqMissing
    <3>2. dma_list = NoBuf
      BY <2>2, <2>4, <3>1, SecondLineFollows
    <3> QED
      BY <3>1, <3>2, SkippedLines
  <2> QED
    BY <2>2, <2>3, <2>5, <2>6 DEF Irq, IrqBlank, IrqPeek
<1> QED BY <1>1, InductiveInvariant, PTL DEF Spec, ShownOrLate

\* What the interrupt shows, and how it counts, is a step of the stream.
LEMMA IrqRefines == StreamInv /\ StreamInv' /\ Irq => Stream!Scan
<1> SUFFICES ASSUME StreamInv, StreamInv', Irq PROVE Stream!Scan
  OBVIOUS
<1> DEFINE len  == Len(OnTime)
           ends == v_ctr' % 2 = 1
<1>1. /\ IrqPrologue /\ dvi_timing_state_advance /\ UNCHANGED scanline_emulation
      /\ Inductive /\ Inductive' /\ InItsRow'
  BY DEF Irq, IrqBlank, IrqPeek, IrqTake, IrqMissing, IrqPrologue, StreamInv
<1>2. beam' = (beam + 1) % Stream!Height
  BY <1>1, BeamAdvances DEF Period, Stream!Height
<1>3. /\ Stream!InPicture(beam') <=> InPicture'
      /\ InPicture' => beam' = v_ctr'
  BY <1>1, BeamInPictureNext
<1>4. /\ len \in Nat /\ LateLeft \in 0 .. MaxLate /\ (OnTime = << >> <=> len = 0)
      /\ OnTime # << >> => LateLeft = 0
      /\ lead = len - LateLeft
      /\ Len(q_tmds_valid) \in Nat
  <2>1. /\ OnTime \in Seq(Scanline) /\ LateLeft \in 0 .. MaxLate
        /\ len = Len(q_tmds_valid) - Skipped /\ Skipped \in 0 .. Len(q_tmds_valid)
        /\ OnTime # << >> => LateLeft = 0
    BY <1>1, SkippedLines
  <2>2. LateLeft = late_scanline_ctr - Skipped /\ late_scanline_ctr \in Int
        /\ Len(q_tmds_valid) \in Nat
    BY <1>1, BufferAssumption DEF LateLeft, Inductive, TypeOK
  <2>3. len \in Nat /\ (OnTime = << >> <=> len = 0)
    BY <2>1
  <2> QED
    BY <2>1, <2>2, <2>3 DEF lead
<1>5. /\ Stream!EndsRow(beam') <=> beam' % 2 = 1
      /\ InPicture' => Stream!Row(beam') = (v_ctr' - Border) \div 2
  BY <1>3 DEF Stream!EndsRow, Stream!Row
<1>6. MaxLate \in Nat
  BY BufferAssumption
<1> HIDE DEF len, ends
<1>7. CASE IrqBlank
  <2>1. ~ InPicture' \/ (scanline_emulation /\ ~ ends)
    <3>1. v_state' # "ACTIVE" \/ v_ctr' < Border \/ v_ctr' >= Border + 2 * Lines
            => ~ InPicture'
      <4>1. v_ctr' \in Int /\ Border \in Int /\ Lines \in Int
        BY <1>1, TimingAdvances, Geometry, GeometryAssumption DEF Inductive, Durations
      <4> QED
        BY <4>1, InPictureNext
    <3>2. v_ctr' % 2 = 0 => ~ ends
      <4>1. 0 # 1
        OBVIOUS
      <4> QED
        BY <4>1, Zenon DEF ends
    <3> QED
      BY <1>7, <3>1, <3>2, Zenon DEF IrqBlank, BlankLine
  <2>2. ~ InPicture' \/ ~ ends
    BY <2>1
  <2>3. shown' = NoBuf /\ lead' = lead
    BY <1>4, <1>7 DEF IrqBlank, shown, lead, len
  <2>4. InPicture' /\ ~ ends => ~ Stream!EndsRow(beam')
    BY <1>3, <1>5, Zenon DEF ends
  <2>5. ~ (Stream!InPicture(beam') /\ lead > 0
             /\ (scanline_emulation => Stream!EndsRow(beam')))
    BY <1>3, <2>1, <2>4, Zenon
  <2>6. ~ (Stream!InPicture(beam') /\ Stream!EndsRow(beam'))
    BY <1>3, <2>2, <2>4, Zenon
  <2>7. lead' >= - MaxLate
    BY <1>4, <1>6, <2>3
  <2> QED
    BY <1>1, <1>2, <2>3, <2>5, <2>6, <2>7 DEF Stream!Scan
<1>8. ASSUME IrqPeek \/ IrqTake \/ IrqMissing
      PROVE  /\ Stream!InPicture(beam') /\ InPicture'
             /\ scanline_emulation => Stream!EndsRow(beam')
             /\ Stream!EndsRow(beam') <=> ends
  <2>1. ~ BlankLine(v_state', v_ctr', scanline_emulation)
    BY <1>8 DEF IrqPeek, IrqTake, IrqMissing
  <2>2. InPicture' /\ v_ctr' % 2 \in {0, 1}
    BY <1>1, <2>1, PictureLine
  <2>3. Stream!EndsRow(beam') <=> ends
    BY <1>3, <1>5, <2>2, Zenon DEF ends
  <2>4. scanline_emulation => ends
    <3>1. scanline_emulation => ~ (v_ctr' % 2 = 0)
      BY <2>1, Zenon DEF BlankLine
    <3> QED
      BY <2>2, <3>1, Zenon DEF ends
  <2> QED
    BY <1>3, <2>2, <2>3, <2>4, Zenon
<1>9. CASE IrqPeek
  <2>1. /\ OnTime # << >> /\ ~ ends /\ q_tmds_valid' = OnTime
        /\ late_scanline_ctr' = LateLeft /\ dma_list' = Head(OnTime)
    BY <1>9 DEF IrqPeek, SecondLine, ends
  <2>2. lead > 0 /\ lead' = lead /\ lead' >= - MaxLate
    BY <1>4, <1>6, <2>1 DEF lead, len
  <2>3. shown' = Stream!Row(beam')
    BY <1>1, <1>5, <1>8, <1>9, <2>1, HeadShown
  <2> QED
    BY <1>1, <1>2, <1>8, <1>9, <2>1, <2>2, <2>3 DEF Stream!Scan
<1>10. CASE IrqTake
  <2>1. /\ OnTime # << >> /\ ends /\ q_tmds_valid' = Tail(OnTime)
        /\ late_scanline_ctr' = LateLeft /\ dma_list' = Head(OnTime)
    BY <1>10 DEF IrqTake, SecondLine, ends
  <2>2. Len(q_tmds_valid') = len - 1
    BY <1>1, <2>1, SkippedLines, TailElements DEF len
  <2>3. lead > 0 /\ lead' = lead - 1 /\ lead' >= - MaxLate
    BY <1>4, <1>6, <2>1, <2>2 DEF lead
  <2>4. shown' = Stream!Row(beam')
    BY <1>1, <1>5, <1>8, <1>10, <2>1, HeadShown
  <2> QED
    BY <1>1, <1>2, <1>8, <1>10, <2>1, <2>3, <2>4 DEF Stream!Scan
<1>11. CASE IrqMissing
  <2>1. /\ OnTime = << >> /\ q_tmds_valid' = OnTime /\ dma_list' = NoBuf
        /\ late_scanline_ctr' = IF ends THEN LateLeft + 1 ELSE LateLeft
        /\ late_scanline_ctr' <= MaxLate
    BY <1>11 DEF IrqMissing, SecondLine, ends
  <2>2. ~ (lead > 0) /\ shown' = NoBuf
    BY <1>4, <2>1 DEF shown
  <2>3. lead' = (IF ends THEN lead - 1 ELSE lead) /\ lead' >= - MaxLate
    BY <1>4, <1>6, <2>1 DEF lead, len
  <2> QED
    BY <1>1, <1>2, <1>8, <1>11, <2>2, <2>3 DEF Stream!Scan
<1> QED
  BY <1>7, <1>9, <1>10, <1>11 DEF Irq

\* For the monitor the queues, the late counter and the release pipeline do what the
\* line stream does: rows in order, each its own scanline or blank (dvi.c:191-267).
THEOREM RingImplementsStream == Spec => ImplementsStream
<1>1. StreamInv /\ StreamInv' /\ [Next]_vars => [Stream!StreamNext]_(Stream!svars)
  <2> SUFFICES ASSUME StreamInv, StreamInv', [Next]_vars
               PROVE  Stream!StreamNext \/ UNCHANGED Stream!svars
    OBVIOUS
  <2>1. CASE Renderer
    BY <2>1, RendererRefines
  <2>2. CASE Irq
    BY <2>2, IrqRefines DEF Stream!StreamNext
  <2>3. CASE UNCHANGED vars
    BY <2>3, StreamStays DEF vars, ring, irqvars
  <2> QED
    BY <2>1, <2>2, <2>3 DEF Next
<1> QED
  BY InitRefines, <1>1, ScanlinesInSequence, PTL
  DEF Spec, ImplementsStream, Stream!StreamSpec

-----------------------------------------------------------------------------
(* The pace of the renderer: what was late is made up for.                 *)

LEMMA PaceConstants ==
  /\ Lines \in Nat \ {0} /\ Border \in Nat /\ Border % 2 = 0
  /\ VFrontPorch \in Nat \ {0} /\ VSyncWidth \in Nat \ {0} /\ VBackPorch \in Nat \ {0}
  /\ BlankLines \in Nat \ {0} /\ MaxLate \in Nat /\ Pace \in 1 .. 2
  /\ Cardinality(Buffers) \in Nat /\ Cardinality(Buffers) >= 5
  BY Geometry, GeometryAssumption, BufferAssumption, PaceAssumption,
     RecoveryAssumption, FS_CardinalityType, SMTT(30)
  DEF BlankLines

\* A frame more is its blank lines more.
LEMMA FramesOfBlankLines ==
  /\ RecoveryFrames \in Nat \ {0}
  /\ \A n \in Nat : n * BlankLines \in Nat /\ (n + 1) * BlankLines = n * BlankLines + BlankLines
  /\ RecoveryFrames * BlankLines = (RecoveryFrames - 1) * BlankLines + BlankLines
<1>1. RecoveryFrames \in Nat /\ BlankLines \in Nat /\ MaxLate \in Nat /\ Border \in Nat
      /\ 2 * MaxLate + Border + 1 < RecoveryFrames * BlankLines
  BY PaceConstants, PaceAssumption, RecoveryAssumption
<1>2. RecoveryFrames # 0
  <2>1. RecoveryFrames = 0 => RecoveryFrames * BlankLines = 0
    BY <1>1
  <2> QED
    BY <1>1, <2>1
<1>3. \A n \in Nat : n * BlankLines \in Nat
                     /\ (n + 1) * BlankLines = n * BlankLines + BlankLines
  BY <1>1, Multiples
<1>4. RecoveryFrames - 1 \in Nat /\ (RecoveryFrames - 1) + 1 = RecoveryFrames
  BY <1>1, <1>2
<1>5. RecoveryFrames * BlankLines = (RecoveryFrames - 1) * BlankLines + BlankLines
  BY <1>3, <1>4
<1> QED
  BY <1>1, <1>2, <1>3, <1>5

\* The three kinds of output line: blank, first of a row, second of a row.
PictureEnds == v_state = "ACTIVE" /\ v_state' = "FRONT_PORCH"

LEMMA LineKinds ==
  ASSUME Inductive, dvi_timing_state_advance
  PROVE  /\ BlankSoFar \in Nat
         /\ \/ /\ ~ InPicture' /\ HalfRow = 0 /\ HalfRow' = 0
               /\ IF PictureEnds
                  THEN BlankSoFar' = 0 /\ BlankSoFar = BlankLines - 1
                  ELSE BlankSoFar' = BlankSoFar + 1
            \/ /\ InPicture' /\ v_ctr' % 2 = 0 /\ HalfRow = 0 /\ HalfRow' = 1
               /\ BlankSoFar' = BlankSoFar /\ ~ PictureEnds
               /\ BlankSoFar = BlankLines - Border - 1
            \/ /\ InPicture' /\ v_ctr' % 2 = 1 /\ HalfRow = 1 /\ HalfRow' = 0
               /\ BlankSoFar' = BlankSoFar /\ ~ PictureEnds
               /\ BlankSoFar = BlankLines - Border - 1
<1>1. v_state \in {"FRONT_PORCH", "SYNC", "BACK_PORCH", "ACTIVE"}
      /\ v_ctr \in 0 .. Durations[v_state] - 1
  BY DEF Inductive, TypeOK, Durations
<1>2. BlankSoFar \in Nat
  <2>1. CASE v_state = "ACTIVE"
    BY <1>1, <2>1, PaceConstants DEF BlankSoFar, InPicture, Durations
  <2>2. CASE v_state # "ACTIVE"
    BY <1>1, <2>2, PaceConstants DEF BlankSoFar, Durations
  <2> QED
    BY <2>1, <2>2
<1>3. CASE v_state # "ACTIVE" /\ ~ (v_state = "BACK_PORCH" /\ v_ctr + 1 = VBackPorch)
  BY <1>1, <1>2, <1>3, PaceConstants
  DEF BlankSoFar, Durations, FollowedBy, InPicture, HalfRow, PictureEnds,
      dvi_timing_state_advance
<1>4. CASE v_state = "BACK_PORCH" /\ v_ctr + 1 = VBackPorch
  <2>1. v_state' = "ACTIVE" /\ v_ctr' = 0
    BY <1>1, <1>4 DEF dvi_timing_state_advance, Durations, FollowedBy
  <2> QED
    BY <1>1, <1>2, <1>4, <2>1, PaceConstants
    DEF BlankSoFar, InPicture, HalfRow, PictureEnds, BlankLines
<1>5. CASE v_state = "ACTIVE" /\ v_ctr + 1 = Durations["ACTIVE"]
  BY <1>1, <1>2, <1>5, PaceConstants
  DEF BlankSoFar, Durations, FollowedBy, InPicture, HalfRow, PictureEnds, BlankLines,
      dvi_timing_state_advance
<1>6. CASE v_state = "ACTIVE" /\ v_ctr + 1 # Durations["ACTIVE"]
  <2>1. v_state' = "ACTIVE" /\ v_ctr' = v_ctr + 1
    BY <1>6 DEF dvi_timing_state_advance
  <2> QED
    BY <1>1, <1>2, <1>6, <2>1, PaceConstants
    DEF BlankSoFar, Durations, InPicture, HalfRow, PictureEnds, BlankLines
<1> QED
  BY <1>1, <1>2, <1>3, <1>4, <1>5, <1>6 DEF Durations

\* A row that ends takes a scanline or is counted; late scanlines cancel out, and
\* as long as one is missing none is left in the queue.
LEMMA LeadFollows ==
  ASSUME Inductive, Irq
  PROVE  /\ dvi_timing_state_advance
         /\ Len(q_tmds_valid') \in Nat /\ late_scanline_ctr' \in Nat
         /\ (q_tmds_valid' = << >> <=> Len(q_tmds_valid') = 0)
         /\ late_scanline_ctr' > 0 => q_tmds_valid' = << >>
         /\ Len(q_tmds_valid') - late_scanline_ctr' =
              Len(q_tmds_valid) - late_scanline_ctr
                - (IF InPicture' /\ v_ctr' % 2 = 1 THEN 1 ELSE 0)
<1> DEFINE len  == Len(OnTime)
           ends == InPicture' /\ v_ctr' % 2 = 1
<1>1. IrqPrologue /\ dvi_timing_state_advance
  BY DEF Irq, IrqBlank, IrqPeek, IrqTake, IrqMissing, IrqPrologue
<1>2. /\ OnTime \in Seq(Scanline) /\ len \in Nat /\ (OnTime = << >> <=> len = 0)
      /\ LateLeft \in Nat /\ (OnTime # << >> => LateLeft = 0)
      /\ len - LateLeft = Len(q_tmds_valid) - late_scanline_ctr
      /\ Len(q_tmds_valid) \in Nat /\ late_scanline_ctr \in Nat
  <2>1. /\ OnTime \in Seq(Scanline) /\ LateLeft \in 0 .. MaxLate
        /\ len = Len(q_tmds_valid) - Skipped /\ Skipped \in 0 .. Len(q_tmds_valid)
        /\ OnTime # << >> => LateLeft = 0
    BY SkippedLines
  <2>2. LateLeft = late_scanline_ctr - Skipped /\ late_scanline_ctr \in Nat
        /\ Len(q_tmds_valid) \in Nat /\ MaxLate \in Nat
    BY BufferAssumption DEF LateLeft, Inductive, TypeOK
  <2>3. len \in Nat /\ (OnTime = << >> <=> len = 0)
    BY <2>1
  <2> QED
    BY <2>1, <2>2, <2>3
<1> HIDE DEF len
<1>3. CASE IrqBlank
  <2>1. ~ ends
    <3>1. v_state' # "ACTIVE" \/ v_ctr' < Border \/ v_ctr' >= Border + 2 * Lines
            => ~ InPicture'
      <4>1. v_ctr' \in Int /\ Border \in Int /\ Lines \in Int
        BY <1>1, TimingAdvances, Geometry, GeometryAssumption DEF Inductive, Durations
      <4> QED
        BY <4>1, InPictureNext
    <3>2. v_ctr' % 2 = 0 => ~ (v_ctr' % 2 = 1)
      <4>1. 0 # 1
        OBVIOUS
      <4> QED
        BY <4>1, Zenon
    <3> QED
      BY <1>3, <3>1, <3>2, Zenon DEF IrqBlank, BlankLine
  <2>2. q_tmds_valid' = OnTime /\ late_scanline_ctr' = LateLeft
    BY <1>3 DEF IrqBlank
  <2> QED
    BY <1>1, <1>2, <2>1, <2>2 DEF len
<1>4. ASSUME IrqPeek \/ IrqTake \/ IrqMissing
      PROVE  InPicture' /\ v_ctr' % 2 \in {0, 1}
  BY <1>1, <1>4, PictureLine DEF IrqPeek, IrqTake, IrqMissing
<1>5. CASE IrqPeek
  <2>1. ~ ends /\ q_tmds_valid' = OnTime /\ late_scanline_ctr' = LateLeft
    BY <1>5 DEF IrqPeek, SecondLine
  <2> QED
    BY <1>1, <1>2, <2>1 DEF len
<1>6. CASE IrqTake
  <2>1. /\ ends /\ OnTime # << >> /\ q_tmds_valid' = Tail(OnTime)
        /\ late_scanline_ctr' = LateLeft
    BY <1>4, <1>6 DEF IrqTake, SecondLine
  <2>2. Len(q_tmds_valid') = len - 1 /\ q_tmds_valid' \in Seq(Scanline)
    BY <1>2, <2>1, TailElements DEF len
  <2>3. q_tmds_valid' = << >> <=> Len(q_tmds_valid') = 0
    BY <2>2, EmptySeq
  <2>4. /\ late_scanline_ctr' = 0 /\ len = Len(q_tmds_valid) - late_scanline_ctr
        /\ len - 1 \in Nat
    BY <1>2, <2>1
  <2>5. /\ Len(q_tmds_valid') \in Nat /\ late_scanline_ctr' \in Nat
        /\ ~ (late_scanline_ctr' > 0)
        /\ Len(q_tmds_valid') - late_scanline_ctr' =
             Len(q_tmds_valid) - late_scanline_ctr - 1
    BY <1>2, <2>2, <2>4
  <2> QED
    BY <1>1, <2>1, <2>3, <2>5
<1>7. CASE IrqMissing
  <2>1. /\ OnTime = << >> /\ q_tmds_valid' = OnTime
        /\ late_scanline_ctr' = IF ends THEN LateLeft + 1 ELSE LateLeft
    BY <1>4, <1>7 DEF IrqMissing, SecondLine
  <2> QED
    BY <1>1, <1>2, <2>1 DEF len
<1> QED
  BY <1>3, <1>5, <1>6, <1>7 DEF Irq

\* A renderer that waits holds at most two buffers and the DMA one: the others
\* are rendered scanlines.
LEMMA WaitingLead ==
  ASSUME Inductive, Waiting
  PROVE  Len(q_tmds_valid) >= 2
<1>1. /\ Len(q_tmds_free) = 0 /\ One(work) = 0 /\ row < rows
  BY DEF Waiting, One
<1>2. Len(cells) \in 0 .. 2
  <2>1. ~ InCells => Len(cells) = 0
    BY <1>1 DEF Inductive, RendererInv
  <2>2. /\ Len(cells) \in Nat /\ k \in Int /\ k >= 0 /\ CellRepeat \in Nat \ {0}
    BY Geometry DEF Inductive, TypeOK
  <2>3. CASE InCells
    <3>1. /\ k = 0 => Len(cells) <= 2
          /\ 0 < k /\ k < CellRepeat => Len(cells) = 2
          /\ CellRepeat <= k => Len(cells) = 1
      BY <1>1, <2>3 DEF Inductive, RendererInv
    <3> QED
      BY <2>2, <3>1, SMTT(30)
  <2> QED
    BY <2>1, <2>2, <2>3
<1>3. One(tmds_buf_release) + One(tmds_buf_release_next) \in 0 .. 1
  BY DEF Inductive, PipelineInv, One
<1>4. /\ One(tmds_buf_release) \in 0 .. 1 /\ One(tmds_buf_release_next) \in 0 .. 1
      /\ Len(q_tmds_valid) \in Nat
  BY DEF One, Inductive, TypeOK
<1>5. CountInv /\ Cardinality(Buffers) >= 5 /\ Cardinality(Buffers) \in Nat
  BY PaceConstants DEF Inductive
<1> DEFINE sent   == Len(q_tmds_valid)
           held   == Len(cells)
           first  == One(tmds_buf_release)
           second == One(tmds_buf_release_next)
           all    == Cardinality(Buffers)
<1>6. 0 + sent + held + 0 + first + second = all
  BY <1>1, <1>5 DEF CountInv
<1>7. /\ first + second \in 0 .. 1 /\ first \in 0 .. 1 /\ second \in 0 .. 1
      /\ held \in 0 .. 2 /\ sent \in Nat /\ all \in Nat /\ all >= 5
  BY <1>2, <1>3, <1>4, <1>5
<1> HIDE DEF sent, held, first, second, all
<1>8. sent >= 2
  BY <1>6, <1>7
<1> QED
  BY <1>8 DEF sent

\* The renderer at most adds a scanline to the queue.
LEMMA RendererSends ==
  ASSUME Inductive, Renderer
  PROVE  /\ UNCHANGED <<v_state, v_ctr, late_scanline_ctr>>
         /\ \/ q_tmds_valid' = q_tmds_valid
            \/ /\ Len(q_tmds_valid') = Len(q_tmds_valid) + 1
               /\ q_tmds_valid' # << >> /\ q_tmds_valid' # q_tmds_valid
<1>1. ASSUME row < rows, NEW b \in Buffers, Send(b)
      PROVE  /\ UNCHANGED <<v_state, v_ctr, late_scanline_ctr>>
             /\ Len(q_tmds_valid') = Len(q_tmds_valid) + 1
             /\ q_tmds_valid' # << >> /\ q_tmds_valid' # q_tmds_valid
  <2>1. line \in 0 .. Lines - 1
    BY <1>1, LineAdvances
  <2>2. Len(q_tmds_valid') = Len(q_tmds_valid) + 1 /\ Len(q_tmds_valid) \in Nat
    BY <1>1, <2>1, SendAppends DEF Inductive, TypeOK
  <2>3. q_tmds_valid' # << >> /\ q_tmds_valid' # q_tmds_valid
    BY <2>2
  <2> QED
    BY <1>1, <2>2, <2>3 DEF Send, irqvars
<1>2. CASE StartFrame \/ StartBody \/ StartBottom \/ EndFrame \/ GetCell \/ GetLine
  BY <1>2 DEF StartFrame, StartBody, StartBottom, EndFrame, GetCell, GetLine, ring, irqvars
<1>3. CASE SendLine
  <2>1. work \in Buffers /\ row < rows /\ Send(work)
    BY <1>3 DEF SendLine, Inductive, TypeOK, RendererInv
  <2> QED
    BY <1>1, <2>1
<1>4. CASE SendCell
  <2>1. cells # << >> /\ row < rows /\ Send(Head(cells))
    BY <1>4, Geometry
    DEF Inductive, TypeOK, SendCell, RendererInv, LacksCells, SendsOriginal
  <2>2. Head(cells) \in Buffers
    BY <2>1, TailElements DEF Inductive, TypeOK
  <2> QED
    BY <1>1, <2>1, <2>2
<1> QED
  BY <1>2, <1>3, <1>4 DEF Renderer

LEMMA PacedTypes ==
  ASSUME PacedInductive
  PROVE  /\ Len(q_tmds_valid) \in Nat /\ late_scanline_ctr \in 0 .. MaxLate
         /\ MaxLate \in Nat /\ RecoveryFrames \in Nat \ {0} /\ BlankSoFar \in Nat
         /\ (q_tmds_valid = << >> <=> Len(q_tmds_valid) = 0)
         /\ HalfRow \in 0 .. 1 /\ idle \in 0 .. 2 /\ calm \in 0 .. RecoveryFrames + 1
<1>1. /\ v_state \in {"FRONT_PORCH", "SYNC", "BACK_PORCH", "ACTIVE"}
      /\ v_ctr \in 0 .. Durations[v_state] - 1
  BY DEF PacedInductive, Inductive, TypeOK, Durations
<1>2. BlankSoFar \in Nat
  <2>1. CASE v_state = "ACTIVE"
    BY <1>1, <2>1, PaceConstants DEF BlankSoFar, InPicture, Durations
  <2>2. CASE v_state # "ACTIVE"
    BY <1>1, <2>2, PaceConstants DEF BlankSoFar, Durations
  <2> QED
    BY <2>1, <2>2
<1>3. q_tmds_valid \in Seq(Scanline) /\ late_scanline_ctr \in 0 .. MaxLate
  BY DEF PacedInductive, Inductive, TypeOK
<1>4. Len(q_tmds_valid) \in Nat /\ (q_tmds_valid = << >> <=> Len(q_tmds_valid) = 0)
  BY <1>3, EmptySeq
<1> QED
  BY <1>2, <1>3, <1>4, PaceConstants, FramesOfBlankLines
  DEF PacedInductive, PaceInv, HalfRow

LEMMA RendererKeepsPace ==
  PacedInductive /\ PacedRenderer => PaceInv' /\ CatchesUp'
<1> SUFFICES ASSUME PacedInductive, PacedRenderer PROVE PaceInv' /\ CatchesUp'
  OBVIOUS
<1>1. /\ UNCHANGED <<v_state, v_ctr, late_scanline_ctr, calm>>
      /\ idle' = IF q_tmds_valid' = q_tmds_valid THEN idle ELSE 0
      /\ \/ q_tmds_valid' = q_tmds_valid
         \/ /\ Len(q_tmds_valid') = Len(q_tmds_valid) + 1
            /\ q_tmds_valid' # << >> /\ q_tmds_valid' # q_tmds_valid
  BY RendererSends DEF PacedRenderer, PacedInductive
<1>2. HalfRow' = HalfRow /\ BlankSoFar' = BlankSoFar
  BY <1>1 DEF HalfRow, BlankSoFar, InPicture
<1>3. PaceInv'
  BY <1>1, PaceConstants DEF PacedInductive, PaceInv
<1> DEFINE len  == Len(q_tmds_valid)
           half == HalfRow
<1>4. /\ len \in Nat /\ late_scanline_ctr \in Nat /\ half \in 0 .. 1 /\ idle \in 0 .. 2
      /\ (q_tmds_valid = << >> <=> len = 0)
      /\ late_scanline_ctr > 0 /\ q_tmds_valid # << >> => idle = 0
  BY PacedTypes DEF PacedInductive, PaceInv
<1>5. Ahead' >= Ahead /\ Ahead \in Int /\ Ahead' \in Int
  <2>1. Ahead = IF late_scanline_ctr = 0 \/ q_tmds_valid = << >>
                THEN 2 * len - 2 * late_scanline_ctr + idle - half
                ELSE 2 - 2 * late_scanline_ctr - half
    BY DEF Ahead
  <2>2. Ahead' = IF late_scanline_ctr = 0 \/ q_tmds_valid' = << >>
                 THEN 2 * Len(q_tmds_valid') - 2 * late_scanline_ctr + idle' - half
                 ELSE 2 - 2 * late_scanline_ctr - half
    BY <1>1, <1>2 DEF Ahead
  <2> HIDE DEF half, len
  <2>3. CASE q_tmds_valid' = q_tmds_valid
    <3>1. Ahead' = Ahead
      BY <1>1, <2>1, <2>2, <2>3 DEF len
    <3> QED
      BY <1>4, <2>1, <3>1
  <2>4. CASE q_tmds_valid' # q_tmds_valid
    <3>1. idle' = 0 /\ Len(q_tmds_valid') = len + 1 /\ q_tmds_valid' # << >>
      BY <1>1, <2>4 DEF len
    <3> QED
      BY <1>4, <2>1, <2>2, <3>1
  <2> QED
    BY <2>3, <2>4
<1>6. CatchesUp'
  <2> SUFFICES ASSUME calm >= 2
               PROVE  \/ Ahead' >= 2
                      \/ Ahead' + 2 * MaxLate > (calm - 2) * BlankLines + BlankSoFar
    BY <1>1, <1>2 DEF CatchesUp
  <2>1. (calm - 2) * BlankLines \in Nat
    <3>1. calm - 2 \in Nat
      BY PacedTypes
    <3> QED
      BY <3>1, FramesOfBlankLines
  <2>2. Ahead >= 2 \/ Ahead + 2 * MaxLate > (calm - 2) * BlankLines + BlankSoFar
    BY DEF PacedInductive, CatchesUp
  <2>3. MaxLate \in Nat /\ BlankSoFar \in Nat
    BY PacedTypes
  <2> QED
    BY <1>5, <2>1, <2>2, <2>3
<1> QED
  BY <1>3, <1>6

\* A blank line gains a line, a line of the picture loses nothing: also when the
\* renderer cannot go on because it has no buffer, for then it is ahead.
LEMMA IrqGains ==
  ASSUME PacedInductive, PacedIrq, calm # 0
  PROVE  /\ Ahead \in Int /\ Ahead' \in Int
         /\ Ahead' >= 2 \/ Ahead' >= Ahead + (IF InPicture' THEN 0 ELSE 1)
         /\ ~ InPicture' => Ahead' >= 1 - 2 * MaxLate
<1> DEFINE len   == Len(q_tmds_valid)
           late  == late_scanline_ctr
           half  == HalfRow
           len2  == Len(q_tmds_valid')
           late2 == late_scanline_ctr'
           half2 == HalfRow'
           pause == idle
           pause2 == idle'
           ends  == IF InPicture' /\ v_ctr' % 2 = 1 THEN 1 ELSE 0
           gain  == IF InPicture' THEN 0 ELSE 1
<1>1. Inductive /\ Irq /\ dvi_timing_state_advance
  BY LeadFollows DEF PacedInductive, PacedIrq
<1>2. /\ len \in Nat /\ late \in 0 .. MaxLate /\ half \in 0 .. 1 /\ pause \in 0 .. 2 /\ MaxLate \in Nat
      /\ late > 0 /\ len > 0 => pause = 0
  BY PacedTypes DEF PacedInductive, PaceInv
<1>3. /\ len2 \in Nat /\ late2 \in 0 .. MaxLate
      /\ late2 > 0 => len2 = 0
      /\ len2 - late2 = len - late - ends
  <2>1. late2 <= MaxLate
    BY <1>1, NextInductive, BufferAssumption DEF Next, Inductive, TypeOK
  <2>2. late2 > 0 => q_tmds_valid' = << >>
    BY <1>1, LeadFollows
  <2>3. /\ len2 \in Nat /\ late2 \in Nat /\ (q_tmds_valid' = << >> <=> len2 = 0)
        /\ len2 - late2 = len - late - ends
    BY <1>1, LeadFollows
  <2> QED
    BY <1>2, <2>1, <2>2, <2>3
<1>4. \/ gain = 1 /\ ends = 0 /\ half = 0 /\ half2 = 0
      \/ gain = 0 /\ ends = 0 /\ half = 0 /\ half2 = 1
      \/ gain = 0 /\ ends = 1 /\ half = 1 /\ half2 = 0
  BY <1>1, LineKinds
<1>5. \/ pause2 = pause + 1
      \/ pause2 = 0 /\ len >= 2
  BY <1>1, WaitingLead DEF PacedIrq
<1>6. /\ late = 0 \/ len = 0 => Ahead = 2 * len - 2 * late + pause - half
      /\ ~ (late = 0 \/ len = 0) => Ahead = 2 - 2 * late - half
  BY PacedTypes DEF Ahead
<1>7. Ahead' = 2 * len2 - 2 * late2 + pause2 - half2
  <2>1. late2 = 0 \/ q_tmds_valid' = << >>
    BY <1>1, LeadFollows
  <2> QED
    BY <2>1 DEF Ahead
<1> DEFINE now  == Ahead
           next == Ahead'
<1> HIDE DEF len, late, half, len2, late2, half2, pause, pause2, ends, gain, now, next
<1>8. /\ late = 0 \/ len = 0 => now = 2 * len - 2 * late + pause - half
      /\ ~ (late = 0 \/ len = 0) => now = 2 - 2 * late - half
      /\ next = 2 * len2 - 2 * late2 + pause2 - half2
  BY <1>6, <1>7 DEF now, next
<1>9. now \in Int /\ next \in Int
  BY <1>2, <1>3, <1>4, <1>5, <1>8
<1>10. next = 2 * (len - late - ends) + pause2 - half2
  BY <1>2, <1>3, <1>4, <1>5, <1>8
<1>11. ASSUME pause2 = pause + 1
       PROVE  next >= 2 \/ next >= now + gain
  <2>1. CASE late = 0 \/ len = 0
    BY <1>2, <1>4, <1>8, <1>10, <1>11, <2>1
  <2>2. CASE late > 0 /\ len > 0
    BY <1>2, <1>4, <1>8, <1>10, <1>11, <2>2
  <2> QED
    BY <1>2, <2>1, <2>2
<1>12. ASSUME pause2 = 0, len >= 2
       PROVE  next >= 2 \/ next >= now + gain
  <2>1. CASE late = 0
    BY <1>2, <1>4, <1>8, <1>10, <1>12, <2>1
  <2>2. CASE late > 0
    BY <1>2, <1>4, <1>8, <1>10, <1>12, <2>2
  <2> QED
    BY <1>2, <2>1, <2>2
<1>13. gain = 1 => next >= 1 - 2 * MaxLate
  <2>1. CASE late2 = 0
    BY <1>2, <1>4, <1>5, <1>8, <2>1, <1>3
  <2>2. CASE late2 > 0
    BY <1>2, <1>3, <1>4, <1>5, <1>8, <2>2
  <2> QED
    BY <1>3, <2>1, <2>2
<1>14. next >= 2 \/ next >= now + gain
  BY <1>5, <1>11, <1>12
<1> QED
  BY <1>9, <1>13, <1>14 DEF now, next, gain

\* At the first line of the picture after the last one that may have been late,
\* and from then on, the renderer is ahead.
LEMMA AheadForGood ==
  ASSUME PacedInductive, calm = RecoveryFrames + 1, BlankSoFar >= BlankLines - Border - 1
  PROVE  Ahead >= 2
<1> DEFINE made  == (RecoveryFrames - 1) * BlankLines
           total == RecoveryFrames * BlankLines
           now   == Ahead
<1>1. /\ calm >= 2 /\ calm - 2 = RecoveryFrames - 1 /\ RecoveryFrames - 1 \in Nat
      /\ MaxLate \in Nat /\ BlankSoFar \in Nat /\ Border \in Nat /\ BlankLines \in Nat
  BY PacedTypes, PaceConstants
<1>2. made \in Nat /\ total = made + BlankLines /\ 2 * MaxLate + Border + 1 < total
  BY <1>1, FramesOfBlankLines, RecoveryAssumption
<1>3. now \in Int
  BY PacedTypes DEF Ahead
<1>4. now >= 2 \/ now + 2 * MaxLate > made + BlankSoFar
  BY <1>1 DEF PacedInductive, CatchesUp
<1> HIDE DEF made, total, now
<1>5. now >= 2
  BY <1>1, <1>2, <1>3, <1>4
<1> QED
  BY <1>5 DEF now

LEMMA IrqCatchesUp == PacedInductive /\ PacedIrq => CatchesUp'
<1> SUFFICES ASSUME PacedInductive, PacedIrq, calm' >= 2
             PROVE  \/ Ahead' >= 2
                    \/ Ahead' + 2 * MaxLate > (calm' - 2) * BlankLines + BlankSoFar'
  BY DEF CatchesUp
<1>1. /\ calm' = IF calm \in 1 .. RecoveryFrames /\ PictureEnds THEN calm + 1 ELSE calm
      /\ Inductive /\ dvi_timing_state_advance
  BY LeadFollows DEF PacedIrq, PictureEnds, PacedInductive
<1>2. /\ calm \in 0 .. RecoveryFrames + 1 /\ RecoveryFrames \in Nat \ {0}
      /\ MaxLate \in Nat /\ BlankSoFar \in Nat /\ BlankLines \in Nat
  BY PacedTypes, PaceConstants
<1>3. calm # 0
  BY <1>1, <1>2
<1> DEFINE gain == IF InPicture' THEN 0 ELSE 1
<1>4. /\ Ahead \in Int /\ Ahead' \in Int
      /\ Ahead' >= 2 \/ Ahead' >= Ahead + gain
      /\ ~ InPicture' => Ahead' >= 1 - 2 * MaxLate
      /\ gain \in 0 .. 1 /\ (~ InPicture' => gain = 1)
  BY <1>3, IrqGains
<1> HIDE DEF gain
<1>5. CASE PictureEnds /\ calm = RecoveryFrames + 1
  <2>1. BlankSoFar >= BlankLines - Border - 1
    BY <1>1, <1>5, LineKinds, PaceConstants
  <2>2. Ahead >= 2
    BY <1>5, <2>1, AheadForGood
  <2> QED
    BY <1>4, <2>2
<1>6. CASE ~ PictureEnds
  <2>1. calm' = calm /\ calm >= 2
    BY <1>1, <1>6
  <2>2. BlankSoFar' = BlankSoFar + gain
    BY <1>1, <1>6, LineKinds DEF gain
  <2>3. calm - 2 \in Nat /\ (calm - 2) * BlankLines \in Nat
    BY <1>2, <2>1, FramesOfBlankLines
  <2>4. Ahead >= 2 \/ Ahead + 2 * MaxLate > (calm - 2) * BlankLines + BlankSoFar
    BY <2>1 DEF PacedInductive, CatchesUp
  <2> DEFINE made  == (calm - 2) * BlankLines
             owed  == 2 * MaxLate
             blank == BlankSoFar
             now   == Ahead
             next  == Ahead'
  <2>5. /\ made \in Nat /\ owed \in Nat /\ blank \in Nat /\ gain \in 0 .. 1
        /\ now \in Int /\ next \in Int
    BY <1>2, <1>4, <2>3
  <2>6. /\ now >= 2 \/ now + owed > made + blank
        /\ next >= 2 \/ next >= now + gain
    BY <1>4, <2>4
  <2>7. (calm' - 2) * BlankLines + BlankSoFar' = made + (blank + gain)
    BY <2>1, <2>2
  <2> HIDE DEF made, owed, blank, now, next
  <2>8. next >= 2 \/ next + owed > made + (blank + gain)
    BY <2>5, <2>6
  <2> QED
    BY <2>7, <2>8 DEF owed, next
<1>7. CASE PictureEnds /\ calm # RecoveryFrames + 1
  <2>1. calm' = calm + 1 /\ calm >= 1
    BY <1>1, <1>2, <1>3, <1>7
  <2>2. ~ InPicture' /\ BlankSoFar' = 0 /\ BlankSoFar = BlankLines - 1
    BY <1>1, <1>7, LineKinds
  <2>3. CASE calm = 1
    <3>1. (calm' - 2) * BlankLines = 0
      BY <1>2, <2>1, <2>3
    <3> QED
      BY <1>2, <1>4, <2>2, <3>1
  <2>4. CASE calm >= 2
    <3>1. /\ calm - 2 \in Nat /\ (calm - 2) * BlankLines \in Nat
          /\ calm' - 2 = (calm - 2) + 1
      BY <1>2, <2>1, <2>4, FramesOfBlankLines
    <3>2. (calm' - 2) * BlankLines = (calm - 2) * BlankLines + BlankLines
      BY <3>1, FramesOfBlankLines
    <3>3. Ahead >= 2 \/ Ahead + 2 * MaxLate > (calm - 2) * BlankLines + BlankSoFar
      BY <2>4 DEF PacedInductive, CatchesUp
    <3> QED
      BY <1>2, <1>4, <2>2, <3>1, <3>2, <3>3
  <2> QED
    BY <1>2, <2>1, <2>3, <2>4
<1> QED
  BY <1>5, <1>6, <1>7

LEMMA IrqPaceInv == PacedInductive /\ PacedIrq => PaceInv'
<1> SUFFICES ASSUME PacedInductive, PacedIrq PROVE PaceInv'
  OBVIOUS
<1>1. /\ calm' = IF calm \in 1 .. RecoveryFrames /\ PictureEnds THEN calm + 1 ELSE calm
      /\ calm = 0 \/ Waiting \/ idle < Pace
      /\ idle' = IF calm = 0 \/ Waiting THEN 0 ELSE idle + 1
  BY DEF PacedIrq, PictureEnds
<1>2. calm \in 0 .. RecoveryFrames + 1 /\ RecoveryFrames \in Nat /\ idle \in 0 .. Pace
      /\ Pace \in 1 .. 2
  BY PacedTypes, PaceConstants DEF PacedInductive, PaceInv
<1>3. late_scanline_ctr' > 0 => q_tmds_valid' = << >>
  BY LeadFollows DEF PacedInductive, PacedIrq
<1>4. calm' \in 0 .. RecoveryFrames + 1 /\ (calm' = 0 => calm = 0)
  BY <1>1, <1>2
<1>5. idle' \in 0 .. Pace /\ (calm = 0 => idle' = 0)
  BY <1>1, <1>2
<1> QED
  BY <1>3, <1>4, <1>5 DEF PaceInv

LEMMA SettleKeepsPace == PacedInductive /\ Settle => PaceInv' /\ CatchesUp'
<1> SUFFICES ASSUME PacedInductive, Settle PROVE PaceInv' /\ CatchesUp'
  OBVIOUS
<1>1. /\ calm = 0 /\ calm' = 1
      /\ UNCHANGED <<late_scanline_ctr, q_tmds_valid, idle>>
  BY DEF Settle, vars, irqvars, ring
<1> QED
  BY <1>1, FramesOfBlankLines, PaceConstants DEF PacedInductive, PaceInv, CatchesUp

LEMMA PacedStays ==
  ASSUME PacedInductive, UNCHANGED pvars
  PROVE  PacedInductive'
<1>1. UNCHANGED vars /\ UNCHANGED <<v_state, v_ctr, q_tmds_valid, late_scanline_ctr, idle, calm>>
  BY DEF pvars, vars, ring, irqvars
<1>2. Inductive'
  BY <1>1, StutterInductive DEF PacedInductive
<1> QED
  BY <1>1, <1>2
  DEF PacedInductive, PaceInv, CatchesUp, Ahead, HalfRow, BlankSoFar, InPicture

\* The speed of the renderer only restricts the ring: each theorem about the ring
\* holds of it.
THEOREM PaceOnlyRestricts == PacedSpec => Spec
<1>1. PacedInit => Init
  BY DEF PacedInit
<1>2. [PacedNext]_pvars => [Next]_vars
  BY DEF PacedNext, PacedRenderer, PacedIrq, Settle, Next, pvars
<1> QED
  BY <1>1, <1>2, PTL DEF PacedSpec, Spec

\* In every reachable state each blank line since the first picture that ended has
\* made up for a line that was late, unless nothing is late any more (dvi.c:210-216).
THEOREM PacedInductiveInvariant == PacedSpec => []PacedInductive
<1>1. PacedInit => PacedInductive
  <2> SUFFICES ASSUME PacedInit PROVE PacedInductive
    OBVIOUS
  <2>1. Inductive /\ calm = 0 /\ idle = 0 /\ late_scanline_ctr = 0
    BY InitInductive DEF PacedInit, Init
  <2> QED
    BY <2>1, FramesOfBlankLines, PaceConstants
    DEF PacedInductive, PaceInv, CatchesUp
<1>2. PacedInductive /\ [PacedNext]_pvars => PacedInductive'
  <2> SUFFICES ASSUME PacedInductive, [PacedNext]_pvars PROVE PacedInductive'
    OBVIOUS
  <2>1. Inductive'
    BY NextInductive
    DEF PacedInductive, PacedNext, PacedRenderer, PacedIrq, Settle, Next, pvars
  <2>2. CASE PacedRenderer
    BY <2>1, <2>2, RendererKeepsPace DEF PacedInductive
  <2>3. CASE PacedIrq
    BY <2>1, <2>3, IrqPaceInv, IrqCatchesUp DEF PacedInductive
  <2>4. CASE Settle
    BY <2>1, <2>4, SettleKeepsPace DEF PacedInductive
  <2>5. CASE UNCHANGED pvars
    BY <2>5, PacedStays
  <2> QED
    BY <2>2, <2>3, <2>4, <2>5 DEF PacedNext
<1> QED
  BY <1>1, <1>2, PTL DEF PacedSpec

\* However late the renderer was: once it keeps the pace of the output each line of
\* the picture shows a scanline as soon as the blanking has made up for the late
\* rows, and so it stays (dvi.c:210-216).
THEOREM LatenessEnds == PacedSpec => Recovered
<1> DEFINE Shown == calm > RecoveryFrames /\ timing' # timing
                      /\ ~ BlankLine(v_state', v_ctr', scanline_emulation)
                      => dma_list' # NoBuf
<1>1. PacedInductive /\ [PacedNext]_pvars => [Shown]_pvars
  <2> SUFFICES ASSUME PacedInductive, PacedNext, calm > RecoveryFrames, timing' # timing,
                      ~ BlankLine(v_state', v_ctr', scanline_emulation)
               PROVE  dma_list' # NoBuf
    OBVIOUS
  <2>1. PacedIrq
    <3>1. ~ PacedRenderer
      BY RendererSends DEF PacedRenderer, PacedInductive, timing
    <3>2. ~ Settle
      BY DEF Settle, vars, irqvars, timing
    <3> QED
      BY <3>1, <3>2 DEF PacedNext
  <2>2. Inductive /\ Irq /\ IrqPrologue /\ dvi_timing_state_advance
    BY <2>1 DEF PacedInductive, PacedIrq, Irq, IrqBlank, IrqPeek, IrqTake, IrqMissing,
                IrqPrologue
  <2>3. InPicture'
    BY <2>2, PictureLine
  <2>4. Ahead >= 2
    <3>1. calm = RecoveryFrames + 1
      BY PacedTypes
    <3>2. BlankSoFar >= BlankLines - Border - 1
      BY <2>2, <2>3, LineKinds, PaceConstants
    <3> QED
      BY <3>1, <3>2, AheadForGood
  <2>5. late_scanline_ctr = 0 /\ q_tmds_valid # << >>
    <3>1. late_scanline_ctr = 0
      BY <2>4, PacedTypes DEF Ahead
    <3>2. CASE Waiting
      <4>1. Len(q_tmds_valid) >= 2
        BY <2>2, <3>2, WaitingLead
      <4> QED
        BY <3>1, <4>1, PacedTypes
    <3>3. CASE ~ Waiting
      <4>1. idle < 2 /\ idle \in Nat
        BY <2>1, <3>3, PacedTypes, PaceConstants DEF PacedIrq
      <4> QED
        BY <2>4, <3>1, <4>1, PacedTypes DEF Ahead
    <3> QED
      BY <3>1, <3>2, <3>3
  <2>6. OnTime = q_tmds_valid
    BY <2>2, <2>5, SkippedLines
  <2>7. dma_list' = Head(q_tmds_valid)
    BY <2>2, <2>5, <2>6 DEF Irq, IrqBlank, IrqPeek, IrqTake, IrqMissing
  <2> QED
    BY <2>2, <2>5, <2>7, TailElements, BlankAssumption DEF Inductive, TypeOK
<1> QED
  BY <1>1, PacedInductiveInvariant, PTL DEF PacedSpec, Recovered

\* The renderer and the interrupt never wait for each other: what is rendered finds
\* room, and while the renderer waits for a buffer (tmds.h:56-58) the interrupt has one
\* to give back.
THEOREM NeverBothWait == Spec => []NeverStuck
<1>1. Inductive => NeverStuck
  <2> SUFFICES ASSUME Inductive PROVE NeverStuck
    OBVIOUS
  <2> DEFINE free   == Len(q_tmds_free)
             sent   == Len(q_tmds_valid)
             held   == Len(cells)
             mine   == One(work)
             first  == One(tmds_buf_release)
             second == One(tmds_buf_release_next)
             all    == Cardinality(Buffers)
  <2>1. /\ free \in Nat /\ sent \in Nat /\ held \in Nat /\ mine \in 0 .. 1
        /\ first \in 0 .. 1 /\ second \in 0 .. 1 /\ all \in Nat
        /\ all >= 5 /\ all <= QueueSize /\ QueueSize \in Nat
    BY PaceConstants, BufferAssumption DEF Inductive, TypeOK, One
  <2>2. free + sent + held + mine + first + second = all
    BY DEF Inductive, CountInv
  <2> HIDE DEF free, sent, held, mine, first, second, all
  <2>3. ASSUME work # NoBuf \/ (row < rows /\ ~ LacksCells /\ SendsOriginal)
        PROVE  sent < QueueSize
    <3>1. CASE work # NoBuf
      <4>1. mine = 1
        BY <3>1 DEF mine, One
      <4> QED
        BY <2>1, <2>2, <4>1
    <3>2. CASE row < rows /\ ~ LacksCells /\ SendsOriginal
      <4>1. InCells /\ (k = CellRepeat - 1 \/ k = 2 * CellRepeat - 1)
        BY <3>2 DEF SendsOriginal
      <4>2. /\ 0 < k /\ k < CellRepeat => held = 2
            /\ CellRepeat <= k => held = 1
        BY <3>2, <4>1 DEF held, Inductive, RendererInv
      <4>3. k = 0 => ~ held < 2
        BY <3>2, <4>1 DEF held, LacksCells
      <4>4. held > 0
        BY <2>1, <4>1, <4>2, <4>3, Geometry
      <4> QED
        BY <2>1, <2>2, <4>4
    <3> QED
      BY <2>3, <3>1, <3>2
  <2>4. ASSUME Waiting
        PROVE  \/ q_tmds_valid # << >>
               \/ {tmds_buf_release, tmds_buf_release_next} # {NoBuf}
    <3>1. sent >= 2
      BY <2>4, WaitingLead DEF sent
    <3> QED
      BY <3>1 DEF sent
  <2> QED
    BY <2>3, <2>4 DEF NeverStuck, sent
<1> QED
  BY <1>1, InductiveInvariant, PTL
=============================================================================
