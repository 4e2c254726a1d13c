-------------------------- MODULE DviScanoutProofs --------------------------
(***************************************************************************)
(* Proofs that the buffer ring is safe for every number of buffers and     *)
(* every screen geometry.                                                  *)
(***************************************************************************)
EXTENDS DviInvariant, TLAPS, FiniteSetTheorems, SequenceTheorems

-----------------------------------------------------------------------------
(* Arithmetic of the screen geometry.                                      *)

\* A row more is its scanlines more, and fewer rows have fewer scanlines.
LEMMA Multiples ==
  ASSUME NEW h \in Nat, NEW a \in Nat, NEW b \in Nat
  PROVE  /\ a * h \in Nat
         /\ (a + 1) * h = a * h + h
         /\ a <= b => a * h <= b * h
  OBVIOUS

LEMMA Geometry ==
  /\ GlyphLines \in Nat \ {0} /\ Lines \in Nat \ {0}
  /\ CellRepeat \in Nat \ {0} /\ GlyphLines = 2 * CellRepeat
  /\ TextRows \in Nat /\ Border \in Nat /\ Border % 2 = 0
  /\ VidexGlyphLines \in Nat \ {0}
  /\ TextRows * GlyphLines \in Nat /\ TextRows * VidexGlyphLines \in Nat
  /\ Lines = TextRows * GlyphLines + 4 * GlyphLines
  /\ Lines = TextRows * VidexGlyphLines + GlyphLines
  BY GeometryAssumption, Multiples DEF GlyphLines, Lines

-----------------------------------------------------------------------------
(* The initial state.                                                      *)

LEMMA InitInductive == Init => Inductive
<1> SUFFICES ASSUME Init PROVE Inductive
  OBVIOUS
<1>1. Cardinality(Buffers) \in Nat
  BY BufferAssumption, FS_CardinalityType
<1>2. q_tmds_free \in Seq(Buffers) /\ Len(q_tmds_free) = Cardinality(Buffers)
  BY <1>1 DEF Init
<1>3. TypeOK
  BY <1>2, Geometry, BufferAssumption, GeometryAssumption
  DEF Init, TypeOK, Durations, Modes, Height
<1>4. CountInv
  BY <1>1, <1>2 DEF Init, CountInv, One
<1>5. DistinctInv
  BY <1>2, BufferAssumption DEF Init, DistinctInv, Slots
<1>6. RendererInv /\ LineInv /\ PipelineInv
  BY <1>2 DEF Init, RendererInv, LineInv, PipelineInv, InCells
<1> QED BY <1>3, <1>4, <1>5, <1>6 DEF Inductive

-----------------------------------------------------------------------------
(* The renderer's steps between two scanlines move no buffer.              *)

\* The buffers stay where they are.
LEMMA BuffersStay ==
  ASSUME CountInv, DistinctInv,
         UNCHANGED <<q_tmds_free, q_tmds_valid, cells, work,
                     tmds_buf_release, tmds_buf_release_next>>
  PROVE  CountInv' /\ DistinctInv'
<1>1. CountInv'
  BY DEF CountInv, One
<1>2. /\ q_tmds_free' = q_tmds_free /\ q_tmds_valid' = q_tmds_valid
      /\ cells' = cells /\ work' = work
      /\ tmds_buf_release' = tmds_buf_release
      /\ tmds_buf_release_next' = tmds_buf_release_next
  OBVIOUS
<1>3. DistinctInv'
  BY <1>2, Zenon DEF DistinctInv, Slots
<1> QED BY <1>1, <1>3

LEMMA StartFrameInductive == Inductive /\ StartFrame => Inductive'
<1> SUFFICES ASSUME Inductive, StartFrame PROVE Inductive'
  OBVIOUS
<1> USE DEF Inductive, StartFrame, Enter, ring, irqvars
<1>1. TypeOK'
  BY Geometry DEF TypeOK, Durations, Modes, Height, DebugRows
<1>2. CountInv' /\ DistinctInv'
  BY BuffersStay
<1>3. RendererInv'
  <2>1. work = NoBuf /\ cells = << >>
    BY DEF RendererInv, InCells, TypeOK
  <2>2. phase' = "top" /\ k' = 0 /\ work' = NoBuf /\ cells' = << >>
    BY <2>1
  <2> QED BY <2>2 DEF RendererInv, InCells
<1>4. LineInv'
  BY Geometry DEF LineInv, DebugRows, AboveBody
<1>5. PipelineInv'
  BY DEF PipelineInv, InPicture
<1> QED BY <1>1, <1>2, <1>3, <1>4, <1>5

LEMMA StartBodyInductive == Inductive /\ StartBody => Inductive'
<1> SUFFICES ASSUME Inductive, StartBody PROVE Inductive'
  OBVIOUS
<1> USE DEF Inductive, StartBody, Enter, ring, irqvars
<1>1. TypeOK'
  BY Geometry DEF TypeOK, Durations, Modes, Height
<1>2. CountInv' /\ DistinctInv'
  BY BuffersStay
<1>3. RendererInv'
  BY Geometry DEF RendererInv, InCells, LacksCells, SendsOriginal, TypeOK
<1>4. LineInv'
  BY Geometry DEF LineInv, RendererInv, AboveBody, Height, TypeOK, Modes
<1>5. PipelineInv'
  BY DEF PipelineInv, InPicture
<1> QED BY <1>1, <1>2, <1>3, <1>4, <1>5

LEMMA StartBottomInductive == Inductive /\ StartBottom => Inductive'
<1> SUFFICES ASSUME Inductive, StartBottom PROVE Inductive'
  OBVIOUS
<1> USE DEF Inductive, StartBottom, Enter, ring, irqvars
<1>1. TypeOK'
  BY Geometry DEF TypeOK, Durations, Modes, Height, DebugRows
<1>2. CountInv' /\ DistinctInv'
  BY BuffersStay
<1>3. RendererInv'
  BY DEF RendererInv, InCells, LacksCells, SendsOriginal, TypeOK
<1>4. LineInv'
  BY Geometry
  DEF LineInv, RendererInv, AboveBody, BelowBody, Height, DebugRows, TypeOK, Modes
<1>5. PipelineInv'
  BY DEF PipelineInv, InPicture
<1> QED BY <1>1, <1>2, <1>3, <1>4, <1>5

LEMMA EndFrameInductive == Inductive /\ EndFrame => Inductive'
<1> SUFFICES ASSUME Inductive, EndFrame PROVE Inductive'
  OBVIOUS
<1> USE DEF Inductive, EndFrame, Enter, ring, irqvars
<1>1. TypeOK'
  BY Geometry DEF TypeOK, Durations, Modes, Height
<1>2. CountInv' /\ DistinctInv'
  BY BuffersStay
<1>3. RendererInv'
  BY DEF RendererInv, InCells, LacksCells, SendsOriginal, TypeOK
<1>4. LineInv'
  BY Geometry DEF LineInv, RendererInv, TypeOK
<1>5. PipelineInv'
  BY DEF PipelineInv, InPicture
<1> QED BY <1>1, <1>2, <1>3, <1>4, <1>5

-----------------------------------------------------------------------------
(* The renderer takes a buffer from the free queue.                        *)

\* What the library's operators do to a queue, element by element.
LEMMA TailElements ==
  ASSUME NEW S, NEW s \in Seq(S), s # << >>
  PROVE  /\ Head(s) = s[1] /\ Head(s) \in S
         /\ Tail(s) \in Seq(S) /\ Len(Tail(s)) = Len(s) - 1
         /\ \A i \in 1 .. Len(s) - 1 : Tail(s)[i] = s[i + 1]
  OBVIOUS

LEMMA AppendElements ==
  ASSUME NEW S, NEW s \in Seq(S), NEW e \in S
  PROVE  /\ Append(s, e) \in Seq(S) /\ Len(Append(s, e)) = Len(s) + 1
         /\ \A i \in 1 .. Len(s) : Append(s, e)[i] = s[i]
         /\ Append(s, e)[Len(s) + 1] = e
  OBVIOUS

LEMMA GetCellInductive == Inductive /\ GetCell => Inductive'
<1> SUFFICES ASSUME Inductive, GetCell PROVE Inductive'
  OBVIOUS
<1> USE DEF Inductive, GetCell, irqvars
<1>1. TypeOK'
  BY Geometry DEF TypeOK, Durations, Modes, Height
<1>2. CountInv'
  BY DEF CountInv, One, TypeOK
<1>3. DistinctInv'
  <2> DEFINE h == q_tmds_free[1]
  <2>1. /\ Head(q_tmds_free) = h /\ h \in Buffers /\ h # NoBuf
        /\ Len(q_tmds_free') = Len(q_tmds_free) - 1
        /\ \A i \in 1 .. Len(q_tmds_free') : q_tmds_free'[i] = q_tmds_free[i + 1]
    BY TailElements, BufferAssumption DEF TypeOK
  <2>2. /\ Len(cells') = Len(cells) + 1 /\ cells'[Len(cells) + 1] = h
        /\ \A i \in 1 .. Len(cells) : cells'[i] = cells[i]
    BY <2>1, AppendElements DEF TypeOK
  <2>3. Len(q_tmds_free) \in Nat \ {0} /\ Len(q_tmds_valid) \in Nat /\ Len(cells) \in Nat
    BY DEF TypeOK
  <2> HIDE DEF h
  <2>4. UNCHANGED <<q_tmds_valid, Slots>>
    BY DEF Slots
  <2>5. /\ \A i \in 1 .. Len(cells) : cells[i] # h /\ cells[i] \notin Slots
        /\ h \notin Slots
        /\ \A i \in 1 .. Len(q_tmds_valid) : h # q_tmds_valid[i].buf
    <3>1. 1 \in 1 .. Len(q_tmds_free)
      BY <2>3
    <3> QED BY <3>1, Zenon DEF DistinctInv, h
  <2>6. \A i, j \in 1 .. Len(cells') : cells'[i] = cells'[j] => i = j
    BY <2>2, <2>3, <2>5 DEF DistinctInv
  <2>7. \A i \in 1 .. Len(q_tmds_free') :
          /\ q_tmds_free'[i] # h
          /\ \A j \in 1 .. Len(cells') : q_tmds_free'[i] # cells'[j]
          /\ \A j \in 1 .. Len(q_tmds_valid) : q_tmds_free'[i] # q_tmds_valid[j].buf
          /\ q_tmds_free'[i] \notin Slots
    BY <2>1, <2>2, <2>3 DEF DistinctInv, h
  <2>8. \A i, j \in 1 .. Len(q_tmds_free') :
          q_tmds_free'[i] = q_tmds_free'[j] => i = j
    BY <2>1, <2>3 DEF DistinctInv
  <2>9. /\ \A i \in 1 .. Len(cells') : cells'[i] \notin Slots
        /\ \A i \in 1 .. Len(q_tmds_valid), j \in 1 .. Len(cells') :
             q_tmds_valid[i].buf # cells'[j]
    BY <2>2, <2>3, <2>5 DEF DistinctInv
  <2> QED BY <2>4, <2>6, <2>7, <2>8, <2>9 DEF DistinctInv, Slots
<1>4. RendererInv'
  BY Geometry DEF RendererInv, InCells, LacksCells, SendsOriginal, TypeOK
<1>5. LineInv' /\ PipelineInv'
  BY DEF LineInv, PipelineInv, InPicture, Height, AboveBody, BelowBody
<1> QED BY <1>1, <1>2, <1>3, <1>4, <1>5

LEMMA GetLineInductive == Inductive /\ GetLine => Inductive'
<1> SUFFICES ASSUME Inductive, GetLine PROVE Inductive'
  OBVIOUS
<1> USE DEF Inductive, GetLine, irqvars
<1>1. TypeOK'
  BY Geometry DEF TypeOK, Durations, Modes, Height
<1>2. CountInv'
  BY BufferAssumption DEF CountInv, One, TypeOK
<1>3. DistinctInv'
  <2> DEFINE h == q_tmds_free[1]
  <2>1. /\ work' = h /\ h \in Buffers /\ h # NoBuf
        /\ Len(q_tmds_free') = Len(q_tmds_free) - 1
        /\ \A i \in 1 .. Len(q_tmds_free') : q_tmds_free'[i] = q_tmds_free[i + 1]
    BY TailElements, BufferAssumption DEF TypeOK
  <2>2. Len(q_tmds_free) \in Nat \ {0} /\ Len(q_tmds_valid) \in Nat /\ Len(cells) \in Nat
    BY DEF TypeOK
  <2>3. /\ \A i \in 1 .. Len(q_tmds_valid) : q_tmds_valid[i].buf # h
        /\ \A i \in 1 .. Len(cells) : cells[i] # h
        /\ h \notin Slots
    <3>1. 1 \in 1 .. Len(q_tmds_free)
      BY <2>2
    <3> QED BY <3>1, Zenon DEF DistinctInv
  <2>4. \A i \in 1 .. Len(q_tmds_free') :
          /\ i + 1 \in 1 .. Len(q_tmds_free) /\ q_tmds_free'[i] = q_tmds_free[i + 1]
          /\ q_tmds_free[i + 1] # h
    BY <2>1, <2>2 DEF DistinctInv
  <2> HIDE DEF h
  <2>5. \A i, j \in 1 .. Len(q_tmds_free') :
          q_tmds_free'[i] = q_tmds_free'[j] => i = j
    BY <2>1, <2>2, <2>4 DEF DistinctInv
  <2>6. \A i \in 1 .. Len(q_tmds_free') :
          /\ \A j \in 1 .. Len(q_tmds_valid) : q_tmds_free'[i] # q_tmds_valid[j].buf
          /\ \A j \in 1 .. Len(cells) : q_tmds_free'[i] # cells[j]
          /\ q_tmds_free'[i] \notin Slots
    <3>1. \A i \in 1 .. Len(q_tmds_free) :
            /\ \A j \in 1 .. Len(q_tmds_valid) : q_tmds_free[i] # q_tmds_valid[j].buf
            /\ \A j \in 1 .. Len(cells) : q_tmds_free[i] # cells[j]
            /\ q_tmds_free[i] \notin Slots
      BY Zenon DEF DistinctInv
    <3> HIDE DEF Slots
    <3> SUFFICES ASSUME NEW i \in 1 .. Len(q_tmds_free')
                 PROVE  /\ \A j \in 1 .. Len(q_tmds_valid) : q_tmds_free'[i] # q_tmds_valid[j].buf
                        /\ \A j \in 1 .. Len(cells) : q_tmds_free'[i] # cells[j]
                        /\ q_tmds_free'[i] \notin Slots
      OBVIOUS
    <3>2. i + 1 \in 1 .. Len(q_tmds_free) /\ q_tmds_free'[i] = q_tmds_free[i + 1]
      BY <2>4
    <3> QED BY <3>1, <3>2
  <2> QED BY <2>1, <2>3, <2>5, <2>6 DEF DistinctInv, Slots
<1>4. RendererInv'
  BY Geometry DEF RendererInv, InCells, LacksCells, SendsOriginal, TypeOK
<1>5. LineInv' /\ PipelineInv'
  BY DEF LineInv, PipelineInv, InPicture, Height, AboveBody, BelowBody
<1> QED BY <1>1, <1>2, <1>3, <1>4, <1>5

-----------------------------------------------------------------------------
(* The renderer sends a scanline.                                          *)

\* The renderer's place gives a line of the frame, and moves on with it.
LEMMA LineAdvances ==
  ASSUME Inductive, row < rows, NEW b, Send(b)
  PROVE  line \in 0 .. Lines - 1 /\ LineInv' /\ row' \in 0 .. rows /\ k' \in 0 .. Height - 1
<1> USE DEF Inductive, TypeOK
<1>1. phase # "start" /\ Height \in Nat \ {0}
  BY Geometry DEF RendererInv, Height
<1>2. /\ UNCHANGED <<phase, mode, rows>> /\ Height' = Height
      /\ AboveBody' = AboveBody /\ BelowBody' = BelowBody
      /\ line' = line + 1
  BY DEF Send, Height, AboveBody, BelowBody
<1>3. CASE k + 1 = Height
  <2>1. row' = row + 1 /\ k' = 0
    BY <1>3 DEF Send
  <2>2. CASE phase = "top"
    <3>1. Height = GlyphLines /\ line = row * GlyphLines + k /\ rows = AboveBody
      BY <2>2 DEF Height, LineInv
    <3>2. (row + 1) * GlyphLines = row * GlyphLines + GlyphLines
          /\ (row + 1) * GlyphLines <= 2 * GlyphLines
      BY <3>1, Geometry DEF AboveBody
    <3> QED BY <1>1, <1>2, <1>3, <2>1, <2>2, <3>1, <3>2, Geometry DEF LineInv
  <2>3. CASE phase = "body"
    <3>1. line = AboveBody * GlyphLines + row * Height + k /\ rows = TextRows
      BY <2>3 DEF LineInv, RendererInv
    <3>2. (row + 1) * Height = row * Height + Height
          /\ row * Height \in Nat
          /\ (row + 1) * Height <= TextRows * Height
      BY <1>1, <3>1, Geometry, Multiples
    <3>3. AboveBody * GlyphLines + TextRows * Height <= Lines
      BY <2>3, Geometry DEF AboveBody, Height
    <3>4. AboveBody * GlyphLines \in Nat /\ TextRows * Height \in Nat
          /\ Lines \in Nat /\ k \in Nat /\ Height \in Nat
      BY <1>1, Geometry, Multiples DEF AboveBody
    <3> DEFINE above == AboveBody * GlyphLines
               here  == row * Height
               next  == (row + 1) * Height
               all   == TextRows * Height
    <3> HIDE DEF above, here, next, all
    <3>5. line + 1 = AboveBody * GlyphLines + (row + 1) * Height
      <4>1. line = above + here + k /\ next = here + Height
        BY <3>1, <3>2 DEF above, here, next
      <4>2. above \in Nat /\ here \in Nat
        BY <3>2, <3>4 DEF above, here
      <4>3. line + 1 = above + next
        BY <1>3, <3>4, <4>1, <4>2
      <4> QED BY <4>3 DEF above, next
    <3>6. line + 1 <= Lines
      BY <3>2, <3>3, <3>4, <3>5 DEF above, here, next, all
    <3> QED BY <1>1, <1>2, <1>3, <2>1, <2>3, <3>1, <3>4, <3>5, <3>6, SMTT(30) DEF LineInv
  <2>4. CASE phase = "bottom"
    <3>1. /\ Height = GlyphLines /\ rows = BelowBody
          /\ line = Lines - (rows - row) * GlyphLines + k
      BY <2>4 DEF Height, LineInv
    <3>2. rows - row \in 1 .. 2
      BY <3>1 DEF BelowBody
    <3>3. (rows - (row + 1)) * GlyphLines = (rows - row) * GlyphLines - GlyphLines
          /\ (rows - row) * GlyphLines <= 2 * GlyphLines
          /\ (rows - (row + 1)) * GlyphLines \in Nat
      BY <3>2, Geometry
    <3>4. line + 1 = Lines - (rows - (row + 1)) * GlyphLines
      BY <1>3, <3>1, <3>2, <3>3, Geometry
    <3> QED BY <1>1, <1>2, <1>3, <2>1, <2>4, <3>1, <3>3, <3>4, Geometry DEF LineInv
  <2> QED BY <1>1, <2>2, <2>3, <2>4
<1>4. CASE k + 1 # Height
  <2>1. row' = row /\ k' = k + 1 /\ k + 1 < Height
    BY <1>1, <1>4 DEF Send
  <2>2. CASE phase = "top"
    <3>1. Height = GlyphLines /\ line = row * GlyphLines + k /\ rows = AboveBody
      BY <2>2 DEF Height, LineInv
    <3>2. row * GlyphLines \in Nat /\ row * GlyphLines <= GlyphLines
      BY <3>1, Geometry DEF AboveBody
    <3> QED BY <1>1, <1>2, <2>1, <2>2, <3>1, <3>2, Geometry DEF LineInv
  <2>3. CASE phase = "body"
    <3>1. line = AboveBody * GlyphLines + row * Height + k /\ rows = TextRows
      BY <2>3 DEF LineInv, RendererInv
    <3>2. (row + 1) * Height = row * Height + Height
          /\ row * Height \in Nat
          /\ (row + 1) * Height <= TextRows * Height
      BY <1>1, <3>1, Geometry, Multiples
    <3>3. AboveBody * GlyphLines + TextRows * Height <= Lines
      BY <2>3, Geometry DEF AboveBody, Height
    <3>4. AboveBody * GlyphLines \in Nat /\ TextRows * Height \in Nat
          /\ Lines \in Nat /\ k \in Nat /\ Height \in Nat
      BY <1>1, Geometry, Multiples DEF AboveBody
    <3> DEFINE above == AboveBody * GlyphLines
               here  == row * Height
               next  == (row + 1) * Height
               all   == TextRows * Height
    <3> HIDE DEF above, here, next, all
    <3>5. line + 1 = AboveBody * GlyphLines + row * Height + (k + 1)
      BY <3>1, <3>2, <3>4, SMTT(30) DEF above, here
    <3>6. line + 1 <= Lines
      BY <2>1, <3>2, <3>3, <3>4, <3>5, SMTT(30) DEF above, here, next, all
    <3> QED BY <1>1, <1>2, <2>1, <2>3, <3>1, <3>4, <3>5, <3>6 DEF LineInv
  <2>4. CASE phase = "bottom"
    <3>1. /\ Height = GlyphLines /\ rows = BelowBody
          /\ line = Lines - (rows - row) * GlyphLines + k
      BY <2>4 DEF Height, LineInv
    <3>2. (rows - row) * GlyphLines \in Nat /\ (rows - row) * GlyphLines >= GlyphLines
      BY <3>1, Geometry DEF BelowBody
    <3> QED BY <1>1, <1>2, <2>1, <2>4, <3>1, <3>2, Geometry DEF LineInv
  <2> QED BY <1>1, <2>2, <2>3, <2>4
<1> QED BY <1>3, <1>4

\* A scanline joins the end of the queue.
LEMMA SendAppends ==
  ASSUME Inductive, line \in 0 .. Lines - 1, NEW b \in Buffers, Send(b)
  PROVE  /\ q_tmds_valid' \in Seq(Scanline)
         /\ Len(q_tmds_valid') = Len(q_tmds_valid) + 1
         /\ \A i \in 1 .. Len(q_tmds_valid) : q_tmds_valid'[i] = q_tmds_valid[i]
         /\ q_tmds_valid'[Len(q_tmds_valid) + 1].buf = b
         /\ PipelineInv'
<1> DEFINE e == [buf |-> b, line |-> line]
<1>1. e \in Scanline /\ e.buf = b
  BY DEF Scanline
<1>2. q_tmds_valid \in Seq(Scanline) /\ q_tmds_valid' = Append(q_tmds_valid, e)
  BY DEF Inductive, TypeOK, Send
<1> HIDE DEF e
<1>3. /\ q_tmds_valid' \in Seq(Scanline)
      /\ Len(q_tmds_valid') = Len(q_tmds_valid) + 1
      /\ \A i \in 1 .. Len(q_tmds_valid) : q_tmds_valid'[i] = q_tmds_valid[i]
      /\ q_tmds_valid'[Len(q_tmds_valid) + 1].buf = b
  BY <1>1, <1>2, AppendElements
<1>4. q_tmds_valid # << >> => q_tmds_valid' # << >>
                               /\ Head(q_tmds_valid') = Head(q_tmds_valid)
  BY <1>2, <1>3
<1>5. PipelineInv'
  BY <1>4 DEF Send, irqvars, PipelineInv, InPicture, Inductive
<1> QED BY <1>3, <1>5

LEMMA SendLineInductive == Inductive /\ SendLine => Inductive'
<1> SUFFICES ASSUME Inductive, SendLine PROVE Inductive'
  OBVIOUS
<1>1. /\ work \in Buffers /\ row < rows /\ Send(work) /\ work' = NoBuf
      /\ cells' = cells /\ q_tmds_free' = q_tmds_free
      /\ UNCHANGED irqvars /\ UNCHANGED <<scanline_emulation, phase, mode, rows>>
  BY DEF SendLine, Send, Inductive, TypeOK, RendererInv
<1>2. line \in 0 .. Lines - 1 /\ LineInv' /\ row' \in 0 .. rows /\ k' \in 0 .. Height - 1
  BY <1>1, LineAdvances
<1>3. /\ q_tmds_valid' \in Seq(Scanline)
      /\ Len(q_tmds_valid') = Len(q_tmds_valid) + 1
      /\ \A i \in 1 .. Len(q_tmds_valid) : q_tmds_valid'[i] = q_tmds_valid[i]
      /\ q_tmds_valid'[Len(q_tmds_valid) + 1].buf = work
      /\ PipelineInv'
  BY <1>1, <1>2, SendAppends
<1>4. line' \in 0 .. Lines
  BY <1>1, <1>2, Geometry DEF Send
<1>5. TypeOK'
  BY <1>1, <1>2, <1>3, <1>4 DEF Inductive, TypeOK, irqvars, Height
<1>6. CountInv'
  BY <1>1, <1>3, BufferAssumption DEF Inductive, TypeOK, CountInv, One, irqvars
<1>7. DistinctInv'
  <2>1. /\ Len(q_tmds_free) \in Nat /\ Len(q_tmds_valid) \in Nat /\ Len(cells) \in Nat
        /\ Slots' \subseteq (Slots \ {work}) \cup {NoBuf}
    BY <1>1 DEF Inductive, TypeOK, Slots, irqvars, DistinctInv
  <2>2. /\ \A i \in 1 .. Len(q_tmds_free) : q_tmds_free[i] # work
        /\ \A i \in 1 .. Len(q_tmds_valid) : q_tmds_valid[i].buf # work
        /\ \A i \in 1 .. Len(cells) : cells[i] # work
        /\ work # NoBuf /\ work \notin Slots'
    BY <1>1, <2>1, BufferAssumption DEF Inductive, DistinctInv, Slots
  <2>3. /\ \A i \in 1 .. Len(q_tmds_free) : q_tmds_free[i] \notin Slots'
        /\ \A i \in 1 .. Len(cells) : cells[i] \notin Slots'
        /\ \A i \in 1 .. Len(q_tmds_valid) : q_tmds_valid[i].buf \notin Slots'
    <3>1. NoBuf \notin Buffers
      BY BufferAssumption
    <3>2. /\ \A i \in 1 .. Len(q_tmds_free) : q_tmds_free[i] \in Buffers
          /\ \A i \in 1 .. Len(cells) : cells[i] \in Buffers
          /\ \A i \in 1 .. Len(q_tmds_valid) : q_tmds_valid[i].buf \in Buffers
      <4>1. \A i \in 1 .. Len(q_tmds_valid) : q_tmds_valid[i] \in Scanline
        BY DEF Inductive, TypeOK
      <4>2. \A e \in Scanline : e.buf \in Buffers
        BY DEF Scanline
      <4> QED BY <4>1, <4>2 DEF Inductive, TypeOK
    <3> QED BY <2>1, <3>1, <3>2 DEF Inductive, DistinctInv
  <2>4. \A i, j \in 1 .. Len(q_tmds_valid') :
          q_tmds_valid'[i].buf = q_tmds_valid'[j].buf => i = j
    BY <1>3, <2>1, <2>2 DEF Inductive, DistinctInv
  <2>5. \A i \in 1 .. Len(q_tmds_valid') :
          /\ \A j \in 1 .. Len(q_tmds_free) : q_tmds_free[j] # q_tmds_valid'[i].buf
          /\ \A j \in 1 .. Len(cells) : q_tmds_valid'[i].buf # cells[j]
          /\ q_tmds_valid'[i].buf \notin Slots'
    BY <1>3, <2>1, <2>2, <2>3 DEF Inductive, DistinctInv
  <2> QED BY <1>1, <2>3, <2>4, <2>5 DEF Inductive, DistinctInv, irqvars
<1>8. RendererInv'
  <2>1. CASE InCells
    <3>1. ~ LacksCells /\ ~ SendsOriginal /\ Height = 2 * CellRepeat
      BY <1>1, <2>1, Geometry, BufferAssumption DEF Inductive, RendererInv, InCells, Height
    <3>2. row' = row /\ k' = k + 1 /\ k + 1 # CellRepeat
      BY <1>1, <2>1, <3>1, Geometry DEF Inductive, TypeOK, SendsOriginal, Send
    <3>3. InCells' /\ ~ LacksCells'
      BY <1>1, <2>1, <3>2 DEF InCells, LacksCells, Inductive, TypeOK
    <3>4. /\ k' < CellRepeat => Len(cells) = 2
          /\ CellRepeat <= k' => Len(cells) = 1
      <4>1. k \in Nat /\ cells \in Seq(Buffers)
        BY <3>1, Geometry DEF Inductive, TypeOK
      <4>2. k = 0 => Len(cells) = 2
        <5>1. RendererInv /\ ~ LacksCells /\ InCells /\ row < rows
          BY <1>1, <2>1, <3>1 DEF Inductive
        <5>2. k = 0 => Len(cells) <= 2
          BY <1>1, <2>1, <4>1 DEF Inductive, TypeOK, RendererInv
        <5>3. k = 0 => ~ Len(cells) < 2
          BY <5>1 DEF LacksCells
        <5> DEFINE m == Len(cells)
        <5>4. m \in Nat /\ (k = 0 => m <= 2) /\ (k = 0 => ~ m < 2)
          BY <4>1, <5>2, <5>3
        <5> HIDE DEF m
        <5>5. k = 0 => m = 2
          BY <4>1, <5>4
        <5> QED BY <5>5 DEF m
      <4>3. k # 0 /\ k < CellRepeat => Len(cells) = 2
        BY <1>1, <2>1, <4>1 DEF Inductive, RendererInv
      <4>4. CellRepeat <= k => Len(cells) = 1
        BY <1>1, <2>1 DEF Inductive, RendererInv
      <4>5. k + 1 < CellRepeat => k < CellRepeat
        BY <4>1, Geometry
      <4>6. CellRepeat <= k + 1 => CellRepeat <= k
        BY <3>2, <4>1, Geometry
      <4> QED BY <3>2, <4>2, <4>3, <4>4, <4>5, <4>6
    <3> QED BY <1>1, <2>1, <3>2, <3>3, <3>4 DEF Inductive, TypeOK, RendererInv
  <2>2. CASE ~ InCells
    <3>1. cells = << >> /\ ~ InCells'
      BY <1>1, <2>2, GeometryAssumption DEF Inductive, TypeOK, RendererInv, InCells, Send
    <3>2. row' = rows' => k' = 0
      BY <1>1 DEF Inductive, TypeOK, Send
    <3> QED BY <1>1, <3>1, <3>2 DEF Inductive, RendererInv
  <2> QED BY <2>1, <2>2
<1> QED BY <1>2, <1>3, <1>5, <1>6, <1>7, <1>8 DEF Inductive

LEMMA SendCellInductive == Inductive /\ SendCell => Inductive'
<1> SUFFICES ASSUME Inductive, SendCell PROVE Inductive'
  OBVIOUS
<1> DEFINE h == cells[1]
<1>1. cells # << >> /\ work = NoBuf
  BY Geometry
  DEF Inductive, TypeOK, SendCell, RendererInv, LacksCells, SendsOriginal
<1>2. /\ h \in Buffers /\ Head(cells) = h
      /\ cells' \in Seq(Buffers) /\ Len(cells') = Len(cells) - 1
      /\ \A i \in 1 .. Len(cells') : cells'[i] = cells[i + 1]
  BY <1>1, TailElements DEF SendCell, Inductive, TypeOK
<1>3. /\ row < rows /\ Send(h) /\ work' = work /\ q_tmds_free' = q_tmds_free
      /\ UNCHANGED irqvars /\ UNCHANGED <<scanline_emulation, phase, mode, rows>>
  BY <1>2 DEF SendCell, Send
<1>4. line \in 0 .. Lines - 1 /\ LineInv' /\ row' \in 0 .. rows /\ k' \in 0 .. Height - 1
  BY <1>3, LineAdvances
<1>5. /\ q_tmds_valid' \in Seq(Scanline)
      /\ Len(q_tmds_valid') = Len(q_tmds_valid) + 1
      /\ \A i \in 1 .. Len(q_tmds_valid) : q_tmds_valid'[i] = q_tmds_valid[i]
      /\ q_tmds_valid'[Len(q_tmds_valid) + 1].buf = h
      /\ PipelineInv'
  BY <1>2, <1>3, <1>4, SendAppends
<1>6. line' \in 0 .. Lines
  BY <1>3, <1>4, Geometry DEF Send
<1>7. TypeOK'
  BY <1>2, <1>3, <1>4, <1>5, <1>6 DEF Inductive, TypeOK, irqvars, Height
<1>8. CountInv'
  BY <1>2, <1>3, <1>5 DEF Inductive, TypeOK, CountInv, One, irqvars
<1>9. DistinctInv'
  <2>1. /\ Len(q_tmds_free) \in Nat /\ Len(q_tmds_valid) \in Nat
        /\ Len(cells) \in Nat \ {0} /\ Slots' = Slots
    BY <1>1, <1>3 DEF Inductive, TypeOK, Slots, irqvars
  <2>2. /\ \A i \in 1 .. Len(q_tmds_free) : q_tmds_free[i] # h
        /\ \A i \in 1 .. Len(q_tmds_valid) : q_tmds_valid[i].buf # h
        /\ h \notin Slots
    BY <2>1 DEF Inductive, DistinctInv
  <2>7. \A j \in 1 .. Len(cells) : j # 1 => cells[j] # h
    <3>1. 1 \in 1 .. Len(cells)
      BY <2>1
    <3> QED BY <3>1, Zenon DEF Inductive, DistinctInv
  <2>3. \A i, j \in 1 .. Len(q_tmds_valid') :
          q_tmds_valid'[i].buf = q_tmds_valid'[j].buf => i = j
    BY <1>5, <2>1, <2>2 DEF Inductive, DistinctInv
  <2>4. \A i \in 1 .. Len(q_tmds_valid') :
          /\ \A j \in 1 .. Len(q_tmds_free) : q_tmds_free[j] # q_tmds_valid'[i].buf
          /\ \A j \in 1 .. Len(cells') : q_tmds_valid'[i].buf # cells'[j]
          /\ q_tmds_valid'[i].buf \notin Slots
    <3>1. \A i \in 1 .. Len(q_tmds_valid) :
            /\ \A j \in 1 .. Len(q_tmds_free) : q_tmds_free[j] # q_tmds_valid[i].buf
            /\ \A j \in 1 .. Len(cells) : q_tmds_valid[i].buf # cells[j]
            /\ q_tmds_valid[i].buf \notin Slots
      BY Zenon DEF Inductive, DistinctInv
    <3>2. \A j \in 1 .. Len(cells') : cells'[j] = cells[j + 1] /\ j + 1 \in 1 .. Len(cells)
      BY <1>2, <2>1
    <3>3. \A j \in 1 .. Len(cells') : cells'[j] # h
      BY <1>2, <2>1, <2>7, <3>2
    <3>4. \A i \in 1 .. Len(q_tmds_valid') :
            \/ i \in 1 .. Len(q_tmds_valid) /\ q_tmds_valid'[i].buf = q_tmds_valid[i].buf
            \/ q_tmds_valid'[i].buf = h
      BY <1>5, <2>1
    <3> HIDE DEF h
    <3> QED BY <2>2, <3>1, <3>2, <3>3, <3>4, ZenonT(60)
  <2>5. \A i, j \in 1 .. Len(cells') : cells'[i] = cells'[j] => i = j
    <3> SUFFICES ASSUME NEW i \in 1 .. Len(cells'), NEW j \in 1 .. Len(cells'),
                        cells'[i] = cells'[j]
                 PROVE  i = j
      OBVIOUS
    <3>1. cells[i + 1] = cells[j + 1] /\ i + 1 \in 1 .. Len(cells) /\ j + 1 \in 1 .. Len(cells)
      BY <1>2, <2>1
    <3>2. i + 1 = j + 1
      BY <3>1 DEF Inductive, DistinctInv
    <3> QED BY <3>2
  <2>6. \A i \in 1 .. Len(cells') :
          /\ \A j \in 1 .. Len(q_tmds_free) : q_tmds_free[j] # cells'[i]
          /\ cells'[i] \notin Slots
    <3>1. \A j \in 1 .. Len(cells') : cells'[j] = cells[j + 1] /\ j + 1 \in 1 .. Len(cells)
      BY <1>2, <2>1
    <3> QED BY <3>1, Zenon DEF Inductive, DistinctInv
  <2> HIDE DEF h
  <2> QED BY <1>3, <2>1, <2>3, <2>4, <2>5, <2>6 DEF Inductive, DistinctInv, irqvars
<1>10. RendererInv'
  <2>1. /\ InCells /\ ~ LacksCells /\ k \in {CellRepeat - 1, 2 * CellRepeat - 1}
        /\ Height = 2 * CellRepeat
    BY Geometry DEF SendCell, SendsOriginal, InCells, Height
  <2>2. CASE k = 2 * CellRepeat - 1
    <3>1. Len(cells) = 1 /\ cells' = << >> /\ row' = row + 1 /\ k' = 0
      <4>1. Len(cells) = 1
        BY <1>3, <2>1, <2>2, Geometry DEF Inductive, RendererInv
      <4>2. Len(cells') = 0 /\ row' = row + 1 /\ k' = 0
        BY <1>2, <1>3, <2>1, <2>2, <4>1, Geometry DEF Send
      <4> QED BY <1>2, <4>1, <4>2
    <3> QED BY <1>1, <1>3, <3>1, Geometry DEF Inductive, RendererInv
  <2>3. CASE k # 2 * CellRepeat - 1
    <3>1. row' = row /\ k' = CellRepeat /\ k = CellRepeat - 1
      BY <1>3, <2>1, <2>3, Geometry DEF Send, Inductive, TypeOK
    <3>2. Len(cells) = 2 /\ Len(cells') = 1
      BY <1>2, <1>3, <2>1, <3>1, Geometry, SMTT(30)
      DEF Inductive, TypeOK, RendererInv, LacksCells
    <3>3. InCells'
      BY <1>3, <2>1, <3>1 DEF InCells
    <3>4. row' < rows' /\ k' # 0 /\ CellRepeat <= k' /\ work' = NoBuf
      BY <1>1, <1>3, <3>1, Geometry
    <3>5. row' # rows' /\ (phase' = "start" => rows' = 0) /\ (phase' = "body" => rows' = TextRows)
      BY <1>3, <3>1 DEF Inductive, TypeOK, RendererInv
    <3>6. /\ row' \in Int /\ rows' \in Int /\ k' \in Int
      BY <1>3, <3>1, Geometry DEF Inductive, TypeOK
    <3> QED BY <3>2, <3>3, <3>4, <3>5, <3>6, Geometry DEF RendererInv
  <2> QED BY <2>2, <2>3
<1> QED BY <1>4, <1>5, <1>7, <1>8, <1>9, <1>10 DEF Inductive

-----------------------------------------------------------------------------
(* What the interrupt does to the queues before it selects a scanline.     *)

LEMMA SkippedLines ==
  ASSUME Inductive
  PROVE  /\ Skipped \in 0 .. Len(q_tmds_valid)
         /\ LateLeft \in 0 .. MaxLate
         /\ OnTime \in Seq(Scanline)
         /\ Len(OnTime) = Len(q_tmds_valid) - Skipped
         /\ \A i \in 1 .. Len(OnTime) : OnTime[i] = q_tmds_valid[Skipped + i]
         /\ OnTime # << >> => LateLeft = 0
         /\ late_scanline_ctr = 0 => Skipped = 0 /\ OnTime = q_tmds_valid
<1>1. /\ q_tmds_valid \in Seq(Scanline) /\ Len(q_tmds_valid) \in Nat
      /\ late_scanline_ctr \in 0 .. MaxLate /\ MaxLate \in Nat
  BY BufferAssumption DEF Inductive, TypeOK
<1>2. Skipped \in 0 .. Len(q_tmds_valid) /\ Skipped <= late_scanline_ctr
      /\ LateLeft \in 0 .. MaxLate
  BY <1>1 DEF Skipped, LateLeft
<1>3. /\ OnTime \in Seq(Scanline)
      /\ Len(OnTime) = Len(q_tmds_valid) - Skipped
      /\ \A i \in 1 .. Len(OnTime) : OnTime[i] = q_tmds_valid[Skipped + i]
  BY <1>1, <1>2 DEF OnTime
<1>4. OnTime # << >> => LateLeft = 0
  <2>1. OnTime # << >> => Skipped # Len(q_tmds_valid)
    BY <1>1, <1>2, <1>3
  <2> QED BY <1>1, <2>1 DEF Skipped, LateLeft
<1>5. late_scanline_ctr = 0 => Skipped = 0 /\ OnTime = q_tmds_valid
  <2>1. late_scanline_ctr = 0 => Skipped = 0
    BY <1>1, <1>2
  <2>2. Skipped = 0 => \A i \in 1 .. Len(q_tmds_valid) : OnTime[i] = q_tmds_valid[i]
    BY <1>1, <1>3
  <2>3. Skipped = 0 => Len(OnTime) = Len(q_tmds_valid)
    BY <1>1, <1>3
  <2>4. Skipped = 0 => OnTime = q_tmds_valid
    BY <1>1, <1>3, <2>2, <2>3, SeqEqual
  <2> QED BY <2>1, <2>4
<1> QED BY <1>2, <1>3, <1>4, <1>5

LEMMA ReturnedBuffers ==
  ASSUME Inductive
  PROVE  /\ Released \in Seq(Buffers)
         /\ Len(Released) = Len(q_tmds_free) + One(tmds_buf_release)
         /\ \A i \in 1 .. Len(q_tmds_free) : Released[i] = q_tmds_free[i]
         /\ tmds_buf_release # NoBuf =>
              Released[Len(q_tmds_free) + 1] = tmds_buf_release
         /\ Returned \in Seq(Buffers)
         /\ Len(Returned) = Len(Released) + Skipped
         /\ \A i \in 1 .. Len(Released) : Returned[i] = Released[i]
         /\ \A i \in 1 .. Skipped :
              Returned[Len(Released) + i] = q_tmds_valid[i].buf
<1>1. /\ Released \in Seq(Buffers)
      /\ Len(Released) = Len(q_tmds_free) + One(tmds_buf_release)
      /\ \A i \in 1 .. Len(q_tmds_free) : Released[i] = q_tmds_free[i]
      /\ tmds_buf_release # NoBuf =>
           Released[Len(q_tmds_free) + 1] = tmds_buf_release
  BY DEF Inductive, TypeOK, Released, One
<1> DEFINE skip == [i \in 1 .. Skipped |-> q_tmds_valid[i].buf]
<1>2. skip \in Seq(Buffers) /\ Len(skip) = Skipped
  <2>1. \A i \in 1 .. Skipped : q_tmds_valid[i] \in Scanline
    BY SkippedLines DEF Inductive, TypeOK
  <2>2. \A e \in Scanline : e.buf \in Buffers
    BY DEF Scanline
  <2>3. \A i \in 1 .. Skipped : q_tmds_valid[i].buf \in Buffers
    BY <2>1, <2>2
  <2>4. Skipped \in Nat
    BY SkippedLines DEF Inductive, TypeOK
  <2> QED BY <2>3, <2>4
<1>3. \A i \in 1 .. Skipped : skip[i] = q_tmds_valid[i].buf
  OBVIOUS
<1>4. Returned = Released \o skip
  BY DEF Returned
<1>5. Len(Released) \in Nat /\ Skipped \in Nat
  BY <1>1, SkippedLines DEF Inductive, TypeOK
<1> HIDE DEF skip
<1>6. /\ Returned \in Seq(Buffers)
      /\ Len(Returned) = Len(Released) + Skipped
  BY <1>1, <1>2, <1>4, <1>5, ConcatProperties
<1>7. /\ \A i \in 1 .. Len(Released) : Returned[i] = Released[i]
      /\ \A i \in 1 .. Skipped : Returned[Len(Released) + i] = skip[i]
  <2> DEFINE r == Released
  <2>1. r \in Seq(Buffers) /\ Returned = r \o skip /\ Len(r) \in Nat
    BY <1>1, <1>4, <1>5
  <2> HIDE DEF r
  <2>2. \A i \in 1 .. Len(r) + Len(skip) :
          Returned[i] = IF i <= Len(r) THEN r[i] ELSE skip[i - Len(r)]
    BY <1>2, <2>1
  <2>3. \A i \in 1 .. Len(r) : Returned[i] = r[i]
    BY <1>2, <1>5, <2>1, <2>2
  <2>4. ASSUME NEW i \in 1 .. Skipped PROVE Returned[Len(r) + i] = skip[i]
    <3>1. Len(r) + i \in 1 .. Len(r) + Len(skip) /\ ~ (Len(r) + i <= Len(r))
          /\ (Len(r) + i) - Len(r) = i
      BY <1>2, <1>5, <2>1
    <3> QED BY <2>2, <3>1
  <2> QED BY <2>3, <2>4 DEF r
<1> QED BY <1>1, <1>3, <1>6, <1>7

\* The interrupt never finds q_tmds_free full.
LEMMA RoomInFreeQueue == Inductive => FreeQueueHasRoom
<1> SUFFICES ASSUME Inductive PROVE Len(Returned) <= QueueSize
  BY DEF FreeQueueHasRoom
<1>1. Len(Returned) = Len(q_tmds_free) + One(tmds_buf_release) + Skipped
  BY ReturnedBuffers
<1>2. Skipped \in 0 .. Len(q_tmds_valid)
  BY SkippedLines
<1>3. /\ Len(q_tmds_free) \in Nat /\ Len(q_tmds_valid) \in Nat /\ Len(cells) \in Nat
      /\ One(work) \in 0 .. 1 /\ One(tmds_buf_release) \in 0 .. 1
      /\ One(tmds_buf_release_next) \in 0 .. 1
  BY DEF Inductive, TypeOK, One
<1>4. Cardinality(Buffers) <= QueueSize /\ Cardinality(Buffers) \in Nat
      /\ QueueSize \in Nat
  BY BufferAssumption
<1> QED BY <1>1, <1>2, <1>3, <1>4 DEF Inductive, CountInv

\* The late counter returns what it takes from the one queue to the other: no
\* buffer is lost.
LEMMA Moved ==
  ASSUME NEW a \in Nat, NEW b \in Nat, NEW c \in Nat, NEW w \in Nat,
         NEW r \in Nat, NEW n \in Nat, NEW s \in 0 .. b, NEW total,
         a + b + c + w + r + n = total
  PROVE  (a + r + s) + (b - s) + c + w + n = total
  OBVIOUS

LEMMA CountReturned ==
  ASSUME Inductive
  PROVE  Len(Returned) + Len(OnTime) + Len(cells) + One(work)
           + One(tmds_buf_release_next) = Cardinality(Buffers)
<1> DEFINE a == Len(q_tmds_free)
           b == Len(q_tmds_valid)
           c == Len(cells)
           w == One(work)
           r == One(tmds_buf_release)
           n == One(tmds_buf_release_next)
<1>1. /\ Len(Returned) = Len(q_tmds_free) + One(tmds_buf_release) + Skipped
      /\ Len(OnTime) = Len(q_tmds_valid) - Skipped
      /\ Skipped \in 0 .. Len(q_tmds_valid)
  BY ReturnedBuffers, SkippedLines
<1>2. /\ Len(q_tmds_free) \in Nat /\ Len(q_tmds_valid) \in Nat
      /\ Len(cells) \in Nat
  BY DEF Inductive, TypeOK
<1>3. One(work) \in Nat /\ One(tmds_buf_release) \in Nat /\ One(tmds_buf_release_next) \in Nat
  BY DEF One
<1>4. a + b + c + w + r + n = Cardinality(Buffers)
  BY Zenon DEF Inductive, CountInv
<1> HIDE DEF a, b, c, w, r, n
<1>5. /\ a \in Nat /\ b \in Nat /\ c \in Nat /\ w \in Nat /\ r \in Nat /\ n \in Nat
      /\ Skipped \in 0 .. b
  BY <1>1, <1>2, <1>3 DEF a, b, c, w, r, n
<1>6. (a + r + Skipped) + (b - Skipped) + c + w + n = Cardinality(Buffers)
  BY <1>4, <1>5, Moved
<1> QED BY <1>1, <1>6, Zenon DEF a, b, c, w, r, n

\* Distinct buffers stay distinct while some of them change their queue.
LEMMA ReturnedDistinct ==
  ASSUME Inductive
  PROVE  /\ \A i, j \in 1 .. Len(Returned) : Returned[i] = Returned[j] => i = j
         /\ \A i, j \in 1 .. Len(OnTime) : OnTime[i].buf = OnTime[j].buf => i = j
         /\ \A i \in 1 .. Len(Returned) :
              /\ \A j \in 1 .. Len(OnTime) : Returned[i] # OnTime[j].buf
              /\ \A j \in 1 .. Len(cells) : Returned[i] # cells[j]
              /\ Returned[i] \notin {work, tmds_buf_release_next}
         /\ \A i \in 1 .. Len(OnTime) :
              /\ \A j \in 1 .. Len(cells) : OnTime[i].buf # cells[j]
              /\ OnTime[i].buf \notin {work, tmds_buf_release_next}
<1> DEFINE f == Len(q_tmds_free)
           r == Len(Released)
           v == Len(q_tmds_valid)
<1>1. /\ Skipped \in Nat /\ Skipped <= v
      /\ f \in Nat /\ r \in Nat /\ v \in Nat /\ Len(cells) \in Nat
      /\ r = f \/ r = f + 1
      /\ tmds_buf_release = NoBuf => r = f
  <2>1. r = f + One(tmds_buf_release)
    BY ReturnedBuffers
  <2>2. f \in Nat /\ v \in Nat /\ Len(cells) \in Nat
    BY DEF Inductive, TypeOK
  <2>3. Skipped \in Nat /\ Skipped <= v
    BY <2>2, SkippedLines
  <2> QED BY <2>1, <2>2, <2>3 DEF One
<1>2. /\ Len(OnTime) = v - Skipped
      /\ \A i \in 1 .. Len(OnTime) : OnTime[i] = q_tmds_valid[Skipped + i]
  BY SkippedLines
<1>3. /\ \A i, j \in 1 .. f : q_tmds_free[i] = q_tmds_free[j] => i = j
      /\ \A i, j \in 1 .. v : q_tmds_valid[i].buf = q_tmds_valid[j].buf => i = j
      /\ \A i \in 1 .. f, j \in 1 .. v : q_tmds_free[i] # q_tmds_valid[j].buf
      /\ \A i \in 1 .. f, j \in 1 .. Len(cells) : q_tmds_free[i] # cells[j]
      /\ \A i \in 1 .. v, j \in 1 .. Len(cells) : q_tmds_valid[i].buf # cells[j]
      /\ \A i \in 1 .. f : q_tmds_free[i] \notin Slots
      /\ \A i \in 1 .. v : q_tmds_valid[i].buf \notin Slots
      /\ \A i \in 1 .. Len(cells) : cells[i] \notin Slots
      /\ tmds_buf_release # NoBuf =>
           tmds_buf_release \notin {work, tmds_buf_release_next}
  BY DEF Inductive, DistinctInv
<1>4. /\ Len(Returned) = r + Skipped
      /\ \A i \in 1 .. f : Returned[i] = q_tmds_free[i]
      /\ r = f + 1 => Returned[r] = tmds_buf_release /\ tmds_buf_release # NoBuf
      /\ \A i \in 1 .. Skipped : Returned[r + i] = q_tmds_valid[i].buf
  <2>1. /\ Len(Returned) = r + Skipped
        /\ \A i \in 1 .. Skipped : Returned[r + i] = q_tmds_valid[i].buf
        /\ \A i \in 1 .. r : Returned[i] = Released[i]
        /\ \A i \in 1 .. f : Released[i] = q_tmds_free[i]
        /\ tmds_buf_release # NoBuf => Released[f + 1] = tmds_buf_release
    BY ReturnedBuffers
  <2> HIDE DEF f, r, v
  <2>2. \A i \in 1 .. f : i \in 1 .. r
    BY <1>1
  <2>3. r = f + 1 => r \in 1 .. r /\ tmds_buf_release # NoBuf
    BY <1>1
  <2> QED BY <2>1, <2>2, <2>3
<1>5. Slots = {work, tmds_buf_release, tmds_buf_release_next}
  BY DEF Slots
<1> HIDE DEF f, r, v
<1>6. \A i \in 1 .. Len(Returned) :
        \/ i \in 1 .. f /\ Returned[i] = q_tmds_free[i]
        \/ i = r /\ r = f + 1 /\ Returned[i] = tmds_buf_release
           /\ tmds_buf_release # NoBuf
        \/ \E m \in 1 .. Skipped : i = r + m /\ Returned[i] = q_tmds_valid[m].buf
  <2> SUFFICES ASSUME NEW i \in 1 .. Len(Returned),
                      i \notin 1 .. f, ~ (i = r /\ r = f + 1)
               PROVE  \E m \in 1 .. Skipped :
                        i = r + m /\ Returned[i] = q_tmds_valid[m].buf
    BY <1>4
  <2>1. i - r \in 1 .. Skipped /\ i = r + (i - r)
    BY <1>1, <1>4, SMTT(30)
  <2> QED BY <1>4, <2>1
<1>7. \A m \in 1 .. Skipped : m \in 1 .. v
  BY <1>1
<1>8. \A i \in 1 .. Len(OnTime) : Skipped + i \in 1 .. v /\ Skipped + i \notin 1 .. Skipped
  BY <1>1, <1>2
<1>9. ASSUME NEW i \in 1 .. Len(Returned), NEW j \in 1 .. Len(Returned),
             Returned[i] = Returned[j]
      PROVE  i = j
  <2>1. CASE i \in 1 .. f /\ Returned[i] = q_tmds_free[i]
    <3>1. q_tmds_free[i] = Returned[j]
      BY <1>9, <2>1
    <3>2. j \in 1 .. f /\ Returned[j] = q_tmds_free[j]
      BY <1>3, <1>5, <1>6, <1>7, <2>1, <3>1
    <3> QED BY <1>3, <2>1, <3>1, <3>2
  <2>2. CASE /\ i = r /\ r = f + 1 /\ Returned[i] = tmds_buf_release
             /\ tmds_buf_release # NoBuf
    BY <1>3, <1>5, <1>6, <1>7, <1>9, <2>2
  <2>3. CASE \E m \in 1 .. Skipped : i = r + m /\ Returned[i] = q_tmds_valid[m].buf
    BY <1>3, <1>5, <1>6, <1>7, <1>9, <2>3
  <2> QED BY <1>6, <2>1, <2>2, <2>3
<1>10. ASSUME NEW i \in 1 .. Len(OnTime), NEW j \in 1 .. Len(OnTime),
              OnTime[i].buf = OnTime[j].buf
       PROVE  i = j
  <2>1. Skipped + i = Skipped + j
    BY <1>2, <1>3, <1>8, <1>10
  <2> QED BY <1>1, <2>1
<1>11. ASSUME NEW i \in 1 .. Len(Returned), NEW j \in 1 .. Len(OnTime)
       PROVE  Returned[i] # OnTime[j].buf
  <2>1. OnTime[j] = q_tmds_valid[Skipped + j] /\ Skipped + j \in 1 .. v
        /\ Skipped + j \notin 1 .. Skipped
    BY <1>2, <1>8
  <2> QED BY <1>3, <1>5, <1>6, <1>7, <2>1
<1>12. ASSUME NEW i \in 1 .. Len(Returned)
       PROVE  /\ \A j \in 1 .. Len(cells) : Returned[i] # cells[j]
              /\ Returned[i] \notin {work, tmds_buf_release_next}
  BY <1>3, <1>5, <1>6, <1>7
<1>13. ASSUME NEW i \in 1 .. Len(OnTime)
       PROVE  /\ \A j \in 1 .. Len(cells) : OnTime[i].buf # cells[j]
              /\ OnTime[i].buf \notin {work, tmds_buf_release_next}
  BY <1>2, <1>3, <1>5, <1>8
<1> QED BY <1>9, <1>10, <1>11, <1>12, <1>13

-----------------------------------------------------------------------------
(* What every interrupt keeps.                                             *)

LEMMA TimingAdvances ==
  ASSUME TypeOK, dvi_timing_state_advance
  PROVE  /\ v_state' \in DOMAIN Durations
         /\ v_ctr' \in 0 .. Durations[v_state'] - 1
         /\ v_ctr % 2 = 1 => v_ctr' % 2 = 0
         /\ InPicture /\ v_ctr % 2 = 0 =>
              /\ v_state' = "ACTIVE" /\ v_ctr' = v_ctr + 1 /\ v_ctr' % 2 = 1
              /\ v_ctr' >= Border /\ v_ctr' < Border + 2 * Lines
<1>1. /\ \A s \in DOMAIN Durations : Durations[s] \in Nat \ {0}
      /\ Durations["ACTIVE"] = 2 * Lines + 2 * Border
  BY Geometry, GeometryAssumption DEF Durations
<1>2. v_ctr \in Nat /\ v_state \in DOMAIN Durations
  BY <1>1 DEF TypeOK
<1>3. v_state' \in DOMAIN Durations
  BY <1>2 DEF dvi_timing_state_advance, Durations, FollowedBy
<1>4. v_ctr' \in 0 .. Durations[v_state'] - 1
  BY <1>1, <1>2, <1>3 DEF dvi_timing_state_advance, TypeOK
<1>5. v_ctr % 2 = 1 => v_ctr' % 2 = 0
  BY <1>2 DEF dvi_timing_state_advance
<1>6. ASSUME InPicture, v_ctr % 2 = 0
      PROVE  /\ v_state' = "ACTIVE" /\ v_ctr' = v_ctr + 1 /\ v_ctr' % 2 = 1
             /\ v_ctr' >= Border /\ v_ctr' < Border + 2 * Lines
  <2>1. v_ctr + 1 < Border + 2 * Lines
    BY <1>2, <1>6, Geometry DEF InPicture
  <2>2. v_ctr + 1 # Durations["ACTIVE"]
    BY <1>1, <1>2, <2>1, Geometry
  <2>3. v_state' = "ACTIVE" /\ v_ctr' = v_ctr + 1
    BY <1>6, <2>2 DEF InPicture, dvi_timing_state_advance
  <2> QED BY <1>2, <1>6, <2>1, <2>3, Geometry DEF InPicture
<1> QED BY <1>3, <1>4, <1>5, <1>6

LEMMA RendererUnchanged ==
  ASSUME Inductive, UNCHANGED renderer
  PROVE  RendererInv' /\ LineInv'
<1>1. UNCHANGED <<phase, mode, rows, row, k, cells, work, line>>
  BY DEF renderer
<1> QED BY <1>1 DEF Inductive, RendererInv, LineInv, InCells, LacksCells,
                    SendsOriginal, AboveBody, BelowBody, Height

\* The types after an interrupt that leaves `valid' in the queue.
LEMMA IrqTypes ==
  ASSUME Inductive, IrqPrologue,
         q_tmds_valid' \in Seq(Scanline),
         tmds_buf_release_next' \in Buffers \cup {NoBuf},
         late_scanline_ctr' \in 0 .. MaxLate,
         dma_list' \in Scanline \cup {NoBuf}
  PROVE  TypeOK'
<1>1. v_state' \in DOMAIN Durations /\ v_ctr' \in 0 .. Durations[v_state'] - 1
  BY TimingAdvances DEF Inductive, IrqPrologue
<1>2. q_tmds_free' \in Seq(Buffers)
  BY ReturnedBuffers DEF IrqPrologue
<1>3. UNCHANGED <<scanline_emulation, phase, mode, rows, row, k, cells, work, line>>
  BY DEF IrqPrologue, renderer
<1>4. Height' = Height
  BY <1>3 DEF Height
<1> QED BY <1>1, <1>2, <1>3, <1>4 DEF Inductive, TypeOK, IrqPrologue

\* The buffers after an interrupt that takes no scanline from the queue.
LEMMA NothingTaken ==
  ASSUME Inductive, IrqPrologue, q_tmds_valid' = OnTime,
         tmds_buf_release_next' = NoBuf
  PROVE  CountInv' /\ DistinctInv'
<1>1. /\ q_tmds_free' = Returned /\ tmds_buf_release' = tmds_buf_release_next
      /\ UNCHANGED <<work, cells>>
  BY DEF IrqPrologue, renderer
<1>2. CountInv'
  <2>1. /\ Len(Returned) = Len(q_tmds_free) + One(tmds_buf_release) + Skipped
        /\ Len(OnTime) = Len(q_tmds_valid) - Skipped
        /\ Skipped \in 0 .. Len(q_tmds_valid)
    BY ReturnedBuffers, SkippedLines
  <2>2. /\ Len(q_tmds_free) \in Nat /\ Len(q_tmds_valid) \in Nat
        /\ Len(cells) \in Nat
        /\ One(work) \in 0 .. 1 /\ One(tmds_buf_release) \in 0 .. 1
        /\ One(tmds_buf_release_next) \in 0 .. 1
    BY DEF Inductive, TypeOK, One
  <2>3. /\ One(work)' = One(work) /\ One(tmds_buf_release_next)' = 0
        /\ One(tmds_buf_release)' = One(tmds_buf_release_next)
    BY <1>1 DEF One
  <2>4. Len(Returned) + Len(OnTime) + Len(cells) + One(work)
          + One(tmds_buf_release_next) = Cardinality(Buffers)
    BY CountReturned
  <2>5. Len(Returned) \in Nat /\ Len(OnTime) \in Nat /\ Len(cells) \in Nat
    BY <2>1, <2>2
  <2>6. Len(Returned) + Len(OnTime) + Len(cells) + One(work)
          + One(tmds_buf_release_next) + 0 = Cardinality(Buffers)
    BY <2>2, <2>4, <2>5
  <2> QED BY <1>1, <2>3, <2>6, q_tmds_valid' = OnTime DEF CountInv
<1>3. DistinctInv'
  <2>1. /\ Slots' = {work, tmds_buf_release_next, NoBuf}
        /\ \A b \in Buffers : b # NoBuf
    BY <1>1, BufferAssumption DEF Slots
  <2>2. /\ \A i \in 1 .. Len(Returned) : Returned[i] \in Buffers
        /\ \A i \in 1 .. Len(OnTime) : OnTime[i].buf \in Buffers
        /\ \A i \in 1 .. Len(cells) : cells[i] \in Buffers
    <3>1. \A e \in Scanline : e.buf \in Buffers
      BY DEF Scanline
    <3>2. /\ Returned \in Seq(Buffers) /\ OnTime \in Seq(Scanline)
          /\ cells \in Seq(Buffers)
      BY ReturnedBuffers, SkippedLines DEF Inductive, TypeOK
    <3> QED BY <3>1, <3>2
  <2>3. /\ \A i, j \in 1 .. Len(cells) : cells[i] = cells[j] => i = j
        /\ \A i \in 1 .. Len(cells) : cells[i] \notin Slots
        /\ work # NoBuf => work \notin {tmds_buf_release, tmds_buf_release_next}
    BY DEF Inductive, DistinctInv
  <2> QED BY <1>1, <2>1, <2>2, <2>3, ReturnedDistinct DEF DistinctInv, Slots
<1> QED BY <1>2, <1>3

\* A scanline that was sent for the first time is there for the second.
LEMMA SecondLineFollows ==
  ASSUME Inductive, IrqPrologue, dma_list # NoBuf, v_ctr % 2 = 0
  PROVE  /\ ~ BlankLine(v_state', v_ctr', scanline_emulation)
         /\ SecondLine(v_ctr')
         /\ OnTime # << >> /\ Head(OnTime) = dma_list
<1>1. InPicture /\ late_scanline_ctr = 0 /\ q_tmds_valid # << >>
      /\ dma_list = Head(q_tmds_valid)
  BY DEF Inductive, PipelineInv
<1>2. /\ v_state' = "ACTIVE" /\ v_ctr' % 2 = 1
      /\ v_ctr' \in Nat /\ v_ctr' >= Border /\ v_ctr' < Border + 2 * Lines
  <2>1. TypeOK /\ dvi_timing_state_advance
    BY DEF Inductive, IrqPrologue
  <2>2. v_ctr' = v_ctr + 1 /\ v_ctr \in Nat
    BY <1>1, <2>1, TimingAdvances DEF TypeOK
  <2> QED BY <1>1, <2>1, <2>2, TimingAdvances
<1>3. OnTime = q_tmds_valid
  BY <1>1, SkippedLines
<1>4. ~ BlankLine(v_state', v_ctr', scanline_emulation)
  <2>1. ~ (v_ctr' < Border)
    BY <1>2, Geometry
  <2>2. ~ (v_ctr' >= Border + 2 * Lines)
    BY <1>2, Geometry
  <2>3. v_ctr' % 2 # 0
    <3>1. 1 # 0
      OBVIOUS
    <3> QED BY <1>2, <3>1, Zenon
  <2>4. v_state' = "ACTIVE"
    BY <1>2
  <2> QED BY <2>1, <2>2, <2>3, <2>4, Zenon DEF BlankLine
<1> QED BY <1>1, <1>2, <1>3, <1>4 DEF SecondLine

-----------------------------------------------------------------------------
(* The four ways the interrupt goes on.                                    *)

LEMMA IrqBlankInductive == Inductive /\ IrqBlank => Inductive'
<1> SUFFICES ASSUME Inductive, IrqBlank PROVE Inductive'
  OBVIOUS
<1>1. IrqPrologue /\ TypeOK /\ dvi_timing_state_advance
  BY DEF IrqBlank, IrqPrologue, Inductive
<1>2. TypeOK'
  BY <1>1, IrqTypes, SkippedLines DEF IrqBlank
<1>3. CountInv' /\ DistinctInv'
  BY <1>1, NothingTaken DEF IrqBlank
<1>4. RendererInv' /\ LineInv'
  BY <1>1, RendererUnchanged DEF IrqPrologue
<1>5. PipelineInv'
  <2>1. dma_list = NoBuf \/ v_ctr % 2 # 0
    BY <1>1, SecondLineFollows DEF IrqBlank
  <2>2. v_ctr % 2 \in {0, 1}
    BY Geometry, GeometryAssumption DEF Inductive, TypeOK, Durations
  <2> QED BY <1>1, <2>1, <2>2, TimingAdvances
          DEF IrqBlank, IrqPrologue, Inductive, PipelineInv, InPicture
<1> QED BY <1>2, <1>3, <1>4, <1>5 DEF Inductive

LEMMA IrqMissingInductive == Inductive /\ IrqMissing => Inductive'
<1> SUFFICES ASSUME Inductive, IrqMissing PROVE Inductive'
  OBVIOUS
<1>1. IrqPrologue /\ TypeOK /\ dvi_timing_state_advance
  BY DEF IrqMissing, IrqPrologue, Inductive
<1>2. TypeOK'
  <2>1. LateLeft \in 0 .. MaxLate /\ MaxLate \in Nat
    BY SkippedLines, BufferAssumption
  <2>2. late_scanline_ctr' \in 0 .. MaxLate
    BY <2>1 DEF IrqMissing
  <2> QED BY <1>1, <2>2, IrqTypes, SkippedLines DEF IrqMissing
<1>3. CountInv' /\ DistinctInv'
  BY <1>1, NothingTaken DEF IrqMissing
<1>4. RendererInv' /\ LineInv'
  BY <1>1, RendererUnchanged DEF IrqPrologue
<1>5. PipelineInv'
  <2>1. dma_list = NoBuf \/ v_ctr % 2 # 0
    BY <1>1, SecondLineFollows DEF IrqMissing
  <2>2. v_ctr % 2 \in {0, 1}
    BY Geometry, GeometryAssumption DEF Inductive, TypeOK, Durations
  <2> QED BY <1>1, <2>1, <2>2, TimingAdvances
          DEF IrqMissing, IrqPrologue, Inductive, PipelineInv, InPicture
<1> QED BY <1>2, <1>3, <1>4, <1>5 DEF Inductive

LEMMA IrqPeekInductive == Inductive /\ IrqPeek => Inductive'
<1> SUFFICES ASSUME Inductive, IrqPeek PROVE Inductive'
  OBVIOUS
<1>1. IrqPrologue /\ TypeOK /\ dvi_timing_state_advance
  BY DEF IrqPeek, IrqPrologue, Inductive
<1>2. OnTime \in Seq(Scanline) /\ OnTime # << >> /\ Head(OnTime) \in Scanline
      /\ LateLeft = 0 /\ LateLeft \in 0 .. MaxLate
  BY SkippedLines, TailElements DEF IrqPeek
<1>3. TypeOK'
  BY <1>1, <1>2, IrqTypes DEF IrqPeek
<1>4. CountInv' /\ DistinctInv'
  BY <1>1, NothingTaken DEF IrqPeek
<1>5. RendererInv' /\ LineInv'
  BY <1>1, RendererUnchanged DEF IrqPrologue
<1>6. PipelineInv'
  <2>1. dma_list = NoBuf \/ v_ctr % 2 # 0
    BY <1>1, SecondLineFollows DEF IrqPeek
  <2>2. v_ctr % 2 \in {0, 1}
    BY Geometry, GeometryAssumption DEF Inductive, TypeOK, Durations
  <2>3. InPicture'
    <3>1. v_ctr' \in Int
      BY <1>1, TimingAdvances, Geometry, GeometryAssumption DEF Durations
    <3>2. /\ v_state' = "ACTIVE" /\ ~ (v_ctr' < Border)
          /\ ~ (v_ctr' >= Border + 2 * Lines)
      BY DEF IrqPeek, BlankLine
    <3> QED BY <3>1, <3>2, Geometry DEF InPicture
  <2> QED BY <1>1, <1>2, <2>1, <2>2, <2>3, TimingAdvances
          DEF IrqPeek, IrqPrologue, Inductive, PipelineInv, SecondLine
<1> QED BY <1>3, <1>4, <1>5, <1>6 DEF Inductive

LEMMA IrqTakeInductive == Inductive /\ IrqTake => Inductive'
<1> SUFFICES ASSUME Inductive, IrqTake PROVE Inductive'
  OBVIOUS
<1> DEFINE t == OnTime[1]
<1>1. IrqPrologue /\ TypeOK /\ dvi_timing_state_advance
  BY DEF IrqTake, IrqPrologue, Inductive
<1>2. /\ OnTime \in Seq(Scanline) /\ OnTime # << >> /\ Head(OnTime) = t
      /\ t \in Scanline /\ t.buf \in Buffers /\ t.buf # NoBuf
      /\ LateLeft = 0 /\ LateLeft \in 0 .. MaxLate
  <2>1. \A e \in Scanline : e.buf \in Buffers
    BY DEF Scanline
  <2>2. /\ OnTime \in Seq(Scanline) /\ OnTime # << >> /\ Head(OnTime) = t
        /\ Head(OnTime) \in Scanline
    BY SkippedLines, TailElements DEF IrqTake
  <2> QED BY <2>1, <2>2, SkippedLines, BufferAssumption
<1>3. /\ q_tmds_valid' \in Seq(Scanline)
      /\ Len(q_tmds_valid') = Len(OnTime) - 1
      /\ \A i \in 1 .. Len(q_tmds_valid') : q_tmds_valid'[i] = OnTime[i + 1]
  BY <1>2, TailElements DEF IrqTake
<1>4. /\ q_tmds_free' = Returned /\ tmds_buf_release' = tmds_buf_release_next
      /\ tmds_buf_release_next' = t.buf /\ dma_list' = t
      /\ dma_sending' = dma_list /\ late_scanline_ctr' = 0
      /\ UNCHANGED <<work, cells, scanline_emulation>>
  BY <1>2 DEF IrqTake, IrqPrologue, renderer
<1> HIDE DEF t
<1>5. TypeOK'
  BY <1>1, <1>2, <1>3, <1>4, IrqTypes, BufferAssumption
<1>6. CountInv'
  <2>1. /\ Len(Returned) = Len(q_tmds_free) + One(tmds_buf_release) + Skipped
        /\ Len(OnTime) = Len(q_tmds_valid) - Skipped
        /\ Skipped \in 0 .. Len(q_tmds_valid)
    BY ReturnedBuffers, SkippedLines
  <2>2. /\ Len(q_tmds_free) \in Nat /\ Len(q_tmds_valid) \in Nat
        /\ Len(cells) \in Nat
        /\ One(work) \in 0 .. 1 /\ One(tmds_buf_release) \in 0 .. 1
        /\ One(tmds_buf_release_next) \in 0 .. 1
    BY DEF Inductive, TypeOK, One
  <2>3. /\ One(work)' = One(work) /\ One(tmds_buf_release_next)' = 1
        /\ One(tmds_buf_release)' = One(tmds_buf_release_next)
    BY <1>2, <1>4 DEF One
  <2>4. Len(Returned) + Len(OnTime) + Len(cells) + One(work)
          + One(tmds_buf_release_next) = Cardinality(Buffers)
    BY CountReturned
  <2>5. /\ Len(Returned) \in Nat /\ Len(OnTime) \in Nat /\ Len(cells) \in Nat
        /\ Len(q_tmds_valid') = Len(OnTime) - 1
    BY <1>3, <2>1, <2>2
  <2>6. Len(Returned) + Len(q_tmds_valid') + Len(cells) + One(work)
          + One(tmds_buf_release_next) + 1 = Cardinality(Buffers)
    BY <2>2, <2>4, <2>5
  <2> QED BY <1>4, <2>3, <2>6 DEF CountInv
<1>7. DistinctInv'
  <2>1. Slots' = {work, tmds_buf_release_next, t.buf}
    BY <1>4 DEF Slots
  <2>2. /\ Len(OnTime) \in Nat \ {0} /\ Len(cells) \in Nat
        /\ 1 \in 1 .. Len(OnTime)
    BY <1>2 DEF Inductive, TypeOK
  <2>3. /\ \A i, j \in 1 .. Len(cells) : cells[i] = cells[j] => i = j
        /\ \A i \in 1 .. Len(cells) : cells[i] \notin Slots
        /\ work # NoBuf => work \notin {tmds_buf_release, tmds_buf_release_next}
    BY DEF Inductive, DistinctInv
  <2>4. \A i \in 1 .. Len(q_tmds_valid') :
          /\ i + 1 \in 1 .. Len(OnTime) /\ i + 1 # 1
          /\ q_tmds_valid'[i] = OnTime[i + 1]
    BY <1>3, <2>2
  <2>5. /\ \A i \in 1 .. Len(Returned) :
             Returned[i] # t.buf /\ Returned[i] \notin {work, tmds_buf_release_next}
        /\ \A j \in 1 .. Len(cells) : cells[j] # t.buf
        /\ t.buf \notin {work, tmds_buf_release_next}
    BY <2>2, ReturnedDistinct DEF t
  <2>6. \A i, j \in 1 .. Len(q_tmds_valid') :
          q_tmds_valid'[i].buf = q_tmds_valid'[j].buf => i = j
    <3> SUFFICES ASSUME NEW i \in 1 .. Len(q_tmds_valid'),
                        NEW j \in 1 .. Len(q_tmds_valid'),
                        q_tmds_valid'[i].buf = q_tmds_valid'[j].buf
                 PROVE  i = j
      OBVIOUS
    <3>1. i + 1 = j + 1
      BY <2>4, ReturnedDistinct
    <3> QED BY <3>1
  <2>7. \A i \in 1 .. Len(q_tmds_valid') :
          /\ \A j \in 1 .. Len(Returned) : Returned[j] # q_tmds_valid'[i].buf
          /\ \A j \in 1 .. Len(cells) : q_tmds_valid'[i].buf # cells[j]
          /\ q_tmds_valid'[i].buf \notin {work, tmds_buf_release_next, t.buf}
    BY <2>2, <2>4, ReturnedDistinct DEF t
  <2>8. \A i, j \in 1 .. Len(Returned) : Returned[i] = Returned[j] => i = j
    BY ReturnedDistinct
  <2>9. \A i \in 1 .. Len(Returned), j \in 1 .. Len(cells) : Returned[i] # cells[j]
    BY ReturnedDistinct
  <2>10. \A i \in 1 .. Len(cells) : cells[i] \notin {work, tmds_buf_release_next, t.buf}
    BY <2>3, <2>5 DEF Slots
  <2> QED BY <1>4, <2>1, <2>3, <2>5, <2>6, <2>7, <2>8, <2>9, <2>10 DEF DistinctInv
<1>8. RendererInv' /\ LineInv'
  BY <1>1, RendererUnchanged DEF IrqPrologue
<1>9. PipelineInv'
  <2>1. v_ctr % 2 \in {0, 1}
    BY Geometry, GeometryAssumption DEF Inductive, TypeOK, Durations
  <2>2. dma_list # NoBuf /\ v_ctr % 2 = 0 => dma_list.buf = tmds_buf_release_next'
    BY <1>1, <1>2, <1>4, SecondLineFollows
  <2>3. dma_list # NoBuf /\ v_ctr % 2 = 1 => dma_list.buf = tmds_buf_release'
    BY <1>4 DEF Inductive, PipelineInv
  <2>4. v_ctr' \in Int /\ v_ctr' % 2 = 1
    BY <1>1, TimingAdvances, Geometry, GeometryAssumption
    DEF Durations, IrqTake, SecondLine
  <2>5. InPicture'
    <3>1. /\ v_state' = "ACTIVE" /\ ~ (v_ctr' < Border)
          /\ ~ (v_ctr' >= Border + 2 * Lines)
      BY DEF IrqTake, BlankLine
    <3> QED BY <2>4, <3>1, Geometry DEF InPicture
  <2>6. tmds_buf_release' # NoBuf => v_ctr' % 2 = 0
    BY <1>1, <1>4, TimingAdvances DEF Inductive, PipelineInv
  <2>7. dma_sending' # NoBuf =>
          dma_sending'.buf \in {tmds_buf_release', tmds_buf_release_next'}
    BY <1>4, <2>1, <2>2, <2>3
  <2>8. /\ dma_list'.buf = tmds_buf_release_next'
        /\ ~ (v_ctr' % 2 = 0)
    <3>1. 1 # 0
      OBVIOUS
    <3> QED BY <1>4, <2>4, <3>1, Zenon
  <2> QED BY <2>4, <2>5, <2>6, <2>7, <2>8 DEF PipelineInv
<1> QED BY <1>5, <1>6, <1>7, <1>8, <1>9 DEF Inductive

LEMMA StutterInductive == Inductive /\ UNCHANGED vars => Inductive'
<1> SUFFICES ASSUME Inductive, UNCHANGED vars PROVE Inductive'
  OBVIOUS
<1>1. UNCHANGED <<v_state, v_ctr, q_tmds_free, q_tmds_valid, tmds_buf_release_next,
                  tmds_buf_release, late_scanline_ctr, scanline_emulation,
                  dma_list, dma_sending>>
      /\ UNCHANGED <<phase, mode, rows, row, k, cells, work, line>>
  BY DEF vars, ring, irqvars, renderer
<1>2. TypeOK'
  BY <1>1 DEF Inductive, TypeOK, Height
<1>3. CountInv' /\ DistinctInv' /\ PipelineInv'
  BY <1>1 DEF Inductive, CountInv, One, DistinctInv, Slots, PipelineInv, InPicture
<1>4. RendererInv' /\ LineInv'
  BY <1>1, RendererUnchanged DEF renderer
<1> QED BY <1>2, <1>3, <1>4 DEF Inductive

-----------------------------------------------------------------------------
(* The theorems.                                                           *)

\* Inductive holds in every reachable state.
THEOREM InductiveInvariant == Spec => []Inductive
<1>1. Inductive /\ [Next]_vars => Inductive'
  <2> SUFFICES ASSUME Inductive, [Next]_vars PROVE Inductive'
    OBVIOUS
  <2>1. CASE Renderer
    BY <2>1, StartFrameInductive, StartBodyInductive, StartBottomInductive,
       EndFrameInductive, GetCellInductive, GetLineInductive,
       SendLineInductive, SendCellInductive DEF Renderer
  <2>2. CASE Irq
    BY <2>2, IrqBlankInductive, IrqPeekInductive, IrqTakeInductive,
       IrqMissingInductive DEF Irq
  <2>3. CASE UNCHANGED vars
    BY <2>3, StutterInductive
  <2> QED BY <2>1, <2>2, <2>3 DEF Next
<1> QED BY InitInductive, <1>1, PTL DEF Spec

\* Every variable of the ring keeps its type, the queues their elements' types.
THEOREM TypeCorrect == Spec => []TypeOK
<1>1. Inductive => TypeOK
  BY DEF Inductive
<1> QED BY <1>1, InductiveInvariant, PTL

\* The panic of dvi.c:198 and the blocking add of dvi.c:214 are unreachable.
THEOREM FreeQueueNeverFull == Spec => []FreeQueueHasRoom
  BY RoomInFreeQueue, InductiveInvariant, PTL

\* The renderer never holds, nor may it get, a buffer that the DMA still sends
\* or is about to send: a buffer is freed two interrupts after its last use.
THEOREM NeverTears == Spec => []NoTearing
<1>1. Inductive => NoTearing
  <2> SUFFICES ASSUME Inductive PROVE NoTearing
    OBVIOUS
  <2>1. /\ q_tmds_free \in Seq(Buffers) /\ q_tmds_valid \in Seq(Scanline)
        /\ cells \in Seq(Buffers) /\ work \in Buffers \cup {NoBuf}
        /\ NoBuf \notin Buffers
    BY BufferAssumption DEF Inductive, TypeOK, Scanline
  <2>2. /\ NoBuf \notin Held
        /\ \A i \in DOMAIN q_tmds_free : q_tmds_free[i] # NoBuf
    BY <2>1 DEF Held
  <2>3. \/ BufferOf(dma_list) \in {NoBuf, tmds_buf_release_next}
        \/ /\ q_tmds_valid # << >>
           /\ BufferOf(dma_list) = q_tmds_valid[1].buf
    <3>1. v_ctr % 2 \in {0, 1}
      BY Geometry, GeometryAssumption DEF Inductive, TypeOK, Durations
    <3>2. q_tmds_valid # << >> => Head(q_tmds_valid) = q_tmds_valid[1]
      BY <2>1
    <3> QED BY <3>1, <3>2 DEF Inductive, PipelineInv, BufferOf
  <2>4. BufferOf(dma_sending) \in {NoBuf, tmds_buf_release, tmds_buf_release_next}
    BY DEF Inductive, PipelineInv, BufferOf
  <2>5. ASSUME NEW b \in Held PROVE b \notin {BufferOf(dma_list), BufferOf(dma_sending)}
    BY <2>1, <2>2, <2>3, <2>4 DEF Held, Inductive, DistinctInv, Slots
  <2>6. ASSUME NEW i \in DOMAIN q_tmds_free
        PROVE  q_tmds_free[i] \notin {BufferOf(dma_list), BufferOf(dma_sending)}
    BY <2>1, <2>2, <2>3, <2>4 DEF Inductive, DistinctInv, Slots
  <2> QED BY <2>5, <2>6 DEF NoTearing
<1> QED BY <1>1, InductiveInvariant, PTL

\* Every frame has as many scanlines as the screen has rows, whatever is shown.
THEOREM FramesAreFull == Spec => []FullFrame
<1>1. Inductive => FullFrame
  BY DEF Inductive, LineInv, FullFrame
<1> QED BY <1>1, InductiveInvariant, PTL
=============================================================================
