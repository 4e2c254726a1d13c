---------------------------- MODULE DviInvariant ----------------------------
(***************************************************************************)
(* The inductive invariant of DviScanout, in named parts.                  *)
(***************************************************************************)
EXTENDS DviScanout, Integers

One(b) == IF b = NoBuf THEN 0 ELSE 1

\* The buffers add up ...
CountInv ==
  Len(q_tmds_free) + Len(q_tmds_valid) + Len(cells) + One(work)
    + One(tmds_buf_release) + One(tmds_buf_release_next) = Cardinality(Buffers)

\* ... and none is in two places.
Slots == {work, tmds_buf_release, tmds_buf_release_next}

DistinctInv ==
  /\ \A i, j \in 1 .. Len(q_tmds_free) :
       q_tmds_free[i] = q_tmds_free[j] => i = j
  /\ \A i, j \in 1 .. Len(q_tmds_valid) :
       q_tmds_valid[i].buf = q_tmds_valid[j].buf => i = j
  /\ \A i, j \in 1 .. Len(cells) : cells[i] = cells[j] => i = j
  /\ \A i \in 1 .. Len(q_tmds_free) :
       /\ \A j \in 1 .. Len(q_tmds_valid) : q_tmds_free[i] # q_tmds_valid[j].buf
       /\ \A j \in 1 .. Len(cells) : q_tmds_free[i] # cells[j]
       /\ q_tmds_free[i] \notin Slots
  /\ \A i \in 1 .. Len(q_tmds_valid) :
       /\ \A j \in 1 .. Len(cells) : q_tmds_valid[i].buf # cells[j]
       /\ q_tmds_valid[i].buf \notin Slots
  /\ \A i \in 1 .. Len(cells) : cells[i] \notin Slots
  /\ work # NoBuf => work \notin {tmds_buf_release, tmds_buf_release_next}
  /\ tmds_buf_release # NoBuf => tmds_buf_release # tmds_buf_release_next

\* The renderer has the buffers that its place in the frame calls for.
RendererInv ==
  /\ phase = "start" => rows = 0
  /\ phase = "body" => rows = TextRows
  /\ row = rows => k = 0 /\ work = NoBuf
  /\ InCells /\ row < rows =>
       /\ k = 0 => Len(cells) <= 2
       /\ 0 < k /\ k < CellRepeat => Len(cells) = 2
       /\ CellRepeat <= k => Len(cells) = 1
       /\ work # NoBuf => ~ LacksCells /\ ~ SendsOriginal
  /\ ~ (InCells /\ row < rows) => cells = << >>

\* The line it draws next follows from that place.
AboveBody == IF mode = "videx" THEN 0 ELSE 2
BelowBody == IF mode = "videx" THEN 1 ELSE 2

LineInv ==
  /\ phase = "start" => line \in {0, Lines}
  /\ phase = "top" => /\ rows = AboveBody
                      /\ line = row * GlyphLines + k
  /\ phase = "body" => line = AboveBody * GlyphLines + row * Height + k
  /\ phase = "bottom" => /\ rows = BelowBody
                         /\ line = Lines - (rows - row) * GlyphLines + k

\* What is sent, or about to be sent, is still in the queue (first line of a
\* row) or on its way through the release pipeline (second line).
InPicture == v_state = "ACTIVE" /\ v_ctr >= Border /\ v_ctr < Border + 2 * Lines

PipelineInv ==
  /\ dma_list # NoBuf => InPicture
  /\ dma_list # NoBuf /\ v_ctr % 2 = 0 =>
       /\ late_scanline_ctr = 0
       /\ q_tmds_valid # << >>
       /\ dma_list = Head(q_tmds_valid)
  /\ dma_list # NoBuf /\ v_ctr % 2 = 1 => dma_list.buf = tmds_buf_release_next
  /\ dma_sending # NoBuf =>
       dma_sending.buf \in {tmds_buf_release, tmds_buf_release_next}
  /\ tmds_buf_release_next # NoBuf => InPicture /\ v_ctr % 2 = 1
  /\ tmds_buf_release # NoBuf => v_ctr % 2 = 0

Inductive ==
  TypeOK /\ CountInv /\ DistinctInv /\ RendererInv /\ LineInv /\ PipelineInv
=============================================================================
