--------------------------- MODULE DviRefinement ----------------------------
(***************************************************************************)
(* The buffer ring implements the line stream: the refinement mapping.     *)
(***************************************************************************)
EXTENDS DviScanout, Integers

\* What the DMA sends for a blank line is not a scanline of the renderer.
ASSUME BlankAssumption == NoBuf \notin Scanline

\* The output line of the frame, counted from the top of the active area.
beam ==
  CASE v_state = "ACTIVE"      -> v_ctr
    [] v_state = "FRONT_PORCH" -> Durations["ACTIVE"] + v_ctr
    [] v_state = "SYNC"        -> Durations["ACTIVE"] + VFrontPorch + v_ctr
    [] OTHER -> Durations["ACTIVE"] + VFrontPorch + VSyncWidth + v_ctr

\* Late rows count against the scanlines that wait for theirs.
lead == Len(q_tmds_valid) - late_scanline_ctr

shown == IF dma_list = NoBuf THEN NoBuf ELSE dma_list.line

Stream == INSTANCE LineStream WITH
            Blanking <- VFrontPorch + VSyncWidth + VBackPorch,
            MaxLead <- QueueSize, MaxLag <- MaxLate, Nothing <- NoBuf,
            alternate <- scanline_emulation

\* Every step of the queues, the late counter and the release pipeline is, for
\* the monitor, a step of the line stream: rows appear in order, a row shows its
\* scanline exactly when the renderer is ahead of the beam (dvi.c:191-267).
ImplementsStream == Stream!StreamSpec

\* ... and neither the beam nor the deliveries ever stop.
ImplementsFairStream == Stream!FairStreamSpec
=============================================================================
