---------------------------- MODULE PacedInvariant ----------------------------
(***************************************************************************)
(* The inductive invariant of PacedScanout: how much of what was late has  *)
(* been made up for, counted in output lines.                              *)
(***************************************************************************)
EXTENDS PacedScanout, DviInvariant

\* The first line of a row has been prepared, its second one has not.
HalfRow == IF InPicture /\ v_ctr % 2 = 0 THEN 1 ELSE 0

\* Output lines by which the renderer is ahead of the picture, two for a row.
\* Scanlines that come late are dropped at the next interrupt: one of them may
\* end the time that the renderer had, the others gain nothing yet.
Ahead ==
  IF late_scanline_ctr = 0 \/ q_tmds_valid = << >>
  THEN 2 * Len(q_tmds_valid) - 2 * late_scanline_ctr + idle - HalfRow
  ELSE 2 - 2 * late_scanline_ctr - HalfRow

\* Blank output lines prepared since the last picture ended.
BlankSoFar ==
  LET porches == VFrontPorch + VSyncWidth + VBackPorch
  IN  CASE v_state = "FRONT_PORCH" -> v_ctr
        [] v_state = "SYNC"        -> VFrontPorch + v_ctr
        [] v_state = "BACK_PORCH"  -> VFrontPorch + VSyncWidth + v_ctr
        [] OTHER ->
             porches - 1 + (IF v_ctr < Border THEN v_ctr + 1
                            ELSE IF InPicture THEN Border
                            ELSE v_ctr + 1 - 2 * Lines)

PaceInv ==
  /\ calm \in 0 .. RecoveryFrames + 1
  /\ idle \in 0 .. Pace
  /\ calm = 0 => idle = 0
  /\ late_scanline_ctr > 0 /\ q_tmds_valid # << >> => idle = 0

\* Once the first picture has ended each blank line makes up for another one,
\* until the renderer is ahead for good.
CatchesUp ==
  calm >= 2 =>
    \/ Ahead >= 2
    \/ Ahead + 2 * MaxLate > (calm - 2) * BlankLines + BlankSoFar

PacedInductive == Inductive /\ PaceInv /\ CatchesUp

\* A rendered scanline finds room in q_tmds_valid at once, and when there is no
\* buffer to render into the interrupt has one to give back: the two never wait
\* for each other.
NeverStuck ==
  /\ work # NoBuf \/ (row < rows /\ ~ LacksCells /\ SendsOriginal)
       => Len(q_tmds_valid) < QueueSize
  /\ Waiting => \/ q_tmds_valid # << >>
                \/ {tmds_buf_release, tmds_buf_release_next} # {NoBuf}
=============================================================================
