---------------------------- MODULE PacedScanout ----------------------------
(***************************************************************************)
(* DviScanout with the speed of the renderer.  Once it is calm the renderer*)
(* sends a scanline at least every Pace output lines, except when it has to*)
(* wait for a buffer; before that it may be as slow as MaxLate allows (a   *)
(* menu drawn on core 0, a reload of the character sets).                  *)
(***************************************************************************)
EXTENDS DviScanout

CONSTANTS Pace,           \* output lines the renderer needs for a scanline
          RecoveryFrames  \* whole frames the output has to recover

ASSUME PaceAssumption == Pace \in Nat \ {0} /\ RecoveryFrames \in Nat

\* Output lines of a frame without a picture.
BlankLines == 2 * Border + VFrontPorch + VSyncWidth + VBackPorch

\* What recovery needs: a scanline is ready within the two output lines of its
\* row, LORES leaves buffers in the queue while it holds two, and the blank
\* lines from the end of the first picture to the top of the one that must be
\* whole make up for the rows that were late, two lines for each.  The firmware
\* has 8 buffers and 77 blank lines in a frame.
ASSUME RecoveryAssumption ==
  /\ Pace <= 2                                     \* DVI_VERTICAL_REPEAT
  /\ Cardinality(Buffers) >= 5
  /\ 2 * MaxLate + Border + 1 < RecoveryFrames * BlankLines

VARIABLES idle,  \* output lines since the renderer sent or waited for a buffer
          calm   \* 0 before it is calm, then 1 + the pictures that have ended

pvars == <<vars, idle, calm>>

PacedInit == Init /\ idle = 0 /\ calm = 0

\* queue_remove_blocking_u32 in dvi_get_scanline finds no buffer.
Waiting ==
  /\ q_tmds_free = << >>
  /\ row < rows /\ work = NoBuf /\ (LacksCells \/ ~ SendsOriginal)

PacedRenderer ==
  /\ Renderer
  /\ idle' = IF q_tmds_valid' = q_tmds_valid THEN idle ELSE 0
  /\ UNCHANGED calm

PacedIrq ==
  /\ Irq
  /\ calm = 0 \/ Waiting \/ idle < Pace
  /\ idle' = IF calm = 0 \/ Waiting THEN 0 ELSE idle + 1
  /\ calm' = IF calm \in 1 .. RecoveryFrames
                /\ v_state = "ACTIVE" /\ v_state' = "FRONT_PORCH"
             THEN calm + 1 ELSE calm

Settle == calm = 0 /\ calm' = 1 /\ UNCHANGED <<vars, idle>>

PacedNext == PacedRenderer \/ PacedIrq \/ Settle

PacedSpec == PacedInit /\ [][PacedNext]_pvars

\* However late the renderer was, when it keeps the pace of two output lines
\* for a scanline then after RecoveryFrames pictures each line of the next one
\* shows a scanline again, and so it stays: late scanlines are dropped
\* (dvi.c:210-216), the vertical blanking gives the lead back, and the buffers
\* suffice although LORES holds two of them.
Recovered ==
  [][ calm > RecoveryFrames /\ timing' # timing
        /\ ~ BlankLine(v_state', v_ctr', scanline_emulation)
        => dma_list' # NoBuf ]_pvars
=============================================================================
