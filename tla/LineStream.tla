----------------------------- MODULE LineStream -----------------------------
(***************************************************************************)
(* What the DVI output promises, seen from the monitor: the picture rows   *)
(* follow one another; a row shows its own scanline or nothing; and how far*)
(* the renderer is ahead of the beam, or behind it, decides which.         *)
(*                                                                         *)
(* There are no buffers and no queues here.  `lead' is the number of       *)
(* rendered scanlines whose row has not been shown yet, and is negative    *)
(* while rows are shown whose scanline is still to come.                   *)
(***************************************************************************)
EXTENDS Integers

CONSTANTS
  Lines,      \* picture rows (at least one), each of which is two output lines
  Border,     \* output lines above and below the picture (an even number)
  Blanking,   \* output lines between two pictures
  MaxLead, MaxLag,   \* bounds on how far the two sides drift apart
  Nothing     \* a blank row

VARIABLES beam,       \* the output line being prepared
          shown,      \* the scanline it shows
          lead,
          alternate   \* blank every other line (scanline emulation)

svars == <<beam, shown, lead, alternate>>

Height == 2 * Lines + 2 * Border + Blanking

InPicture(b) == b >= Border /\ b < Border + 2 * Lines
Row(b)       == (b - Border) \div 2
EndsRow(b)   == b % 2 = 1

StreamInit ==
  /\ beam = 2 * Lines + 2 * Border      \* the line after the picture
  /\ shown = Nothing
  /\ lead = 0
  /\ alternate = TRUE

\* The renderer delivers the next scanline.
Deliver ==
  /\ lead < MaxLead
  /\ lead' = lead + 1
  /\ UNCHANGED <<beam, shown, alternate>>

Switch ==
  /\ alternate' \in BOOLEAN
  /\ UNCHANGED <<beam, shown, lead>>

Scan ==
  /\ beam' = (beam + 1) % Height
  /\ shown' = IF /\ InPicture(beam')
                 /\ lead > 0
                 /\ alternate => EndsRow(beam')
              THEN Row(beam') ELSE Nothing
  /\ lead' = IF InPicture(beam') /\ EndsRow(beam') THEN lead - 1 ELSE lead
  /\ lead' >= - MaxLag
  /\ UNCHANGED alternate

StreamNext == Deliver \/ Switch \/ Scan

StreamSpec == StreamInit /\ [][StreamNext]_svars

\* The beam keeps moving and the renderer, while it may, keeps delivering.
FairStreamSpec == StreamSpec /\ WF_svars(Scan) /\ WF_svars(Deliver)
=============================================================================
