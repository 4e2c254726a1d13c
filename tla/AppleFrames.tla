---------------------------- MODULE AppleFrames ----------------------------
(***************************************************************************)
(* What the rows of the Apple's screen show, by its soft switches, and     *)
(* that the frames of RenderLoop show it.                                  *)
(***************************************************************************)
EXTENDS RenderLoop

-----------------------------------------------------------------------------
Graphics == {"lores", "dgr", "hires", "dhgr"}

SecondPage(s) == {"PAGE_2", "80STORE"} \cap s = {"PAGE_2"}

\* The double hires modes of the Video7 card, the first that applies.
Video7Kind(s) ==
  CASE "80STORE" \in s /\ "80COL" \notin s -> "dhgr_fb"
    [] ("80STORE" \in s => "80COL" \in s) /\ "V7_MODE1" \notin s -> "dhgr_160"
    [] ("80STORE" \in s => "80COL" \in s) /\ "V7_MODE2" \notin s -> "dhgr_mixed"
    [] OTHER -> "dhgr"

AppleText(s) ==
  LET colors == video7 /\ {"80STORE", "80COL", "DGR"} \cap s = {"80STORE", "DGR"}
      mono   == "MONOCHROME" \in s
  IN  IF colors /\ ~ mono THEN Picture("color_text40", FALSE, FALSE)
      ELSE Picture(IF "80COL" \in s THEN "text80" ELSE "text40", SecondPage(s), 
                   mono \/ "TEXT" \in s)

\* On a full screen of graphics double resolution needs no 80 columns.
AppleGraphics(s) ==
  LET double == "DGR" \in s /\ ("MIX" \in s => "80COL" \in s)
      dhgr   == double /\ "HIRES" \in s
      gray   == video7 /\ dhgr /\ {"V7_MODE1", "V7_MODE2"} \cap s = {}
      mono   == "MONOCHROME" \in s \/ gray
  IN  Picture(CASE dhgr /\ video7 /\ ~ mono -> Video7Kind(s)
                [] dhgr /\ (mono \/ ~ video7) -> "dhgr"
                [] double /\ ~ dhgr -> "dgr"
                [] ~ double -> IF "HIRES" \in s THEN "hires" ELSE "lores",
              SecondPage(s), mono)

ApplePicture(s, row) ==
  IF {"TEXT", "VIDEX_80COL"} \subseteq s THEN Picture("videx", FALSE, TRUE)
  ELSE IF "TEXT" \in s \/ ("MIX" \in s /\ row >= TopRows) THEN AppleText(s)
  ELSE AppleGraphics(s)

\* The settings that the frame may have seen.
Seen == {(soft_switches \ changed) \cup some : some \in SUBSET (changed \cap Switches)}

\* A Video7 card tests the switches of its modes several times for a row.
Mixed == video7 /\ changed \cap {"80STORE", "80COL", "V7_MODE1", "V7_MODE2"} # {}

\* Not with a Video7 card while its mode changes.
AppleRows ==
  shown # None /\ ~ Mixed => \E s \in Seen : shown.picture = ApplePicture(s, shown.row)

\* Of the two bytes of a text base that scrolls during the frame each is the old or
\* the new one. The firmware of the card keeps it a multiple of 16.
Values(r, written) == IF r \in changed THEN written \cup {0} ELSE {videx_crtc_regs[r]}

ShowsFrom(base) ==
  \A col \in 0 .. 79 : shown.cells[col] = (base + 80 * shown.row + col) % 2048

VidexRows ==
  shown # None /\ shown.picture.kind = "videx" /\ shown.cells[0] % 4 = 0 =>
    \E high \in Values("R12", CrtcHigh), low \in Values("R13", CrtcLow) :
      ShowsFrom(256 * high + low)

\* Each row shows what the Apple shows, on the page that it shows, and the memory of
\* the Videx card from its text base on, where it wraps; of what the program changes
\* while the frame is drawn the old or the new state counts (render.c:266, where the
\* frame takes a copy, and the renderers, which read the switches again for pages and
\* columns; videx_vterm.c:208).
RowAgrees == AppleRows /\ VidexRows

\* The switch acts at most once for each change of its state, and only after it has
\* been steady for one frame more than the threshold, however it bounces
\* (render.c:165).
SwitchActsOnce == acts < 2 /\ (acts = 1 => steady > debounce_threshold)

\* render.c:187: "switch state directly controls character set selection": it does
\* when the switch has come to rest, unless its mode was selected after that.
Rests(on) == input_switch_mode = "Language" /\ kept /\ input = on
SwitchFollows ==
  \A on \in BOOLEAN : <>[]Rests(on) => []<>(language_switch = on)

\* No selected font is forgotten: it has been copied, or its request stands, or came
\* when core 0 had tested the bit and not yet cleared all of them (config.c:259-292).
RequestsStand == outdated \subseteq reload_charsets \cup overtaken

\* Each selected font reaches the screen when the program stays on the text screen, but
\* for that of the Videx card and colored text (render_text.c:277), unless the last
\* request for it came between core 0's test of its bit and the end of the load, which
\* clears it unserved (config.c:292).
PlainText == "TEXT" \in soft_switches /\ "VIDEX_80COL" \notin soft_switches /\ ~ video7
ReloadServed == <>[]PlainText => []<>(outdated \subseteq overtaken)
=============================================================================
