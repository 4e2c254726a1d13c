--------------------------- MODULE AppleScanlines ---------------------------
(***************************************************************************)
(* What the Apple II shows on a line of the screen, by the number of the   *)
(* dot, and that the renderers show it.                                    *)
(***************************************************************************)
EXTENDS ScanlineRenderers

-----------------------------------------------------------------------------
\* A third of the text page holds eight rows, 128 bytes apart; the eight lines of
\* a row are in the eight KB of a hires page.
RowAddress(y) == 128 * (y % 8) + 40 * (y \div 8)
LineAddress ==
  IF renderer \in HiresRenderers THEN 1024 * (line % 8) + RowAddress(line \div 8)
  ELSE RowAddress(line)

MemoryBit(bank, col, k) == {<<bank, LineAddress + col, k>>}

\* The bank that the dot d of a double resolution line is in.
BankOf(d) == IF d % 14 < 7 THEN "aux" ELSE "main"

\* The half dots of hires: bit 7 delays those of a byte by one; the monochrome
\* renderer shows the last of them together with the first one of the next byte,
\* the color renderer repeats the dot before in front of a delayed byte.
Delayed(col) == <<"main", col>> \in high
HalfDot(d)   == MemoryBit("main", d \div 14, (d % 14) \div 2)
DelayedDot(d) == IF ~ Delayed(d \div 14) THEN HalfDot(d)
                 ELSE IF d % 14 = 0 THEN Black ELSE HalfDot(d - 1)
MonoHiresDot(d) ==
  DelayedDot(d) \cup (IF d > 0 /\ d % 14 = 0 /\ Delayed((d - 1) \div 14)
                      THEN HalfDot(d - 1) ELSE Black)
ColorHiresDot(d) ==
  IF d < 0 \/ d >= 14 * Cols THEN Black
  ELSE IF d > 0 /\ d % 14 = 0 /\ Delayed(d \div 14)
       THEN IF Delayed((d - 1) \div 14) THEN HalfDot(d - 2) ELSE HalfDot(d - 1)
       ELSE DelayedDot(d)

\* The dot d of a line of 560, black outside of it.
Dot(d) ==
  LET col == d \div 14
  IN  CASE d < 0 \/ d >= 14 * Cols -> Black
        [] d \in 0 .. 14 * Cols - 1 /\ renderer = "lores_mono" ->
             MemoryBit("main", col, nibble + ((d % 14) % 4))
        \* The cells of dgr keep the phase of the color from one to the next.
        [] d \in 0 .. 14 * Cols - 1 /\ renderer \in {"dgr_mono", "dgr_interp"} ->
             MemoryBit(BankOf(d), col,
                       nibble + (IF d % 14 < 7 THEN d % 4 ELSE (d + 1) % 4))
        [] d \in 0 .. 14 * Cols - 1 /\ renderer = "hires_mono" -> MonoHiresDot(d)
        [] OTHER -> MemoryBit(BankOf(d), col, d % 7)

\* The color of the cell at the dot d in dgr, as an index of the dhgr palette.
CellColor(d) ==
  [k \in 1 .. 4 |-> <<BankOf(d), LineAddress + (d \div 14),
                      nibble + (IF BankOf(d) = "aux" THEN k - 1 ELSE k % 4)>>]

\* The color that four neighbouring dots from `first' on make, by their phase.
Phases(first) ==
  [k \in 1 .. 4 |-> Dot(CHOOSE d \in first .. first + 3 : d % 4 = k - 1)]

Group(n) == [k \in 1 .. 4 |-> Dot(4 * n + k - 1)]

\* The word w of a scanline, for the two pixels 2w and 2w + 1.
AppleWord(w) ==
  CASE renderer = "text40" -> Pair(MemoryBit("main", w \div 7, w % 7))
    [] renderer \in {"color_text40", "dhgr_fb"} ->
         <<<<"main", LineAddress + (w \div 7), w % 7>>, <<"aux", LineAddress + (w \div 7)>>>>
    [] renderer = "lores" ->
         Pair([k \in 1 .. 4 |-> <<"main", LineAddress + (w \div 7), nibble + k - 1>>])
    [] renderer = "dgr" -> <<CellColor(2 * w), CellColor(2 * w + 1)>>
    [] renderer = "hires" ->
         <<w % 2, [k \in 1 .. 8 |-> ColorHiresDot(2 * w - 4 + k)]>>
    \* The color of a pixel in dgr is that of the four dots after it, ...
    [] renderer = "dgr_interp" -> <<Phases(2 * w + 1), Phases(2 * w + 2)>>
    \* ... in dhgr that of the four up to it.
    [] renderer = "dhgr_interp" -> <<Phases(2 * w - 3), Phases(2 * w - 2)>>
    [] renderer = "dhgr" -> Pair(Group(w \div 2))
    [] renderer = "dhgr_mixed" ->
         IF \E d \in 4 * (w \div 2) .. 4 * (w \div 2) + 3 : <<BankOf(d), d \div 14>> \in high
         THEN Pair(Group(w \div 2))
         ELSE <<Dot(2 * w), Dot(2 * w + 1)>>
    [] renderer = "dhgr_160" ->
         Pair([k \in 1 .. 4 |->
                 MemoryBit(IF (w \div 2) % 4 < 2 THEN "aux" ELSE "main", w \div 8,
                           4 * ((w \div 2) % 2) + k - 1)])
    [] OTHER -> <<Dot(2 * w), Dot(2 * w + 1)>>

-----------------------------------------------------------------------------
\* Each word of a scanline shows the bits of memory that belong there, whichever
\* way the renderer gets there: no dot is lost, repeated or taken from a
\* neighbouring byte, row or bank (render_*.c, the loops over the 40 columns).
DotsInPlace ==
  \A n \in 1 .. Len(shown) : shown[n] = AppleWord(words - Len(shown) + n - 1)

\* The shift registers are 32 bits wide: what a renderer loads is never shifted
\* out at the top (dots, bits, pattern1, color1: uint32_t).
RegisterFits == Len(dots) + (IF spill = Black THEN 0 ELSE 1) <= 32

\* Each renderer writes all the words of a channel and not one more: the next one
\* would belong to the next channel, or to the next buffer.
LineExact ==
  /\ 2 * XOFS(renderer) + words <= DVI_WORDS_PER_CHANNEL
  /\ phase = "done" => 2 * XOFS(renderer) + words = DVI_WORDS_PER_CHANNEL

\* Where the window lies within a cell the interpolating renderer of dgr shows the
\* color that the plain one shows (two tables, one palette).
Singletons(color) == [k \in 1 .. 4 |-> {color[k]}]
DgrColorsAgree ==
  renderer = "dgr_interp" =>
    \A n \in 1 .. Len(shown), x \in {0, 1} :
      LET p == 2 * (words - Len(shown) + n - 1) + x
      IN  p + 4 < 14 * Cols /\ (p + 1) \div 7 = (p + 4) \div 7 =>
            shown[n][x + 1] = Singletons(CellColor(p + 1))
=============================================================================
