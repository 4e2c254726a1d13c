------------------------- MODULE ScanlineRenderers -------------------------
(***************************************************************************)
(* How the renderers turn the bytes of a row into the words of a scanline. *)
(* Each of them shifts dots into a 32-bit register and takes words out of  *)
(* it; they differ in when they load, how much they take, and what a word  *)
(* shows.  A dot is the set of the memory bits that are OR-ed into it, a   *)
(* colored dot the tuple of bits that selects its color.                   *)
(***************************************************************************)
EXTENDS Integers, Sequences

CONSTANTS
  Cols,       \* columns (bytes per bank) of a row: 40
  TextLines,  \* the text rows (0..23) that are drawn
  HiresLines, \* the hires lines (0..191) that are drawn
  HighBits    \* possible sets of the <<bank, column>> whose byte has bit 7 set

ASSUME ScanlineAssumption ==
  /\ Cols \in Nat \ {0}
  /\ TextLines \subseteq 0 .. 23 /\ HiresLines \subseteq 0 .. 191

VARIABLES
  renderer, \* the renderer that draws the scanline
  line,     \* the text row, or the line of a hires mode
  nibble,   \* 0, 4: the nibble of the cells that the scanline shows (lores, dgr)
  high,     \* the bytes whose bit 7 is set
  phase,    \* "load", "take" (the two inner loops) or "done"
  i,        \* the next column
  dots,     \* the dots in the shift register; its length is dotc
  spill,    \* what the register holds beyond dotc dots
  lastmsb,  \* render_hires_line: the last bit of the byte before
  words,    \* words written so far
  shown     \* the last words that were written

vars == <<renderer, line, nibble, high, phase, i, dots, spill, lastmsb, words, shown>>
row  == <<renderer, line, nibble, high>>

TextRenderers  == {"text40", "text80", "color_text40"}
LoresRenderers == {"lores", "lores_mono", "dgr", "dgr_mono", "dgr_interp"}
HiresRenderers == {"hires", "hires_mono", "dhgr", "dhgr_mono", "dhgr_fb",
                   "dhgr_160", "dhgr_mixed", "dhgr_interp"}
Renderers      == TextRenderers \cup LoresRenderers \cup HiresRenderers

Black == {}
DVI_WORDS_PER_CHANNEL == 8 * Cols
XOFS(r) == IF r = "dhgr_160" THEN 0 ELSE (DVI_WORDS_PER_CHANNEL - 7 * Cols) \div 2

-----------------------------------------------------------------------------
(* Where a row is in memory.                                               *)

text_line_offset(y) == (y % 8) * 128 + ((y \div 8) % 4) * 40

hires_line_to_mem_offset(y) ==
  (y % 8) * 1024 + ((y \div 8) % 8) * 128 + (y \div 64) * 40

address == IF renderer \in HiresRenderers THEN hires_line_to_mem_offset(line)
                                           ELSE text_line_offset(line)

-----------------------------------------------------------------------------
(* What a column puts into the register.                                   *)

Bit(bank, col, k) == <<bank, address + col, k>>
Byte(bank, col)   == [k \in 1 .. 7 |-> {Bit(bank, col, k - 1)}]

\* A mutant of Both: main memory first.
BothSwapped(col) == Byte("main", col) \o Byte("aux", col)

Both(col) == Byte("aux", col) \o Byte("main", col)

\* A color: the four bits that select it, lowest first.
Color(bank, col, n)  == [k \in 1 .. 4 |-> Bit(bank, col, n + k - 1)]
dlores_dhgr_map(c)   == [k \in 1 .. 4 |-> c[1 + (k % 4)]]      \* rotated to the right
Times(n, x)          == [k \in 1 .. n |-> x]

lores_dot_pattern(col) ==
  [k \in 1 .. 14 |-> {Bit("main", col, nibble + ((k - 1) % 4))}]

\* A mutant of dgr_dot_pattern: the second half of its table is not used.
DgrEvenPattern(bank, col) ==
  [k \in 1 .. 7 |-> {Bit(bank, col, nibble + ((k - 1) % 4))}]

dgr_dot_pattern(bank, col) ==
  [k \in 1 .. 7 |-> {Bit(bank, col, nibble + ((k - 1 + 2 * (col % 2)) % 4))}]

\* hires_dot_patterns and hires_dot_patterns2: each bit is two dots; bit 7
\* delays them by half a pixel, which makes the second table's entry 15 dots long.
Doubled(col)      == [k \in 1 .. 14 |-> {Bit("main", col, (k - 1) \div 2)}]
IsHigh(bank, col) == <<bank, col>> \in high

HiresColumn(col) ==
  IF col = Cols THEN Times(14, Black)
  ELSE IF ~ IsHigh("main", col) THEN Doubled(col)
       ELSE <<dots[Len(dots)]>> \o SubSeq(Doubled(col), 1, 13)

MonoHiresColumn(col) ==
  IF IsHigh("main", col) THEN <<lastmsb \cup spill>> \o SubSeq(Doubled(col), 1, 13)
  ELSE [Doubled(col) EXCEPT ![1] = @ \cup spill]

MonoSpill(col) == IF IsHigh("main", col) THEN Doubled(col)[14] ELSE Black

ColumnDots(col) ==
  CASE renderer = "text40"     -> Byte("main", col)
    [] renderer \in {"color_text40", "dhgr_fb"} ->
         [k \in 1 .. 7 |-> <<Bit("main", col, k - 1), <<"aux", address + col>>>>]
    [] renderer = "lores"      -> Times(14, Color("main", col, nibble))
    [] renderer = "lores_mono" -> lores_dot_pattern(col)
    [] renderer = "dgr"        -> Times(7, Color("aux", col, nibble))
                                   \o Times(7, dlores_dhgr_map(Color("main", col, nibble)))
    [] renderer \in {"dgr_mono", "dgr_interp"} ->
         dgr_dot_pattern("aux", col) \o dgr_dot_pattern("main", col)
    [] renderer = "hires"      -> HiresColumn(col)
    [] renderer = "hires_mono" -> MonoHiresColumn(col)
    [] renderer = "dhgr_160"   ->
         [k \in 1 .. 16 |-> IF k <= 8 THEN {Bit("aux", col, k - 1)}
                                      ELSE {Bit("main", col, k - 9)}]
    [] OTHER                   -> Both(col)

-----------------------------------------------------------------------------
(* What is taken out of it.                                                *)

Pad(seq, n) == IF Len(seq) >= n THEN seq ELSE seq \o Times(n - Len(seq), Black)

\* The sliding window of the interpolating renderers: before each pixel the
\* lowest dots are replaced by those that follow the window.
Slide(seq) ==
  LET d     == Pad(seq, 8)
      one   == [d EXCEPT ![1] = d[5]]
      two   == [one EXCEPT ![1] = one[5], ![2] = one[6]]
      three == [two EXCEPT ![1] = two[5], ![2] = two[6], ![3] = two[7]]
  IN  <<<<SubSeq(one, 1, 4), SubSeq(two, 1, 4)>>,
        <<SubSeq(three, 1, 4), SubSeq(three, 5, 8)>>>>

Pair(c)  == <<c, c>>
Cells(n) == [k \in 1 .. 2 * n |-> Pair(SubSeq(dots, 4 * ((k - 1) \div 2) + 1,
                                                     4 * ((k - 1) \div 2) + 4))]

\* pixelmode: four dots are colored when one of them is of a byte with bit 7 set.
Colored(seq) ==
  \E k \in 1 .. Len(seq) : \E b \in seq[k] : <<b[1], b[2] - address>> \in high

Taken ==
  CASE renderer = "text40" -> <<Pair(dots[1])>>
    [] renderer \in {"color_text40", "dhgr_fb"} -> <<dots[1]>>
    [] renderer = "hires" -> <<<<words % 2, SubSeq(dots, 1, 8)>>>>
    [] renderer \in {"dgr_interp", "dhgr_interp"} -> Slide(dots)
    [] renderer \in {"dhgr", "dhgr_160"} -> Cells(2)
    [] renderer = "dhgr_mixed" ->
         IF Colored(SubSeq(dots, 1, 4)) THEN Cells(1)
         ELSE <<SubSeq(dots, 1, 2), SubSeq(dots, 3, 4)>>
    [] OTHER -> <<SubSeq(dots, 1, 2)>>

\* The loops: columns loaded at once; loads while dotc <= fill; takes `take' dots
\* while dotc >= need, in the last round while dotc > rest.
Loops(columns, fill, need, rest, take) ==
  [columns |-> columns, fill |-> fill, need |-> need, rest |-> rest, take |-> take]
Never == 32

Loop ==
  CASE renderer = "text40"       -> Loops(2, 0, 1, Never, 1)
    [] renderer \in {"color_text40", "dhgr_fb"} -> Loops(1, 0, 1, Never, 1)
    [] renderer = "lores_mono"   -> Loops(2, 0, 2, Never, 2)
    [] renderer = "dgr_mono"     -> Loops(1, 14, 2, Never, 2)
    [] renderer = "dgr_interp"   -> Loops(1, 14, 8, 0, 4)
    [] renderer = "hires"        -> Loops(1, 17, 19, Never, 2)
    [] renderer = "dhgr_mono"    -> Loops(1, 27, 1, Never, 2)
    [] renderer \in {"dhgr", "dhgr_160"} -> Loops(1, 18, 8, Never, 8)
    [] renderer = "dhgr_mixed"   -> Loops(1, 18, 4, Never, 4)
    [] renderer = "dhgr_interp"  -> Loops(1, 18, 8, 4, 4)
    [] OTHER                     -> Loops(1, 0, 2, Never, 2)

\* The color renderer of the hires mode is a column ahead: its last is black.
Last == IF renderer = "hires" THEN Cols + 1 ELSE Cols

-----------------------------------------------------------------------------
\* A row is begun: the interpolating renderer of dhgr loads four black dots, and
\* the color renderer of hires the first column, after three black dots.
Begin(r, y, n, h) ==
  /\ renderer' = r /\ line' = y /\ nibble' = n /\ high' = h
  /\ phase' = "load"
  /\ i' = IF r = "hires" THEN 1 ELSE 0
  /\ dots' = CASE r = "dhgr_interp" -> Times(4, Black)
               [] r = "hires" -> Times(3, Black)
                    \o (IF <<"main", 0>> \notin h THEN Doubled(0)'
                        ELSE <<Black>> \o SubSeq(Doubled(0)', 1, 13))
               [] OTHER -> << >>
  /\ spill' = Black /\ lastmsb' = Black
  /\ words' = 0 /\ shown' = << >>

AnyRow ==
  \/ \E r \in TextRenderers, y \in TextLines : Begin(r, y, 0, {})
  \/ \E r \in LoresRenderers, y \in TextLines, n \in {0, 4} : Begin(r, y, n, {})
  \/ \E r \in {"hires", "hires_mono", "dhgr_mixed"}, y \in HiresLines, h \in HighBits :
       Begin(r, y, 0, h)
  \/ \E r \in HiresRenderers \ {"hires", "hires_mono", "dhgr_mixed"}, y \in HiresLines :
       Begin(r, y, 0, {})

\* Before the first row there is none.
Init ==
  /\ renderer = "text40" /\ line = 0 /\ nibble = 0 /\ high = {}
  /\ phase = "done" /\ i = Cols /\ dots = << >>
  /\ spill = Black /\ lastmsb = Black
  /\ words = 7 * Cols /\ shown = << >>

\* Mutants of LoadsMore and of TakesMore: <= for <, and the end is forgotten.
LoadsOneMore == i < Last /\ Len(dots) <= Loop.fill + 1
TakesFullOnly == Len(dots) >= Loop.need

LoadsMore == i < Last /\ Len(dots) <= Loop.fill

Load ==
  /\ phase = "load" /\ LoadsMore
  /\ dots' = IF Loop.columns = 1 THEN dots \o ColumnDots(i)
             ELSE dots \o ColumnDots(i) \o ColumnDots(i + 1)
  /\ i' = i + Loop.columns
  /\ IF renderer = "hires_mono"
     THEN /\ spill' = MonoSpill(i)
          /\ lastmsb' = IF Len(dots) > 0 THEN {Bit("main", i, 6)} ELSE Black
     ELSE UNCHANGED <<spill, lastmsb>>
  /\ UNCHANGED <<row, phase, words, shown>>

Loaded ==
  /\ phase = "load" /\ ~ LoadsMore
  /\ phase' = "take"
  /\ UNCHANGED <<row, i, dots, spill, lastmsb, words, shown>>

TakesMore == Len(dots) >= Loop.need \/ (i = Last /\ Len(dots) > Loop.rest)

Take ==
  /\ phase = "take" /\ TakesMore
  /\ shown' = Taken
  /\ words' = words + Len(Taken)
  /\ dots' = SubSeq(dots, Loop.take + 1, Len(dots))
  /\ UNCHANGED <<row, phase, i, spill, lastmsb>>

AllTaken ==
  /\ phase = "take" /\ ~ TakesMore
  /\ phase' = IF i < Last THEN "load" ELSE "done"
  /\ UNCHANGED <<row, i, dots, spill, lastmsb, words, shown>>

NextRow == phase = "done" /\ AnyRow

Next == NextRow \/ Load \/ Loaded \/ Take \/ AllTaken

Spec == Init /\ [][Next]_vars
=============================================================================
