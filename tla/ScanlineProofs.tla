--------------------------- MODULE ScanlineProofs ---------------------------
(***************************************************************************)
(* The renderers fill a scanline exactly, never overrun their shift        *)
(* register and show each bit of memory where the Apple does, for every    *)
(* width of a row that is a multiple of four columns.                      *)
(*                                                                         *)
(* A renderer is a counter machine once the contents of the register are   *)
(* left out: n dots, w words, c columns.  Part one is about the numbers,   *)
(* part two shows that the sequences have the lengths that part one adds,  *)
(* part three that the dot at each position is the one that belongs there. *)
(***************************************************************************)
EXTENDS AppleScanlines, SequenceTheorems, TLAPS

-----------------------------------------------------------------------------
(* The numbers of a renderer.                                              *)

OneDotWords == {"text40", "color_text40", "dhgr_fb"}

\* Dots per word, dots per column, dots in front of the first column, words that
\* are taken at once, the last column, and the bounds of the register.
Weight(r) == IF r \in OneDotWords THEN 1 ELSE 2
Rate(r)   == IF r \in OneDotWords THEN 7 ELSE IF r = "dhgr_160" THEN 16 ELSE 14
Ahead(r)  == IF r = "hires" THEN 3 ELSE IF r = "dhgr_interp" THEN 4 ELSE 0
Chunk(r)  == IF r \in {"dhgr", "dhgr_160"} THEN 4
             ELSE IF r \in {"dhgr_mixed", "dgr_interp", "dhgr_interp"} THEN 2 ELSE 1
LastOf(r) == IF r = "hires" THEN Cols + 1 ELSE Cols
Low(r)    == IF r = "hires" THEN 17 ELSE IF r = "dhgr_interp" THEN 4 ELSE 0
High(r)   == IF r = "hires_mono" THEN 14 ELSE 32
Two(r)    == r \in {"text40", "lores_mono"}
Columns(r) == IF Two(r) THEN 2 ELSE 1
AllWords(r) == IF r = "dhgr_160" THEN 8 * Cols ELSE 7 * Cols

\* Every dot of the columns that were loaded is in a word or in the register.
Books(r, c, n, w) ==
  /\ c \in 0 .. LastOf(r) /\ n \in Nat /\ w \in Nat
  /\ Weight(r) * w + n = Ahead(r) + Rate(r) * c
  /\ w % Chunk(r) = 0
  /\ Two(r) => c % 2 = 0
  /\ Low(r) <= n /\ n <= High(r)

\* render_dhgr's monochrome renderer loads two columns into an empty register.
Whole(r, ph, n) ==
  r = "dhgr_mono" => n <= 28 /\ (ph = "load" => n \in {0, 14, 28})

Complete(r, ph, w) == ph = "done" => w = AllWords(r)

Counts(r, ph, c, n, w) == Books(r, c, n, w) /\ Whole(r, ph, n) /\ Complete(r, ph, w)

\* The loops, by the number of dots.
LoadsAt(r, l, c, n) == c < LastOf(r) /\ n <= l.fill
TakesAt(r, l, c, n) == n >= l.need \/ (c = LastOf(r) /\ n > l.rest)

Plain == {"text80", "lores", "dgr", "hires_mono"}

Bounds(l, fill, need, rest, take) ==
  l.fill = fill /\ l.need = need /\ l.rest = rest /\ l.take = take

LoopIs(r, l) ==
  /\ l.columns = Columns(r)
  /\ r \in OneDotWords => Bounds(l, 0, 1, 32, 1)
  /\ r = "lores_mono" => Bounds(l, 0, 2, 32, 2)
  /\ r = "dgr_mono" => Bounds(l, 14, 2, 32, 2)
  /\ r = "dgr_interp" => Bounds(l, 14, 8, 0, 4)
  /\ r = "hires" => Bounds(l, 17, 19, 32, 2)
  /\ r = "dhgr_mono" => Bounds(l, 27, 1, 32, 2)
  /\ r \in {"dhgr", "dhgr_160"} => Bounds(l, 18, 8, 32, 8)
  /\ r = "dhgr_mixed" => Bounds(l, 18, 4, 32, 4)
  /\ r = "dhgr_interp" => Bounds(l, 18, 8, 4, 4)
  /\ r \in Plain => Bounds(l, 0, 2, 32, 2)

LEMMA LoopNumbers ==
  ASSUME NEW r \in Renderers, r = renderer, NEW l, l = Loop
  PROVE  LoopIs(r, l)
<1>1. CASE r = "text40"
  <2>1. l = Loops(2, 0, 1, Never, 1)
    BY <1>1, Zenon DEF Loop, Plain
  <2> QED
    BY <1>1, <2>1 DEF LoopIs, Bounds, Loops, Never, Columns, Two, OneDotWords, Plain
<1>2. CASE r \in {"color_text40", "dhgr_fb"}
  <2>1. l = Loops(1, 0, 1, Never, 1)
    BY <1>2, Zenon DEF Loop, Plain
  <2> QED
    BY <1>2, <2>1 DEF LoopIs, Bounds, Loops, Never, Columns, Two, OneDotWords, Plain
<1>3. CASE r = "lores_mono"
  <2>1. l = Loops(2, 0, 2, Never, 2)
    BY <1>3, Zenon DEF Loop, Plain
  <2> QED
    BY <1>3, <2>1 DEF LoopIs, Bounds, Loops, Never, Columns, Two, OneDotWords, Plain
<1>4. CASE r = "dgr_mono"
  <2>1. l = Loops(1, 14, 2, Never, 2)
    BY <1>4, Zenon DEF Loop, Plain
  <2> QED
    BY <1>4, <2>1 DEF LoopIs, Bounds, Loops, Never, Columns, Two, OneDotWords, Plain
<1>5. CASE r = "dgr_interp"
  <2>1. l = Loops(1, 14, 8, 0, 4)
    BY <1>5, Zenon DEF Loop, Plain
  <2> QED
    BY <1>5, <2>1 DEF LoopIs, Bounds, Loops, Never, Columns, Two, OneDotWords, Plain
<1>6. CASE r = "hires"
  <2>1. l = Loops(1, 17, 19, Never, 2)
    BY <1>6, Zenon DEF Loop, Plain
  <2> QED
    BY <1>6, <2>1 DEF LoopIs, Bounds, Loops, Never, Columns, Two, OneDotWords, Plain
<1>7. CASE r = "dhgr_mono"
  <2>1. l = Loops(1, 27, 1, Never, 2)
    BY <1>7, Zenon DEF Loop, Plain
  <2> QED
    BY <1>7, <2>1 DEF LoopIs, Bounds, Loops, Never, Columns, Two, OneDotWords, Plain
<1>8. CASE r \in {"dhgr", "dhgr_160"}
  <2>1. l = Loops(1, 18, 8, Never, 8)
    BY <1>8, Zenon DEF Loop, Plain
  <2> QED
    BY <1>8, <2>1 DEF LoopIs, Bounds, Loops, Never, Columns, Two, OneDotWords, Plain
<1>9. CASE r = "dhgr_mixed"
  <2>1. l = Loops(1, 18, 4, Never, 4)
    BY <1>9, Zenon DEF Loop, Plain
  <2> QED
    BY <1>9, <2>1 DEF LoopIs, Bounds, Loops, Never, Columns, Two, OneDotWords, Plain
<1>10. CASE r = "dhgr_interp"
  <2>1. l = Loops(1, 18, 8, 4, 4)
    BY <1>10, Zenon DEF Loop, Plain
  <2> QED
    BY <1>10, <2>1 DEF LoopIs, Bounds, Loops, Never, Columns, Two, OneDotWords, Plain
<1>11. CASE r \in Plain
  <2>1. l = Loops(1, 0, 2, Never, 2)
    BY <1>11, Zenon DEF Loop, Plain
  <2> QED
    BY <1>11, <2>1 DEF LoopIs, Bounds, Loops, Never, Columns, Two, OneDotWords, Plain
<1> QED
  BY <1>1, <1>2, <1>3, <1>4, <1>5, <1>6, <1>7, <1>8, <1>9, <1>10, <1>11
     DEF Renderers, TextRenderers, LoresRenderers, HiresRenderers, Plain

LEMMA LoadCounts ==
  ASSUME Cols % 4 = 0, NEW r \in Renderers, NEW l, LoopIs(r, l), NEW c, NEW n, NEW w,
         Counts(r, "load", c, n, w), LoadsAt(r, l, c, n)
  PROVE  Counts(r, "load", c + Columns(r), n + Rate(r) * Columns(r), w)
<1> USE ScanlineAssumption
     DEF Counts, Books, Whole, Complete, LoadsAt, TakesAt, LoopIs, Bounds, Weight,
         Rate, Ahead, Chunk, LastOf, Low, High, Two, Columns,
         AllWords, OneDotWords, Plain
<1>1. CASE r = "text40"
  BY <1>1
<1>2. CASE r \in {"color_text40", "dhgr_fb"}
  BY <1>2
<1>3. CASE r = "lores_mono"
  BY <1>3
<1>4. CASE r = "dgr_mono"
  BY <1>4
<1>5. CASE r = "dgr_interp"
  BY <1>5
<1>6. CASE r = "hires"
  BY <1>6
<1>7. CASE r = "dhgr_mono"
  BY <1>7
<1>8. CASE r \in {"dhgr", "dhgr_160"}
  BY <1>8
<1>9. CASE r = "dhgr_mixed"
  BY <1>9
<1>10. CASE r = "dhgr_interp"
  BY <1>10
<1>11. CASE r \in Plain
  BY <1>11
<1> QED
  BY ONLY r \in Renderers, <1>1, <1>2, <1>3, <1>4, <1>5, <1>6, <1>7, <1>8,
     <1>9, <1>10, <1>11
     DEF Renderers, TextRenderers, LoresRenderers, HiresRenderers, Plain

LEMMA TakeCounts ==
  ASSUME Cols % 4 = 0, NEW r \in Renderers, NEW l, LoopIs(r, l), NEW c, NEW n, NEW w,
         Counts(r, "take", c, n, w), TakesAt(r, l, c, n)
  PROVE  l.take <= n /\ Counts(r, "take", c, n - l.take, w + Chunk(r))
<1> USE ScanlineAssumption
     DEF Counts, Books, Whole, Complete, LoadsAt, TakesAt, LoopIs, Bounds, Weight,
         Rate, Ahead, Chunk, LastOf, Low, High, Two, Columns,
         AllWords, OneDotWords, Plain
<1>1. CASE r = "text40"
  BY <1>1
<1>2. CASE r \in {"color_text40", "dhgr_fb"}
  BY <1>2
<1>3. CASE r = "lores_mono"
  BY <1>3
<1>4. CASE r = "dgr_mono"
  BY <1>4
<1>5. CASE r = "dgr_interp"
  BY <1>5
<1>6. CASE r = "hires"
  BY <1>6
<1>7. CASE r = "dhgr_mono"
  BY <1>7
<1>8. CASE r \in {"dhgr", "dhgr_160"}
  BY <1>8
<1>9. CASE r = "dhgr_mixed"
  BY <1>9
<1>10. CASE r = "dhgr_interp"
  BY <1>10
<1>11. CASE r \in Plain
  BY <1>11
<1> QED
  BY ONLY r \in Renderers, <1>1, <1>2, <1>3, <1>4, <1>5, <1>6, <1>7, <1>8,
     <1>9, <1>10, <1>11
     DEF Renderers, TextRenderers, LoresRenderers, HiresRenderers, Plain

LEMMA AllTakenCounts ==
  ASSUME Cols % 4 = 0, NEW r \in Renderers, NEW l, LoopIs(r, l), NEW c, NEW n, NEW w,
         Counts(r, "take", c, n, w), ~ TakesAt(r, l, c, n)
  PROVE  Counts(r, IF c < LastOf(r) THEN "load" ELSE "done", c, n, w)
<1> USE ScanlineAssumption
     DEF Counts, Books, Whole, Complete, LoadsAt, TakesAt, LoopIs, Bounds, Weight,
         Rate, Ahead, Chunk, LastOf, Low, High, Two, Columns,
         AllWords, OneDotWords, Plain
<1>1. CASE r = "text40"
  BY <1>1
<1>2. CASE r \in {"color_text40", "dhgr_fb"}
  BY <1>2
<1>3. CASE r = "lores_mono"
  BY <1>3
<1>4. CASE r = "dgr_mono"
  BY <1>4
<1>5. CASE r = "dgr_interp"
  BY <1>5
<1>6. CASE r = "hires"
  BY <1>6
<1>7. CASE r = "dhgr_mono"
  BY <1>7
<1>8. CASE r \in {"dhgr", "dhgr_160"}
  BY <1>8
<1>9. CASE r = "dhgr_mixed"
  BY <1>9
<1>10. CASE r = "dhgr_interp"
  BY <1>10
<1>11. CASE r \in Plain
  BY <1>11
<1> QED
  BY ONLY r \in Renderers, <1>1, <1>2, <1>3, <1>4, <1>5, <1>6, <1>7, <1>8,
     <1>9, <1>10, <1>11
     DEF Renderers, TextRenderers, LoresRenderers, HiresRenderers, Plain

-----------------------------------------------------------------------------
(* The contents of the register.                                           *)

Cell == {"aux", "main"} \X Nat \X Nat

\* A dot of a monochrome renderer, a colored one, and one with the attribute byte.
Dots == (SUBSET Cell) \cup [1 .. 4 -> Cell] \cup (Cell \X ({"aux", "main"} \X Nat))

RowOK ==
  /\ renderer \in Renderers /\ line \in 0 .. 191 /\ nibble \in {0, 4}
  /\ renderer # "hires_mono" => spill = Black
  /\ spill \in SUBSET Cell /\ lastmsb \in SUBSET Cell

LEMMA Addresses ==
  ASSUME NEW y \in 0 .. 191
  PROVE  text_line_offset(y) \in Nat /\ hires_line_to_mem_offset(y) \in Nat
  BY DEF text_line_offset, hires_line_to_mem_offset

LEMMA AddressOK ==
  ASSUME RowOK
  PROVE  address \in Nat
<1>1. text_line_offset(line) \in Nat /\ hires_line_to_mem_offset(line) \in Nat
  BY Addresses DEF RowOK
<1> QED
  BY <1>1 DEF address

LEMMA BitOK ==
  ASSUME RowOK, NEW bank \in {"aux", "main"}, NEW col \in Nat, NEW k \in Nat
  PROVE  Bit(bank, col, k) \in Cell
<1>1. address + col \in Nat
  BY AddressOK
<1> QED
  BY <1>1 DEF Bit, Cell

LEMMA DotOK ==
  /\ Black \in Dots
  /\ \A b \in Cell : {b} \in Dots
  /\ \A x \in SUBSET Cell : x \in Dots
  /\ \A c \in [1 .. 4 -> Cell] : c \in Dots
  /\ \A b \in Cell, a \in {"aux", "main"} \X Nat : <<b, a>> \in Dots
  BY DEF Black, Dots

LEMMA TimesOK ==
  ASSUME NEW n \in Nat, NEW x \in Dots
  PROVE  Times(n, x) \in Seq(Dots) /\ Len(Times(n, x)) = n
  BY DEF Times

\* A piece of so many dots, and two of them put together.
Piece(s, n) == s \in Seq(Dots) /\ Len(s) = n

LEMMA Joined ==
  ASSUME NEW s, NEW t, NEW n \in Nat, NEW m \in Nat, Piece(s, n), Piece(t, m)
  PROVE  Piece(s \o t, n + m)
  BY ConcatProperties DEF Piece

LEMMA Fourteen ==
  ASSUME NEW s, NEW t, NEW n \in Nat, NEW m \in Nat, n + m = 14, Piece(s, n), Piece(t, m)
  PROVE  Piece(s \o t, 14)
<1>1. Piece(s \o t, n + m)
  BY Joined, Zenon
<1> QED
  BY <1>1, Zenon

LEMMA ByteOK ==
  ASSUME RowOK, NEW bank \in {"aux", "main"}, NEW col \in Nat
  PROVE  Byte(bank, col) \in Seq(Dots) /\ Len(Byte(bank, col)) = 7
<1>1. \A k \in 1 .. 7 : {Bit(bank, col, k - 1)} \in Dots
  BY BitOK, DotOK
<1> QED
  BY <1>1 DEF Byte

LEMMA ColorOK ==
  ASSUME RowOK, NEW bank \in {"aux", "main"}, NEW col \in Nat
  PROVE  /\ Color(bank, col, nibble) \in Dots
         /\ dlores_dhgr_map(Color(bank, col, nibble)) \in Dots
<1> DEFINE c == Color(bank, col, nibble)
<1>1. \A k \in 1 .. 4 : Bit(bank, col, nibble + k - 1) \in Cell
  BY BitOK DEF RowOK
<1>2. c \in [1 .. 4 -> Cell]
  BY <1>1 DEF Color
<1> HIDE DEF c
<1>3. dlores_dhgr_map(c) \in [1 .. 4 -> Cell]
  BY <1>2 DEF dlores_dhgr_map
<1> QED
  BY <1>2, <1>3, DotOK DEF c

LEMMA DoubledOK ==
  ASSUME RowOK, NEW col \in Nat
  PROVE  /\ Doubled(col) \in Seq(Dots) /\ Len(Doubled(col)) = 14
         /\ \A k \in 1 .. 14 : Doubled(col)[k] \in SUBSET Cell
         /\ SubSeq(Doubled(col), 1, 13) \in Seq(Dots)
         /\ Len(SubSeq(Doubled(col), 1, 13)) = 13
<1>1. \A k \in 1 .. 14 : {Bit("main", col, (k - 1) \div 2)} \in SUBSET Cell
  BY BitOK
<1>2. \A k \in 1 .. 14 : {Bit("main", col, (k - 1) \div 2)} \in Dots
  BY <1>1, DotOK
<1>3. /\ Doubled(col) \in Seq(Dots) /\ Len(Doubled(col)) = 14
      /\ \A k \in 1 .. 14 : Doubled(col)[k] \in SUBSET Cell
  BY <1>1, <1>2 DEF Doubled
<1> DEFINE d == Doubled(col)
<1>4. \A k \in 1 .. 14 : d[k] \in Dots
  BY <1>3, DotOK, Zenon
<1> HIDE DEF d
<1>5. SubSeq(d, 1, 13) \in Seq(Dots) /\ Len(SubSeq(d, 1, 13)) = 13
  BY <1>4, SubSeqProperties
<1> QED
  BY <1>3, <1>5 DEF d

LEMMA SingleOK ==
  ASSUME NEW x \in Dots
  PROVE  <<x>> \in Seq(Dots) /\ Len(<<x>>) = 1
  OBVIOUS

LEMMA HiresColumnOK ==
  ASSUME RowOK, NEW col \in Nat, dots \in Seq(Dots), Len(dots) > 0
  PROVE  HiresColumn(col) \in Seq(Dots) /\ Len(HiresColumn(col)) = 14
<1>1. CASE col = Cols
  BY <1>1, TimesOK, DotOK DEF HiresColumn
<1>2. CASE col # Cols /\ ~ IsHigh("main", col)
  BY <1>2, DoubledOK DEF HiresColumn
<1>3. CASE col # Cols /\ IsHigh("main", col)
  <2> DEFINE x == dots[Len(dots)]
             d == SubSeq(Doubled(col), 1, 13)
  <2>1. x \in Dots
    BY ElementOfSeq
  <2>2. d \in Seq(Dots) /\ Len(d) = 13
    BY DoubledOK
  <2>3. HiresColumn(col) = <<x>> \o d
    BY <1>3, Zenon DEF HiresColumn, x, d
  <2> HIDE DEF x, d
  <2>4. Piece(<<x>>, 1) /\ Piece(d, 13)
    BY <2>1, <2>2, SingleOK, Zenon DEF Piece
  <2>5. Piece(<<x>> \o d, 14)
    BY <2>4, Fourteen
  <2> QED
    BY <2>3, <2>5, Zenon DEF Piece
<1> QED
  BY <1>1, <1>2, <1>3

LEMMA FirstReplaced ==
  ASSUME NEW s, Piece(s, 14), NEW y \in Dots
  PROVE  Piece([s EXCEPT ![1] = y], 14)
<1>1. s \in Seq(Dots) /\ Len(s) = 14
  BY DEF Piece
<1>2. DOMAIN s = 1 .. 14 /\ \A j \in 1 .. 14 : s[j] \in Dots
  BY <1>1, ElementOfSeq, LenProperties
<1>3. [s EXCEPT ![1] = y] = [j \in 1 .. 14 |-> IF j = 1 THEN y ELSE s[j]]
  BY <1>1, <1>2
<1>4. \A j \in 1 .. 14 : (IF j = 1 THEN y ELSE s[j]) \in Dots
  BY <1>2
<1> DEFINE e == [j \in 1 .. 14 |-> IF j = 1 THEN y ELSE s[j]]
<1>5. e \in Seq(Dots) /\ Len(e) = 14
  BY <1>4
<1> QED
  BY <1>3, <1>5, Zenon DEF Piece

LEMMA MonoHiresColumnOK ==
  ASSUME RowOK, NEW col \in Nat
  PROVE  /\ MonoHiresColumn(col) \in Seq(Dots) /\ Len(MonoHiresColumn(col)) = 14
         /\ MonoSpill(col) \in SUBSET Cell
<1>1. MonoSpill(col) \in SUBSET Cell
  BY DoubledOK DEF MonoSpill, Black
<1>2. lastmsb \cup spill \in Dots
  BY DotOK DEF RowOK
<1>3. CASE ~ IsHigh("main", col)
  <2> DEFINE d == Doubled(col)
  <2>1. d \in Seq(Dots) /\ Len(d) = 14 /\ \A k \in 1 .. 14 : d[k] \in SUBSET Cell
    BY DoubledOK
  <2>2. MonoHiresColumn(col) = [d EXCEPT ![1] = @ \cup spill]
    BY <1>3, Zenon DEF MonoHiresColumn, d
  <2> HIDE DEF d
  <2>3. d[1] \cup spill \in Dots
    BY <2>1, DotOK DEF RowOK
  <2>4. Piece([d EXCEPT ![1] = d[1] \cup spill], 14)
    BY <2>1, <2>3, FirstReplaced DEF Piece
  <2> QED
    BY <1>1, <2>2, <2>4, Zenon DEF Piece
<1>4. CASE IsHigh("main", col)
  <2> DEFINE x == lastmsb \cup spill
             d == SubSeq(Doubled(col), 1, 13)
  <2>1. d \in Seq(Dots) /\ Len(d) = 13
    BY DoubledOK
  <2>2. MonoHiresColumn(col) = <<x>> \o d
    BY <1>4, Zenon DEF MonoHiresColumn, x, d
  <2>3. x \in Dots
    BY <1>2
  <2> HIDE DEF x, d
  <2>4. Piece(<<x>>, 1) /\ Piece(d, 13)
    BY <2>1, <2>3, SingleOK, Zenon DEF Piece
  <2>5. Piece(<<x>> \o d, 14)
    BY <2>4, Fourteen
  <2> QED
    BY <1>1, <2>2, <2>5, Zenon DEF Piece
<1> QED
  BY <1>3, <1>4

\* Every column puts as many dots into the register as its renderer counts.
LEMMA ColumnOK ==
  ASSUME RowOK, NEW col \in Nat, dots \in Seq(Dots), renderer = "hires" => Len(dots) > 0
  PROVE  ColumnDots(col) \in Seq(Dots) /\ Len(ColumnDots(col)) = Rate(renderer)
<1> DEFINE aux  == Byte("aux", col)
           main == Byte("main", col)
<1>1. Piece(aux, 7) /\ Piece(main, 7)
  BY ByteOK DEF Piece
<1> HIDE DEF aux, main
<1>2. Piece(aux \o main, 14)
  BY <1>1, Fourteen
<1>3. CASE renderer = "text40"
  <2>1. ColumnDots(col) = main
    BY <1>3, Zenon DEF ColumnDots, main
  <2> QED
    BY <1>1, <1>3, <2>1 DEF Piece, Rate, OneDotWords
<1>4. CASE renderer \in {"color_text40", "dhgr_fb"}
  <2> DEFINE s == [k \in 1 .. 7 |-> <<Bit("main", col, k - 1), <<"aux", address + col>>>>]
  <2>1. \A k \in 1 .. 7 : <<Bit("main", col, k - 1), <<"aux", address + col>>>> \in Dots
    BY BitOK, DotOK, AddressOK
  <2>2. Piece(s, 7)
    BY <2>1 DEF Piece
  <2>3. ColumnDots(col) = s
    BY <1>4, Zenon DEF ColumnDots, s
  <2> HIDE DEF s
  <2> QED
    BY <1>4, <2>2, <2>3 DEF Piece, Rate, OneDotWords
<1>5. CASE renderer = "lores"
  <2>1. ColumnDots(col) = Times(14, Color("main", col, nibble))
    BY <1>5, Zenon DEF ColumnDots
  <2> QED
    BY <1>5, <2>1, ColorOK, TimesOK DEF Piece, Rate, OneDotWords
<1>6. CASE renderer = "lores_mono"
  <2>1. \A k \in 1 .. 14 : {Bit("main", col, nibble + ((k - 1) % 4))} \in Dots
    BY BitOK, DotOK DEF RowOK
  <2>2. ColumnDots(col) = lores_dot_pattern(col)
    BY <1>6, Zenon DEF ColumnDots
  <2> QED
    BY <1>6, <2>1, <2>2 DEF lores_dot_pattern, Rate, OneDotWords
<1>7. CASE renderer = "dgr"
  <2> DEFINE c == Times(7, Color("aux", col, nibble))
             d == Times(7, dlores_dhgr_map(Color("main", col, nibble)))
  <2>1. Piece(c, 7) /\ Piece(d, 7)
    BY ColorOK, TimesOK DEF Piece
  <2>2. ColumnDots(col) = c \o d
    BY <1>7, Zenon DEF ColumnDots, c, d
  <2> HIDE DEF c, d
  <2>4. Piece(c \o d, 14)
    BY <2>1, Fourteen
  <2> QED
    BY <1>7, <2>2, <2>4 DEF Piece, Rate, OneDotWords
<1>8. CASE renderer \in {"dgr_mono", "dgr_interp"}
  <2> DEFINE c == dgr_dot_pattern("aux", col)
             d == dgr_dot_pattern("main", col)
  <2>1. ASSUME NEW bank \in {"aux", "main"} PROVE Piece(dgr_dot_pattern(bank, col), 7)
    <3>1. \A k \in 1 .. 7 : {Bit(bank, col, nibble + ((k - 1 + 2 * (col % 2)) % 4))} \in Dots
      BY BitOK, DotOK DEF RowOK
    <3> QED
      BY <3>1 DEF dgr_dot_pattern, Piece
  <2>2. Piece(c, 7) /\ Piece(d, 7)
    BY <2>1
  <2>3. ColumnDots(col) = c \o d
    BY <1>8, Zenon DEF ColumnDots, c, d
  <2> HIDE DEF c, d
  <2>4. Piece(c \o d, 14)
    BY <2>2, Fourteen
  <2> QED
    BY <1>8, <2>3, <2>4 DEF Piece, Rate, OneDotWords
<1>9. CASE renderer = "hires"
  <2>1. ColumnDots(col) = HiresColumn(col)
    BY <1>9, Zenon DEF ColumnDots
  <2> QED
    BY <1>9, <2>1, HiresColumnOK DEF Piece, Rate, OneDotWords
<1>10. CASE renderer = "hires_mono"
  <2>1. ColumnDots(col) = MonoHiresColumn(col)
    BY <1>10, Zenon DEF ColumnDots
  <2> QED
    BY <1>10, <2>1, MonoHiresColumnOK DEF Piece, Rate, OneDotWords
<1>11. CASE renderer = "dhgr_160"
  <2> DEFINE s == [k \in 1 .. 16 |-> IF k <= 8 THEN {Bit("aux", col, k - 1)}
                                               ELSE {Bit("main", col, k - 9)}]
  <2>1. ASSUME NEW k \in 1 .. 16
        PROVE  (IF k <= 8 THEN {Bit("aux", col, k - 1)} ELSE {Bit("main", col, k - 9)})
                 \in Dots
    BY BitOK, DotOK
  <2>2. Piece(s, 16)
    BY <2>1 DEF Piece
  <2>3. ColumnDots(col) = s
    BY <1>11, Zenon DEF ColumnDots, s
  <2> HIDE DEF s
  <2> QED
    BY <1>11, <2>2, <2>3 DEF Piece, Rate, OneDotWords
<1>12. CASE renderer \in {"text80", "dhgr", "dhgr_mono", "dhgr_mixed", "dhgr_interp"}
  <2>1. ColumnDots(col) = aux \o main
    BY <1>12, Zenon DEF ColumnDots, Both, aux, main
  <2> QED
    BY <1>2, <1>12, <2>1 DEF Piece, Rate, OneDotWords
<1> QED
  BY <1>3, <1>4, <1>5, <1>6, <1>7, <1>8, <1>9, <1>10, <1>11, <1>12
     DEF RowOK, Renderers, TextRenderers, LoresRenderers, HiresRenderers

\* Every take makes as many words as its renderer counts.
LEMMA TakenLength ==
  ASSUME renderer \in Renderers
  PROVE  Len(Taken) = Chunk(renderer)
<1>1. CASE renderer = "text40"
  <2>1. Taken = <<Pair(dots[1])>>
    BY <1>1, Zenon DEF Taken
  <2> QED
    BY <1>1, <2>1 DEF Chunk
<1>2. CASE renderer \in {"color_text40", "dhgr_fb"}
  <2>1. Taken = <<dots[1]>>
    BY <1>2, Zenon DEF Taken
  <2> QED
    BY <1>2, <2>1 DEF Chunk
<1>3. CASE renderer = "hires"
  <2>1. Taken = <<<<words % 2, SubSeq(dots, 1, 8)>>>>
    BY <1>3, Zenon DEF Taken
  <2> QED
    BY <1>3, <2>1 DEF Chunk
<1>4. CASE renderer \in {"dgr_interp", "dhgr_interp"}
  <2>1. Taken = Slide(dots)
    BY <1>4, Zenon DEF Taken
  <2> QED
    BY <1>4, <2>1 DEF Slide, Chunk
<1>5. CASE renderer \in {"dhgr", "dhgr_160"}
  <2>1. Taken = Cells(2)
    BY <1>5, Zenon DEF Taken
  <2> QED
    BY <1>5, <2>1 DEF Cells, Chunk
<1>6. CASE renderer = "dhgr_mixed"
  <2>1. Taken = IF Colored(SubSeq(dots, 1, 4)) THEN Cells(1)
                ELSE <<SubSeq(dots, 1, 2), SubSeq(dots, 3, 4)>>
    BY <1>6, Zenon DEF Taken
  <2> QED
    BY <1>6, <2>1 DEF Cells, Chunk
<1>7. CASE renderer \in {"text80", "lores", "lores_mono", "dgr", "dgr_mono",
                         "hires_mono", "dhgr_mono"}
  <2>1. Taken = <<SubSeq(dots, 1, 2)>>
    BY <1>7, Zenon DEF Taken
  <2> QED
    BY <1>7, <2>1 DEF Chunk
<1> QED
  BY <1>1, <1>2, <1>3, <1>4, <1>5, <1>6, <1>7
     DEF Renderers, TextRenderers, LoresRenderers, HiresRenderers

-----------------------------------------------------------------------------
(* The invariant.                                                          *)

Inv ==
  /\ RowOK /\ phase \in {"load", "take", "done"} /\ dots \in Seq(Dots)
  /\ Counts(renderer, phase, i, Len(dots), words)

LEMMA CountsRange ==
  ASSUME NEW r \in Renderers, NEW ph, NEW c, NEW n, NEW w, Counts(r, ph, c, n, w)
  PROVE  /\ c \in Nat /\ n \in Nat /\ w \in Nat
         /\ Two(r) => c + 2 \in Nat
         /\ r = "hires" => n > 0
         /\ r = "hires_mono" => n <= 14
         /\ n <= 32
  BY ScanlineAssumption DEF Counts, Books, LastOf, Low, High

LEMMA LastIs == LastOf(renderer) = Last
  BY DEF LastOf, Last

\* The empty register, that of a row of hires and that of an interpolated one.
LEMMA BegunCounts ==
  ASSUME NEW r \in Renderers, NEW n, NEW c, c = IF r = "hires" THEN 1 ELSE 0,
         n = IF r = "hires" THEN 17 ELSE IF r = "dhgr_interp" THEN 4 ELSE 0
  PROVE  Counts(r, "load", c, n, 0)
<1> USE ScanlineAssumption
     DEF Counts, Books, Whole, Complete, Weight, Rate, Ahead, Chunk, LastOf, Low, High,
         Two, OneDotWords
<1>1. CASE r = "hires"
  BY <1>1
<1>2. CASE r = "dhgr_interp"
  BY <1>2
<1>3. CASE r \notin {"hires", "dhgr_interp"}
  BY <1>3
<1> QED
  BY ONLY <1>1, <1>2, <1>3

\* The first column of hires, from which the row that begins is read already.
LEMMA FirstDoubled ==
  ASSUME renderer' \in Renderers, line' \in 0 .. 191
  PROVE  LET d == Doubled(0)'
         IN  /\ d \in Seq(Dots) /\ Len(d) = 14
             /\ SubSeq(d, 1, 13) \in Seq(Dots) /\ Len(SubSeq(d, 1, 13)) = 13
<1> DEFINE d == Doubled(0)'
           a == IF renderer' \in HiresRenderers THEN hires_line_to_mem_offset(line')
                ELSE text_line_offset(line')
<1>1. a \in Nat
  BY Addresses
<1>2. d = [k \in 1 .. 14 |-> {<<"main", a + 0, (k - 1) \div 2>>}]
  BY DEF Doubled, Bit, address
<1> HIDE DEF a
<1>3. \A k \in 1 .. 14 : {<<"main", a + 0, (k - 1) \div 2>>} \in Dots
  BY <1>1 DEF Dots, Cell
<1> DEFINE e == [k \in 1 .. 14 |-> {<<"main", a + 0, (k - 1) \div 2>>}]
<1>4. e \in Seq(Dots) /\ Len(e) = 14 /\ \A k \in 1 .. 14 : e[k] \in Dots
  BY <1>3
<1>5. d = e
  BY <1>2
<1> HIDE DEF d, e
<1>6. d \in Seq(Dots) /\ Len(d) = 14 /\ \A k \in 1 .. 14 : d[k] \in Dots
  BY <1>4, <1>5
<1>7. \A k \in 1 .. 13 : d[k] \in Dots
  BY <1>6
<1>8. SubSeq(d, 1, 13) \in Seq(Dots) /\ Len(SubSeq(d, 1, 13)) = 13
  BY <1>7, SubSeqProperties
<1> QED
  BY <1>6, <1>8 DEF d

LEMMA Begins ==
  ASSUME NEW r \in Renderers, NEW y \in 0 .. 191, NEW n \in {0, 4}, NEW h, Begin(r, y, n, h)
  PROVE  Inv'
<1>1. /\ renderer' = r /\ line' = y /\ nibble' = n /\ phase' = "load"
      /\ i' = (IF r = "hires" THEN 1 ELSE 0) /\ spill' = Black /\ lastmsb' = Black
      /\ words' = 0
  BY DEF Begin
<1>2. RowOK'
  BY <1>1 DEF RowOK, Black
<1>3. Piece(dots', IF r = "hires" THEN 17 ELSE IF r = "dhgr_interp" THEN 4 ELSE 0)
  <2>1. CASE r = "hires"
    <3> DEFINE d     == Doubled(0)'
               first == IF <<"main", 0>> \notin h THEN d
                        ELSE <<Black>> \o SubSeq(d, 1, 13)
    <3>1. dots' = Times(3, Black) \o first
      BY <2>1, Zenon DEF Begin
    <3>2. /\ Piece(d, 14) /\ Piece(SubSeq(d, 1, 13), 13)
      BY <1>1, FirstDoubled DEF Piece
    <3> HIDE DEF d
    <3>3. Piece(<<Black>>, 1) /\ Piece(Times(3, Black), 3)
      BY DotOK, SingleOK, TimesOK DEF Piece
    <3>4. Piece(<<Black>> \o SubSeq(d, 1, 13), 14)
      BY <3>2, <3>3, Fourteen
    <3>5. Piece(first, 14)
      BY <3>2, <3>4
    <3> HIDE DEF first
    <3>6. Piece(Times(3, Black) \o first, 3 + 14)
      BY <3>3, <3>5, Joined
    <3> QED
      BY <2>1, <3>1, <3>6
  <2>2. CASE r = "dhgr_interp"
    <3>1. dots' = Times(4, Black)
      BY <2>2, Zenon DEF Begin
    <3> QED
      BY <2>2, <3>1, DotOK, TimesOK DEF Piece
  <2>3. CASE r \notin {"hires", "dhgr_interp"}
    <3>1. dots' = << >>
      BY <2>3, Zenon DEF Begin
    <3> QED
      BY <2>3, <3>1 DEF Piece
  <2> QED
    BY <2>1, <2>2, <2>3
<1>4. Counts(r, "load", i', Len(dots'), 0)
  BY <1>1, <1>3, BegunCounts DEF Piece
<1> QED
  BY <1>1, <1>2, <1>3, <1>4 DEF Inv, Piece

LEMMA LoadInv ==
  ASSUME Inv, Load, Cols % 4 = 0
  PROVE  Inv'
<1> DEFINE n == Len(dots)
           c == Columns(renderer)
           m == Rate(renderer)
<1>1. /\ RowOK /\ phase = "load" /\ LoadsMore /\ dots \in Seq(Dots)
      /\ renderer \in Renderers /\ Counts(renderer, "load", i, n, words)
  BY DEF Inv, Load, RowOK
<1>2. LoopIs(renderer, Loop)
  BY <1>1, LoopNumbers
<1>3. /\ n \in Nat /\ i \in Nat /\ (renderer = "hires" => n > 0)
      /\ (renderer = "hires_mono" => n <= 14)
  BY <1>1, CountsRange
<1>4. LoadsAt(renderer, Loop, i, n)
  BY <1>1, LastIs DEF LoadsMore, LoadsAt
<1>5. Counts(renderer, "load", i + c, n + m * c, words)
  BY <1>1, <1>2, <1>4, LoadCounts, Zenon
<1>6. Loop.columns = c /\ c \in {1, 2} /\ m \in Nat
  BY <1>2 DEF LoopIs, Columns, Rate
<1>7. Piece(dots', n + m * c)
  <2>1. Piece(dots, n) /\ Piece(ColumnDots(i), m)
    BY <1>1, <1>3, ColumnOK DEF Piece
  <2>2. Piece(dots \o ColumnDots(i), n + m)
    BY <1>3, <1>6, <2>1, Joined
  <2>3. CASE c = 1
    <3>1. dots' = dots \o ColumnDots(i)
      BY <1>6, <2>3 DEF Load
    <3>2. n + m * c = n + m
      BY <1>3, <1>6, <2>3
    <3> QED
      BY <2>2, <3>1, <3>2
  <2>4. CASE c = 2
    <3>1. dots' = dots \o ColumnDots(i) \o ColumnDots(i + 1)
      BY <1>6, <2>4 DEF Load
    <3>2. renderer # "hires"
      BY <2>4 DEF Columns, Two
    <3>3. Piece(ColumnDots(i + 1), m)
      BY <1>1, <1>3, <3>2, ColumnOK DEF Piece
    <3>4. Piece((dots \o ColumnDots(i)) \o ColumnDots(i + 1), (n + m) + m)
      BY <1>3, <1>6, <2>2, <3>3, Joined
    <3>5. n + m * c = (n + m) + m
      BY <1>3, <1>6, <2>4
    <3> QED
      BY <3>1, <3>4, <3>5
  <2> QED
    BY <1>6, <2>3, <2>4
<1>8. RowOK'
  <2>1. UNCHANGED <<renderer, line, nibble>>
    BY DEF Load, row
  <2>2. CASE renderer = "hires_mono"
    <3>1. spill' = MonoSpill(i) /\ lastmsb' \in {{Bit("main", i, 6)}, Black}
      BY <2>2 DEF Load
    <3>2. MonoSpill(i) \in SUBSET Cell /\ {Bit("main", i, 6)} \in SUBSET Cell
      BY <1>1, <1>3, MonoHiresColumnOK, BitOK
    <3>3. lastmsb' \in SUBSET Cell
      BY <3>1, <3>2 DEF Black
    <3> QED
      BY <1>1, <2>1, <2>2, <3>1, <3>2, <3>3 DEF RowOK
  <2>3. CASE renderer # "hires_mono"
    <3>1. UNCHANGED <<spill, lastmsb>>
      BY <2>3 DEF Load
    <3> QED
      BY <1>1, <2>1, <3>1 DEF RowOK
  <2> QED
    BY <2>2, <2>3
<1>9. /\ renderer' = renderer /\ phase' = phase /\ words' = words /\ i' = i + c
  BY <1>6 DEF Load, row
<1> QED
  BY <1>1, <1>5, <1>7, <1>8, <1>9 DEF Inv, Piece

LEMMA TakeInv ==
  ASSUME Inv, Take, Cols % 4 = 0
  PROVE  Inv'
<1> DEFINE n == Len(dots)
<1>1. /\ RowOK /\ phase = "take" /\ TakesMore /\ dots \in Seq(Dots)
      /\ renderer \in Renderers /\ Counts(renderer, "take", i, n, words)
  BY DEF Inv, Take, RowOK
<1>2. LoopIs(renderer, Loop)
  BY <1>1, LoopNumbers
<1>3. TakesAt(renderer, Loop, i, n)
  BY <1>1, LastIs DEF TakesMore, TakesAt
<1>4. /\ Loop.take <= n
      /\ Counts(renderer, "take", i, n - Loop.take, words + Chunk(renderer))
  BY <1>1, <1>2, <1>3, TakeCounts, Zenon
<1>5. n \in Nat /\ Loop.take \in Nat
  <2>1. Loop.take \in {1, 2, 4, 8}
    BY <1>1, <1>2 DEF LoopIs, Bounds, Plain, OneDotWords, Renderers, TextRenderers,
                      LoresRenderers, HiresRenderers
  <2> QED
    BY <1>1, <2>1, CountsRange
<1>6. Piece(dots', n - Loop.take)
  <2> DEFINE k == Loop.take
  <2>1. dots' = SubSeq(dots, k + 1, n)
    BY DEF Take
  <2> HIDE DEF k
  <2>2. \A j \in k + 1 .. n : dots[j] \in Dots
    BY <1>1, <1>5, ElementOfSeq DEF k
  <2>3. k + 1 \in Int /\ n \in Int /\ k <= n /\ k \in Nat
    BY <1>4, <1>5 DEF k
  <2> HIDE DEF n
  <2>4. /\ SubSeq(dots, k + 1, n) \in Seq(Dots)
        /\ Len(SubSeq(dots, k + 1, n)) = IF k + 1 <= n THEN n - (k + 1) + 1 ELSE 0
    BY <2>2, <2>3, SubSeqProperties
  <2>5. (IF k + 1 <= n THEN n - (k + 1) + 1 ELSE 0) = n - k
    BY <2>3
  <2> QED
    BY <2>1, <2>4, <2>5, Zenon DEF Piece, k
<1>7. /\ renderer' = renderer /\ phase' = phase /\ i' = i
      /\ words' = words + Chunk(renderer)
  BY <1>1, TakenLength DEF Take, row
<1>8. RowOK'
  BY <1>1 DEF Take, row, RowOK
<1> QED
  BY <1>1, <1>4, <1>6, <1>7, <1>8 DEF Inv, Piece

\* The invariant holds when there is no row yet, and every step of a renderer keeps it.
LEMMA InvInit ==
  ASSUME Init, Cols % 4 = 0
  PROVE  Inv
<1>1. RowOK /\ phase = "done" /\ dots = << >> /\ i = Cols /\ words = 7 * Cols
      /\ renderer = "text40"
  BY DEF Init, RowOK, Black, Renderers, TextRenderers
<1>2. Counts("text40", "done", Cols, 0, 7 * Cols)
  BY ScanlineAssumption
     DEF Counts, Books, Whole, Complete, Weight, Rate, Ahead, Chunk, LastOf, Low, High,
         Two, OneDotWords, AllWords
<1> QED
  BY <1>1, <1>2 DEF Inv

LEMMA InvStep ==
  ASSUME Inv, [Next]_vars, Cols % 4 = 0
  PROVE  Inv'
<1>1. CASE NextRow
  BY <1>1, Begins, ScanlineAssumption
     DEF NextRow, AnyRow, Renderers, TextRenderers, LoresRenderers, HiresRenderers
<1>2. CASE Load
  BY <1>2, LoadInv
<1>3. CASE Loaded
  <2>1. Counts(renderer, "take", i, Len(dots), words)
    BY <1>3 DEF Inv, Loaded, Counts, Whole, Complete
  <2> QED
    BY <1>3, <2>1 DEF Inv, Loaded, row, RowOK
<1>4. CASE Take
  BY <1>4, TakeInv
<1>5. CASE AllTaken
  <2> DEFINE n == Len(dots)
  <2>1. /\ phase = "take" /\ ~ TakesMore /\ renderer \in Renderers
        /\ Counts(renderer, "take", i, n, words)
    BY <1>5 DEF AllTaken, Inv, RowOK
  <2>2. LoopIs(renderer, Loop)
    BY <2>1, LoopNumbers
  <2>3. ~ TakesAt(renderer, Loop, i, n)
    BY <2>1, LastIs DEF TakesMore, TakesAt
  <2>4. Counts(renderer, IF i < LastOf(renderer) THEN "load" ELSE "done", i, n, words)
    BY <2>1, <2>2, <2>3, AllTakenCounts, Zenon
  <2> QED
    BY <1>5, <2>4, LastIs DEF Inv, AllTaken, row, RowOK
<1>6. CASE UNCHANGED vars
  BY <1>6 DEF vars, Inv, RowOK
<1> QED
  BY <1>1, <1>2, <1>3, <1>4, <1>5, <1>6 DEF Next

THEOREM InvAlways ==
  ASSUME Cols % 4 = 0
  PROVE  Spec => []Inv
<1>1. Init => Inv
  BY InvInit
<1>2. Inv /\ [Next]_vars => Inv'
  BY InvStep
<1> QED
  BY <1>1, <1>2, PTL DEF Spec

-----------------------------------------------------------------------------
(* Theorems.                                                               *)

\* No renderer's shift register of 32 bits ever holds more dots than that, whatever
\* the width of the row.
THEOREM RegisterAlwaysFits ==
  ASSUME Cols % 4 = 0
  PROVE  Spec => []RegisterFits
<1>1. Inv => RegisterFits
  <2> SUFFICES ASSUME Inv PROVE RegisterFits
    OBVIOUS
  <2>1. /\ Len(dots) \in Nat /\ Len(dots) <= 32
        /\ renderer = "hires_mono" => Len(dots) <= 14
    BY CountsRange DEF Inv, RowOK
  <2> QED
    BY <2>1 DEF RegisterFits, Inv, RowOK
<1> QED
  BY <1>1, InvAlways, PTL

\* Every renderer writes all the words of its channel and never one more, whatever the
\* width of the row: no dot is lost between the inner loops or left in the register.
THEOREM LinesAlwaysExact ==
  ASSUME Cols % 4 = 0
  PROVE  Spec => []LineExact
<1>1. ASSUME NEW r \in Renderers, NEW ph, NEW c, NEW n, NEW w, Counts(r, ph, c, n, w)
      PROVE  /\ w <= AllWords(r)
             /\ ph = "done" => w = AllWords(r)
             /\ 2 * XOFS(r) + AllWords(r) = DVI_WORDS_PER_CHANNEL
             /\ w \in Nat /\ XOFS(r) \in Nat
  <2> USE ScanlineAssumption
  <2>1. CASE r \in OneDotWords
    BY <1>1, <2>1 DEF Counts, Books, Complete, Weight, Rate, Ahead, LastOf, Low, AllWords,
                      XOFS, DVI_WORDS_PER_CHANNEL, OneDotWords
  <2>2. CASE r = "dhgr_160"
    BY <1>1, <2>2 DEF Counts, Books, Complete, Weight, Rate, Ahead, LastOf, Low, AllWords,
                      XOFS, DVI_WORDS_PER_CHANNEL, OneDotWords
  <2>3. CASE r = "hires"
    BY <1>1, <2>3 DEF Counts, Books, Complete, Weight, Rate, Ahead, LastOf, Low, AllWords,
                      XOFS, DVI_WORDS_PER_CHANNEL, OneDotWords
  <2>4. CASE r = "dhgr_interp"
    BY <1>1, <2>4 DEF Counts, Books, Complete, Weight, Rate, Ahead, LastOf, Low, AllWords,
                      XOFS, DVI_WORDS_PER_CHANNEL, OneDotWords
  <2>5. CASE r \notin OneDotWords \cup {"dhgr_160", "hires", "dhgr_interp"}
    BY <1>1, <2>5 DEF Counts, Books, Complete, Weight, Rate, Ahead, LastOf, Low, AllWords,
                      XOFS, DVI_WORDS_PER_CHANNEL, OneDotWords
  <2> QED
    BY <2>1, <2>2, <2>3, <2>4, <2>5
<1>2. Inv => LineExact
  <2> SUFFICES ASSUME Inv PROVE LineExact
    OBVIOUS
  <2>1. /\ words <= AllWords(renderer) /\ (phase = "done" => words = AllWords(renderer))
        /\ 2 * XOFS(renderer) + AllWords(renderer) = DVI_WORDS_PER_CHANNEL
        /\ words \in Nat /\ XOFS(renderer) \in Nat
    BY <1>1 DEF Inv, RowOK
  <2>2. AllWords(renderer) \in Nat
    BY ScanlineAssumption DEF AllWords
  <2> QED
    BY <2>1, <2>2 DEF LineExact
<1> QED
  BY <1>2, InvAlways, PTL

-----------------------------------------------------------------------------
(* The dots in their places.                                               *)

\* The dot at the position d of everything that a renderer puts into its register:
\* what the Apple shows there, behind the black dots that some begin with.
Content(d) ==
  IF renderer = "hires" THEN ColorHiresDot(d - 3)
  ELSE IF renderer = "text40" THEN MemoryBit("main", d \div 7, d % 7)
  ELSE IF renderer \in {"color_text40", "dhgr_fb"} THEN
         <<<<"main", LineAddress + (d \div 7), d % 7>>, <<"aux", LineAddress + (d \div 7)>>>>
  ELSE IF renderer = "lores" THEN
         [k \in 1 .. 4 |-> <<"main", LineAddress + (d \div 14), nibble + k - 1>>]
  ELSE IF renderer = "dgr" THEN CellColor(d)
  ELSE IF renderer = "dhgr_160" THEN
         MemoryBit(IF d % 16 < 8 THEN "aux" ELSE "main", d \div 16, d % 8)
  ELSE IF renderer = "dhgr_interp" THEN Dot(d - 4)
  ELSE Dot(d)

\* The dots of s are in their places from the position p on.
InPlace(s, p) == \A k \in 1 .. Len(s) : s[k] = Content(p + k - 1)

\* What the monochrome renderer of hires knows of the byte before.
Carried ==
  renderer = "hires_mono" =>
    /\ lastmsb = Black
    /\ spill = IF i > 0 /\ Delayed(i - 1) THEN HalfDot(14 * i - 1) ELSE Black

LineRange == renderer \notin HiresRenderers => line \in 0 .. 23

\* The words written so far have taken the dots up to here.
Position == Weight(renderer) * words

Placed == LineRange /\ Carried /\ InPlace(dots, Position)

\* Columns, and dots in them.
LEMMA Split ==
  ASSUME NEW c \in Nat, NEW k \in Nat
  PROVE  /\ k < 7  => (7 * c + k) \div 7 = c /\ (7 * c + k) % 7 = k
         /\ k < 14 => (14 * c + k) \div 14 = c /\ (14 * c + k) % 14 = k
                      /\ (14 * c + k) % 7 = k % 7
         /\ k < 16 => (16 * c + k) \div 16 = c /\ (16 * c + k) % 16 = k
                      /\ (16 * c + k) % 8 = k % 8
OBVIOUS

\* Text rows and hires lines, 64 to each third of the screen, are where the Apple has them.
LEMMA RowsInMemory ==
  /\ \A y \in 0 .. 23 : text_line_offset(y) = RowAddress(y)
  /\ \A y \in 0 .. 191 :
       hires_line_to_mem_offset(y) = 1024 * (y % 8) + RowAddress(y \div 8)
<1>1. ASSUME NEW y \in 0 .. 23
      PROVE  text_line_offset(y) = RowAddress(y)
  <2>1. (y \div 8) % 4 = y \div 8
    OBVIOUS
  <2> QED
    BY <2>1 DEF text_line_offset, RowAddress
<1>2. ASSUME NEW y \in 0 .. 191
      PROVE  hires_line_to_mem_offset(y) = 1024 * (y % 8) + RowAddress(y \div 8)
  <2>1. (y \div 8) \div 8 = y \div 64
    OBVIOUS
  <2>2. /\ y % 8 \in Nat /\ (y \div 8) % 8 \in Nat /\ y \div 64 \in Nat
    OBVIOUS
  <2> QED
    BY <2>1, <2>2 DEF hires_line_to_mem_offset, RowAddress
<1> QED
  BY <1>1, <1>2

LEMMA AddressIs ==
  ASSUME RowOK, LineRange
  PROVE  address = LineAddress
<1>1. CASE renderer \in HiresRenderers
  BY <1>1, RowsInMemory DEF address, LineAddress, RowOK
<1>2. CASE renderer \notin HiresRenderers
  BY <1>2, RowsInMemory DEF address, LineAddress, LineRange
<1> QED
  BY <1>1, <1>2

LEMMA BitIs ==
  ASSUME RowOK, LineRange, NEW bank, NEW col, NEW k
  PROVE  /\ Bit(bank, col, k) = <<bank, LineAddress + col, k>>
         /\ {Bit(bank, col, k)} = MemoryBit(bank, col, k)
  BY AddressIs DEF Bit, MemoryBit

\* The dot d, by the kind of renderer.
LEMMA DotIs ==
  ASSUME NEW d \in Int
  PROVE  /\ ~ (d \in 0 .. 14 * Cols - 1) => Dot(d) = Black
         /\ d \in 0 .. 14 * Cols - 1 =>
              /\ renderer = "lores_mono" =>
                   Dot(d) = MemoryBit("main", d \div 14, nibble + ((d % 14) % 4))
              /\ renderer \in {"dgr_mono", "dgr_interp"} =>
                   Dot(d) = MemoryBit(BankOf(d), d \div 14,
                                      nibble + (IF d % 14 < 7 THEN d % 4 ELSE (d + 1) % 4))
              /\ renderer = "hires_mono" => Dot(d) = MonoHiresDot(d)
              /\ renderer \notin {"lores_mono", "dgr_mono", "dgr_interp", "hires_mono"} =>
                   Dot(d) = MemoryBit(BankOf(d), d \div 14, d % 7)
<1> DEFINE in == d \in 0 .. 14 * Cols - 1
           out == d < 0 \/ d >= 14 * Cols
<1>1. out <=> ~ in
  BY ScanlineAssumption
<1>2. CASE ~ in
  <2>1. out
    BY <1>1, <1>2
  <2>2. Dot(d) = Black
    BY <1>2, <2>1, Zenon DEF Dot
  <2> QED
    BY <1>2, <2>2
<1>3. CASE in
  <2>1. ~ out
    BY <1>1, <1>3
  <2>2. CASE renderer = "lores_mono"
    BY <1>3, <2>1, <2>2, Zenon DEF Dot
  <2>3. CASE renderer \in {"dgr_mono", "dgr_interp"}
    BY <1>3, <2>1, <2>3, Zenon DEF Dot
  <2>4. CASE renderer = "hires_mono"
    BY <1>3, <2>1, <2>4, Zenon DEF Dot
  <2>5. CASE renderer \notin {"lores_mono", "dgr_mono", "dgr_interp", "hires_mono"}
    BY <1>3, <2>1, <2>5, Zenon DEF Dot
  <2> QED
    BY <1>3, <2>2, <2>3, <2>4, <2>5
<1> QED
  BY <1>2, <1>3

\* The dots of a column lie in the picture.
LEMMA Inside ==
  ASSUME NEW col \in 0 .. Cols - 1, NEW k \in 0 .. 13
  PROVE  14 * col + k \in 0 .. 14 * Cols - 1
  BY ScanlineAssumption

\* One piece behind the other, and what is left of one.
LEMMA InPlaceJoined ==
  ASSUME NEW s, NEW t, NEW n \in Nat, NEW m \in Nat, Piece(s, n), Piece(t, m),
         NEW p \in Int, InPlace(s, p), InPlace(t, p + n)
  PROVE  InPlace(s \o t, p)
<1>1. Piece(s \o t, n + m)
  BY Joined
<1>d. /\ \A k \in 1 .. n : (s \o t)[k] = s[k]
      /\ \A k \in n + 1 .. n + m : (s \o t)[k] = t[k - n]
  BY ConcatProperties DEF Piece
<1>2. ASSUME NEW k \in 1 .. n + m
      PROVE  (s \o t)[k] = Content(p + k - 1)
  <2>1. CASE k \in 1 .. n
    BY <1>d, <2>1 DEF InPlace, Piece
  <2>2. CASE k \in n + 1 .. n + m
    <3>1. k - n \in 1 .. m /\ (p + n) + (k - n) - 1 = p + k - 1
      BY <2>2
    <3>2. t[k - n] = Content((p + n) + (k - n) - 1)
      BY <3>1, Zenon DEF InPlace, Piece
    <3> QED
      BY <1>d, <2>2, <3>1, <3>2
  <2>3. k \in 1 .. n \/ k \in n + 1 .. n + m
    OBVIOUS
  <2> QED
    BY <2>1, <2>2, <2>3, Zenon
<1> QED
  BY <1>1, <1>2 DEF InPlace, Piece

LEMMA InPlaceTail ==
  ASSUME NEW s, NEW n \in Nat, Piece(s, n), NEW j \in Nat, j <= n,
         NEW p \in Int, InPlace(s, p)
  PROVE  InPlace(SubSeq(s, j + 1, n), p + j)
<1>1. s \in Seq(Dots) /\ Len(s) = n
  BY DEF Piece
<1>2. \A k \in j + 1 .. n : s[k] \in Dots
  BY <1>1, ElementOfSeq
<1> DEFINE t == SubSeq(s, j + 1, n)
<1>3. Len(t) = n - j /\ \A k \in 1 .. n - j : t[k] = s[j + k]
  BY <1>1, <1>2, SubSeqProperties
<1> HIDE DEF t
<1>4. ASSUME NEW k \in 1 .. n - j
      PROVE  t[k] = Content((p + j) + k - 1)
  <2>1. j + k \in 1 .. n /\ p + (j + k) - 1 = (p + j) + k - 1
    OBVIOUS
  <2>2. s[j + k] = Content(p + (j + k) - 1)
    BY <1>1, <2>1, Zenon DEF InPlace
  <2> QED
    BY <1>3, <2>1, <2>2
<1> QED
  BY <1>3, <1>4 DEF InPlace, t

LEMMA ByteDots ==
  ASSUME RowOK, LineRange, NEW bank \in {"aux", "main"}, NEW col \in Nat
  PROVE  /\ Piece(Byte(bank, col), 7)
         /\ \A k \in 1 .. 7 : Byte(bank, col)[k] = MemoryBit(bank, col, k - 1)
<1>1. Piece(Byte(bank, col), 7)
  BY ByteOK DEF Piece
<1>2. ASSUME NEW k \in 1 .. 7
      PROVE  Byte(bank, col)[k] = MemoryBit(bank, col, k - 1)
  <2>1. Byte(bank, col)[k] = {Bit(bank, col, k - 1)}
    BY DEF Byte
  <2> QED
    BY <2>1, BitIs
<1> QED
  BY <1>1, <1>2

\* The renderers that show the two banks, dot by dot.
PlainBytes == {"text80", "dhgr", "dhgr_mono", "dhgr_mixed", "dhgr_interp"}

LEMMA PlainContent ==
  ASSUME renderer \in PlainBytes, NEW d \in Int
  PROVE  Content(Ahead(renderer) + d) = Dot(d)
<1>1. CASE renderer = "dhgr_interp"
  <2>1. Ahead(renderer) = 4
    BY <1>1 DEF Ahead
  <2>2. Content(4 + d) = Dot((4 + d) - 4)
    BY <1>1 DEF Content
  <2>3. (4 + d) - 4 = d
    OBVIOUS
  <2> QED
    BY <2>1, <2>2, <2>3
<1>2. CASE renderer \in PlainBytes \ {"dhgr_interp"}
  <2>1. Ahead(renderer) + d = d
    BY <1>2 DEF Ahead, PlainBytes
  <2> QED
    BY <1>2, <2>1 DEF Content, PlainBytes
<1> QED
  BY <1>1, <1>2

\* Which dots of a column are of which bank.
LEMMA Banks ==
  ASSUME NEW col \in Nat, NEW k \in 0 .. 6
  PROVE  /\ (14 * col + k) \div 14 = col /\ (14 * col + k) % 14 = k
         /\ (14 * col + k) % 7 = k /\ BankOf(14 * col + k) = "aux"
         /\ (14 * col + 7 + k) \div 14 = col /\ (14 * col + 7 + k) % 14 = 7 + k
         /\ (14 * col + 7 + k) % 7 = k /\ BankOf(14 * col + 7 + k) = "main"
<1>1. /\ (14 * col + k) \div 14 = col /\ (14 * col + k) % 14 = k
      /\ (14 * col + k) % 7 = k
  BY Split
<1>2. /\ (14 * col + 7 + k) \div 14 = col /\ (14 * col + 7 + k) % 14 = 7 + k
      /\ (14 * col + 7 + k) % 7 = k
  OBVIOUS
<1> QED
  BY <1>1, <1>2 DEF BankOf

LEMMA PlainColumn ==
  ASSUME RowOK, LineRange, renderer \in PlainBytes, NEW col \in 0 .. Cols - 1
  PROVE  InPlace(Both(col), Ahead(renderer) + 14 * col)
<1> DEFINE a == Ahead(renderer)
<1>0. a \in Nat /\ col \in Nat
  BY DEF Ahead
<1> HIDE DEF a
<1>1. ASSUME NEW k \in 0 .. 6
      PROVE  /\ Content((a + 14 * col) + k) = MemoryBit("aux", col, k)
             /\ Content((a + 14 * col) + 7 + k) = MemoryBit("main", col, k)
  <2>1. /\ 14 * col + k \in 0 .. 14 * Cols - 1 /\ 14 * col + 7 + k \in 0 .. 14 * Cols - 1
    BY Inside, ScanlineAssumption
  <2>2. /\ Content(a + (14 * col + k)) = Dot(14 * col + k)
        /\ Content(a + (14 * col + 7 + k)) = Dot(14 * col + 7 + k)
    BY <2>1, PlainContent DEF a
  <2>5. \A d \in 0 .. 14 * Cols - 1 : Dot(d) = MemoryBit(BankOf(d), d \div 14, d % 7)
    BY DotIs DEF PlainBytes
  <2>3. /\ Dot(14 * col + k) = MemoryBit("aux", col, k)
        /\ Dot(14 * col + 7 + k) = MemoryBit("main", col, k)
    <3> DEFINE x == 14 * col + k
               y == 14 * col + 7 + k
    <3>1. /\ x \div 14 = col /\ x % 7 = k /\ BankOf(x) = "aux"
          /\ y \div 14 = col /\ y % 7 = k /\ BankOf(y) = "main"
      BY <1>0, Banks
    <3>2. x \in 0 .. 14 * Cols - 1 /\ y \in 0 .. 14 * Cols - 1
      BY <2>1
    <3> HIDE DEF x, y
    <3>3. Dot(x) = MemoryBit("aux", col, k) /\ Dot(y) = MemoryBit("main", col, k)
      BY <2>5, <3>1, <3>2
    <3> QED
      BY <3>3 DEF x, y
  <2>4. /\ a + (14 * col + k) = (a + 14 * col) + k
        /\ a + (14 * col + 7 + k) = (a + 14 * col) + 7 + k
    BY <1>0
  <2> QED
    BY <2>2, <2>3, <2>4
<1> DEFINE p == a + 14 * col
<1>2. p \in Int
  BY <1>0
<1>3. InPlace(Byte("aux", col), p)
  <2>1. ASSUME NEW k \in 1 .. 7
        PROVE  Byte("aux", col)[k] = Content(p + k - 1)
    <3>1. k - 1 \in 0 .. 6 /\ p + k - 1 = p + (k - 1)
      BY <1>2
    <3> QED
      BY <1>0, <1>1, <3>1, ByteDots
  <2> QED
    BY <1>0, <2>1, ByteDots DEF InPlace, Piece
<1>4. InPlace(Byte("main", col), p + 7)
  <2>1. ASSUME NEW k \in 1 .. 7
        PROVE  Byte("main", col)[k] = Content((p + 7) + k - 1)
    <3>1. k - 1 \in 0 .. 6 /\ (p + 7) + k - 1 = p + 7 + (k - 1)
      BY <1>2
    <3> QED
      BY <1>0, <1>1, <3>1, ByteDots
  <2> QED
    BY <1>0, <2>1, ByteDots DEF InPlace, Piece
<1> HIDE DEF p
<1>5. InPlace(Byte("aux", col) \o Byte("main", col), p)
  BY <1>0, <1>2, <1>3, <1>4, ByteDots, InPlaceJoined
<1> QED
  BY <1>5 DEF Both, p, a

LEMMA PieceInPlace ==
  ASSUME NEW s, NEW n \in Nat, Piece(s, n), NEW p \in Int,
         \A k \in Nat : k < n => s[k + 1] = Content(p + k)
  PROVE  InPlace(s, p)
<1>1. ASSUME NEW k \in 1 .. n
      PROVE  s[k] = Content(p + k - 1)
  <2>1. k - 1 \in Nat /\ k - 1 < n /\ (k - 1) + 1 = k /\ p + (k - 1) = p + k - 1
    OBVIOUS
  <2>2. s[(k - 1) + 1] = Content(p + (k - 1))
    BY <2>1
  <2> QED
    BY <2>1, <2>2
<1> QED
  BY <1>1 DEF InPlace, Piece

LEMMA HalvesInPlace ==
  ASSUME NEW s, NEW t, Piece(s, 7), Piece(t, 7), NEW p \in Int,
         \A k \in 0 .. 6 : s[k + 1] = Content(p + k) /\ t[k + 1] = Content(p + 7 + k)
  PROVE  InPlace(s \o t, p)
<1>0. \A k \in Nat : k < 7 => s[k + 1] = Content(p + k) /\ t[k + 1] = Content(p + 7 + k)
  OBVIOUS
<1>1. InPlace(s, p)
  BY <1>0, PieceInPlace
<1>2. InPlace(t, p + 7)
  BY <1>0, PieceInPlace
<1> QED
  BY <1>1, <1>2, InPlaceJoined

\* The renderers with seven words to a byte.
LEMMA TextColumn ==
  ASSUME RowOK, LineRange, renderer = "text40", NEW col \in Nat
  PROVE  InPlace(Byte("main", col), 7 * col)
<1>1. ASSUME NEW k \in Nat, k < 7
      PROVE  Byte("main", col)[k + 1] = Content(7 * col + k)
  <2> DEFINE x == 7 * col + k
  <2>1. x \div 7 = col /\ x % 7 = k
    BY <1>1, Split
  <2> HIDE DEF x
  <2>2. Content(x) = MemoryBit("main", col, k)
    BY <2>1 DEF Content
  <2>3. k + 1 \in 1 .. 7 /\ (k + 1) - 1 = k
    BY <1>1
  <2>4. Byte("main", col)[k + 1] = MemoryBit("main", col, (k + 1) - 1)
    BY <2>3, ByteDots
  <2> QED
    BY <2>2, <2>3, <2>4 DEF x
<1> QED
  BY <1>1, ByteDots, PieceInPlace

LEMMA AttributeColumn ==
  ASSUME RowOK, LineRange, renderer \in {"color_text40", "dhgr_fb"}, NEW col \in Nat
  PROVE  InPlace([k \in 1 .. 7 |-> <<Bit("main", col, k - 1), <<"aux", address + col>>>>],
                 7 * col)
<1> DEFINE s == [k \in 1 .. 7 |-> <<Bit("main", col, k - 1), <<"aux", address + col>>>>]
<1>1. \A k \in 1 .. 7 : <<Bit("main", col, k - 1), <<"aux", address + col>>>> \in Dots
  BY BitOK, DotOK, AddressOK
<1>2. Piece(s, 7)
  BY <1>1 DEF Piece
<1>3. ASSUME NEW k \in Nat, k < 7
      PROVE  s[k + 1] = Content(7 * col + k)
  <2> DEFINE x == 7 * col + k
  <2>1. x \div 7 = col /\ x % 7 = k
    BY <1>3, Split
  <2> HIDE DEF x
  <2>2. Content(x) = <<<<"main", LineAddress + col, k>>, <<"aux", LineAddress + col>>>>
    BY <2>1 DEF Content
  <2>3. (k + 1) - 1 = k /\ k + 1 \in 1 .. 7
    BY <1>3
  <2>4. s[k + 1] = <<Bit("main", col, k), <<"aux", address + col>>>>
    BY <2>3
  <2>5. Bit("main", col, k) = <<"main", LineAddress + col, k>> /\ address = LineAddress
    BY BitIs, AddressIs
  <2> HIDE DEF s
  <2> QED
    BY <2>2, <2>4, <2>5 DEF x
<1> HIDE DEF s
<1>4. InPlace(s, 7 * col)
  BY <1>2, <1>3, PieceInPlace
<1> QED
  BY <1>4 DEF s

\* The cells of lores and dgr, in color.
LEMMA LoresColumn ==
  ASSUME RowOK, LineRange, renderer = "lores", NEW col \in Nat
  PROVE  InPlace(Times(14, Color("main", col, nibble)), 14 * col)
<1> DEFINE c == [k \in 1 .. 4 |-> <<"main", LineAddress + col, nibble + k - 1>>]
           s == Times(14, Color("main", col, nibble))
<1>1. Color("main", col, nibble) = c
  BY BitIs DEF Color
<1>2. Piece(s, 14)
  BY ColorOK, TimesOK DEF Piece
<1>3. ASSUME NEW k \in Nat, k < 14
      PROVE  s[k + 1] = Content(14 * col + k)
  <2> DEFINE x == 14 * col + k
  <2>1. x \div 14 = col
    BY <1>3, Split
  <2> HIDE DEF x
  <2>2. Content(x) = c
    BY <2>1 DEF Content
  <2> HIDE DEF c
  <2>3. k + 1 \in 1 .. 14
    BY <1>3
  <2>4. s[k + 1] = c
    BY <1>1, <2>3 DEF Times
  <2> QED
    BY <2>2, <2>4 DEF x
<1> HIDE DEF s
<1>4. InPlace(s, 14 * col)
  BY <1>2, <1>3, PieceInPlace
<1> QED
  BY <1>4 DEF s

LEMMA DgrColumn ==
  ASSUME RowOK, LineRange, renderer = "dgr", NEW col \in Nat
  PROVE  InPlace(Times(7, Color("aux", col, nibble))
                   \o Times(7, dlores_dhgr_map(Color("main", col, nibble))), 14 * col)
<1> DEFINE c == [k \in 1 .. 4 |-> <<"aux", LineAddress + col, nibble + (k - 1)>>]
           d == [k \in 1 .. 4 |-> <<"main", LineAddress + col, nibble + (k % 4)>>]
           s == Times(7, Color("aux", col, nibble))
           t == Times(7, dlores_dhgr_map(Color("main", col, nibble)))
<1>1. Color("aux", col, nibble) = c
  <2>1. \A k \in 1 .. 4 : nibble + k - 1 = nibble + (k - 1)
    BY DEF RowOK
  <2> QED
    BY <2>1, BitIs DEF Color
<1>2. dlores_dhgr_map(Color("main", col, nibble)) = d
  <2> DEFINE e == Color("main", col, nibble)
  <2>1. \A k \in 1 .. 4 : e[k] = <<"main", LineAddress + col, nibble + k - 1>>
    BY BitIs DEF Color
  <2> HIDE DEF e
  <2>2. \A k \in 1 .. 4 : 1 + (k % 4) \in 1 .. 4 /\ nibble + (1 + (k % 4)) - 1 = nibble + (k % 4)
    BY DEF RowOK
  <2>3. \A k \in 1 .. 4 : e[1 + (k % 4)] = <<"main", LineAddress + col, nibble + (k % 4)>>
    BY <2>1, <2>2
  <2>4. dlores_dhgr_map(e) = d
    BY <2>3 DEF dlores_dhgr_map
  <2> QED
    BY <2>4 DEF e
<1>3. Piece(s, 7) /\ Piece(t, 7)
  BY ColorOK, TimesOK DEF Piece
<1>4. ASSUME NEW k \in 0 .. 6
      PROVE  /\ s[k + 1] = Content(14 * col + k)
             /\ t[k + 1] = Content(14 * col + 7 + k)
  <2> DEFINE x == 14 * col + k
             y == 14 * col + 7 + k
  <2>1. /\ x \div 14 = col /\ BankOf(x) = "aux"
        /\ y \div 14 = col /\ BankOf(y) = "main"
    BY Banks
  <2> HIDE DEF x, y
  <2>2. Content(x) = CellColor(x) /\ Content(y) = CellColor(y)
    BY DEF Content
  <2>3. CellColor(x) = c /\ CellColor(y) = d
    BY <2>1 DEF CellColor
  <2> HIDE DEF c, d
  <2>4. k + 1 \in 1 .. 7
    OBVIOUS
  <2>5. s[k + 1] = c /\ t[k + 1] = d
    BY <1>1, <1>2, <2>4 DEF Times
  <2> QED
    BY <2>2, <2>3, <2>5 DEF x, y
<1> HIDE DEF s, t
<1>5. InPlace(s \o t, 14 * col)
  BY <1>3, <1>4, HalvesInPlace
<1> QED
  BY <1>5 DEF s, t

\* The cells, dot by dot.
LEMMA LoresMonoColumn ==
  ASSUME RowOK, LineRange, renderer = "lores_mono", NEW col \in 0 .. Cols - 1
  PROVE  InPlace(lores_dot_pattern(col), 14 * col)
<1> DEFINE s == lores_dot_pattern(col)
<1>0. col \in Nat
  OBVIOUS
<1>1. Piece(s, 14)
  <2>1. \A k \in 1 .. 14 : {Bit("main", col, nibble + ((k - 1) % 4))} \in Dots
    BY <1>0, BitOK, DotOK DEF RowOK
  <2> QED
    BY <2>1 DEF lores_dot_pattern, Piece
<1>2. ASSUME NEW k \in Nat, k < 14
      PROVE  s[k + 1] = Content(14 * col + k)
  <2> DEFINE x == 14 * col + k
  <2>1. x \div 14 = col /\ x % 14 = k /\ x \in 0 .. 14 * Cols - 1
    BY <1>0, <1>2, Split, Inside
  <2> HIDE DEF x
  <2>2. Content(x) = Dot(x)
    BY DEF Content
  <2>3. Dot(x) = MemoryBit("main", col, nibble + (k % 4))
    BY <2>1, DotIs
  <2>4. k + 1 \in 1 .. 14 /\ (k + 1) - 1 = k
    BY <1>2
  <2>5. s[k + 1] = {Bit("main", col, nibble + (k % 4))}
    BY <2>4 DEF lores_dot_pattern
  <2> QED
    BY <2>2, <2>3, <2>5, BitIs DEF x
<1> HIDE DEF s
<1>3. InPlace(s, 14 * col)
  BY <1>0, <1>1, <1>2, PieceInPlace
<1> QED
  BY <1>3 DEF s

\* The phase of the color goes on from cell to cell.
LEMMA DgrPhase ==
  ASSUME NEW col \in Nat, NEW k \in 0 .. 6
  PROVE  /\ (14 * col + k) % 4 = (k + 2 * (col % 2)) % 4
         /\ (14 * col + 7 + k + 1) % 4 = (k + 2 * (col % 2)) % 4
<1>1. PICK h \in Nat : col = 2 * h + (col % 2) /\ col % 2 \in {0, 1}
  <2>1. col = 2 * (col \div 2) + (col % 2) /\ col \div 2 \in Nat /\ col % 2 \in {0, 1}
    OBVIOUS
  <2> QED
    BY <2>1
<1> DEFINE b == col % 2
<1> HIDE DEF b
<1>2. /\ 14 * col + k = 4 * (7 * h + 3 * b) + (k + 2 * b)
      /\ 14 * col + 7 + k + 1 = 4 * (7 * h + 3 * b + 2) + (k + 2 * b)
      /\ b \in {0, 1}
  BY <1>1 DEF b
<1>3. ASSUME NEW m \in Nat, NEW n \in Nat
      PROVE  (4 * m + n) % 4 = n % 4
  OBVIOUS
<1>4. /\ 7 * h + 3 * b \in Nat /\ 7 * h + 3 * b + 2 \in Nat /\ k + 2 * b \in Nat
  BY <1>2
<1>5. /\ (4 * (7 * h + 3 * b) + (k + 2 * b)) % 4 = (k + 2 * b) % 4
      /\ (4 * (7 * h + 3 * b + 2) + (k + 2 * b)) % 4 = (k + 2 * b) % 4
  BY <1>3, <1>4
<1> QED
  BY <1>2, <1>5 DEF b

LEMMA DgrMonoColumn ==
  ASSUME RowOK, LineRange, renderer \in {"dgr_mono", "dgr_interp"}, NEW col \in 0 .. Cols - 1
  PROVE  InPlace(dgr_dot_pattern("aux", col) \o dgr_dot_pattern("main", col), 14 * col)
<1> DEFINE s == dgr_dot_pattern("aux", col)
           t == dgr_dot_pattern("main", col)
<1>0. col \in Nat
  OBVIOUS
<1>1. ASSUME NEW bank \in {"aux", "main"} PROVE Piece(dgr_dot_pattern(bank, col), 7)
  <2>1. \A k \in 1 .. 7 : {Bit(bank, col, nibble + ((k - 1 + 2 * (col % 2)) % 4))} \in Dots
    BY <1>0, BitOK, DotOK DEF RowOK
  <2> QED
    BY <2>1 DEF dgr_dot_pattern, Piece
<1>2. ASSUME NEW k \in 0 .. 6
      PROVE  /\ s[k + 1] = Content(14 * col + k)
             /\ t[k + 1] = Content(14 * col + 7 + k)
  <2> DEFINE x == 14 * col + k
             y == 14 * col + 7 + k
             f == (k + 2 * (col % 2)) % 4
  <2>0. /\ x \div 14 = col /\ BankOf(x) = "aux" /\ x % 14 = k
        /\ y \div 14 = col /\ BankOf(y) = "main" /\ y % 14 = 7 + k
    BY <1>0, Banks
  <2>2. x % 4 = f /\ (y + 1) % 4 = f
    BY <1>0, DgrPhase
  <2>3. x \in 0 .. 14 * Cols - 1 /\ y \in 0 .. 14 * Cols - 1
    BY Inside, ScanlineAssumption
  <2> HIDE DEF x, y
  <2>1. x % 14 < 7 /\ ~ (y % 14 < 7)
    BY <2>0
  <2>4. Content(x) = Dot(x) /\ Content(y) = Dot(y)
    BY DEF Content
  <2>d. \A d \in 0 .. 14 * Cols - 1 :
          Dot(d) = MemoryBit(BankOf(d), d \div 14,
                             nibble + (IF d % 14 < 7 THEN d % 4 ELSE (d + 1) % 4))
    <3> TAKE d \in 0 .. 14 * Cols - 1
    <3>1. d \in Int
      OBVIOUS
    <3> QED
      BY <3>1, DotIs, Zenon
  <2>5. /\ Dot(x) = MemoryBit("aux", col, nibble + f)
        /\ Dot(y) = MemoryBit("main", col, nibble + f)
    BY <2>0, <2>1, <2>2, <2>3, <2>d
  <2>6. k + 1 \in 1 .. 7 /\ (k + 1) - 1 = k
    OBVIOUS
  <2>7. /\ s[k + 1] = {Bit("aux", col, nibble + f)}
        /\ t[k + 1] = {Bit("main", col, nibble + f)}
    BY <2>6 DEF dgr_dot_pattern
  <2> HIDE DEF f
  <2> QED
    BY <2>4, <2>5, <2>7, BitIs, SMTT(30) DEF x, y
<1>3. Piece(s, 7) /\ Piece(t, 7)
  BY <1>1
<1> HIDE DEF s, t
<1>4. InPlace(s \o t, 14 * col)
  BY <1>0, <1>2, <1>3, HalvesInPlace
<1> QED
  BY <1>4 DEF s, t

\* The renderer of 160 pixels shows all eight bits of a byte.
LEMMA Dhgr160Column ==
  ASSUME RowOK, LineRange, renderer = "dhgr_160", NEW col \in Nat
  PROVE  InPlace([k \in 1 .. 16 |-> IF k <= 8 THEN {Bit("aux", col, k - 1)}
                                              ELSE {Bit("main", col, k - 9)}], 16 * col)
<1> DEFINE s == [k \in 1 .. 16 |-> IF k <= 8 THEN {Bit("aux", col, k - 1)}
                                             ELSE {Bit("main", col, k - 9)}]
<1>1. ASSUME NEW k \in 1 .. 16
      PROVE  (IF k <= 8 THEN {Bit("aux", col, k - 1)} ELSE {Bit("main", col, k - 9)}) \in Dots
  BY BitOK, DotOK
<1>2. Piece(s, 16)
  BY <1>1 DEF Piece
<1>3. ASSUME NEW k \in Nat, k < 16
      PROVE  s[k + 1] = Content(16 * col + k)
  <2> DEFINE x == 16 * col + k
  <2>1. x \div 16 = col /\ x % 16 = k /\ x % 8 = k % 8
    BY <1>3, Split
  <2> HIDE DEF x
  <2>2. Content(x) = MemoryBit(IF k < 8 THEN "aux" ELSE "main", col, k % 8)
    BY <2>1 DEF Content
  <2>3. k + 1 \in 1 .. 16 /\ (k + 1 <= 8 <=> k < 8) /\ (k + 1) - 1 = k /\ (k + 1) - 9 = k - 8
        /\ (k < 8 => k % 8 = k) /\ (~ (k < 8) => k % 8 = k - 8)
    BY <1>3
  <2>4. s[k + 1] = IF k < 8 THEN {Bit("aux", col, k)} ELSE {Bit("main", col, k - 8)}
    BY <2>3
  <2> HIDE DEF s
  <2>5. CASE k < 8
    BY <2>2, <2>3, <2>4, <2>5, BitIs DEF x
  <2>6. CASE ~ (k < 8)
    BY <2>2, <2>3, <2>4, <2>6, BitIs DEF x
  <2> QED
    BY <2>5, <2>6
<1> HIDE DEF s
<1>4. InPlace(s, 16 * col)
  BY <1>2, <1>3, PieceInPlace
<1> QED
  BY <1>4 DEF s

\* The half dots of hires.
LEMMA HalfDots ==
  ASSUME RowOK, LineRange, NEW col \in Nat, NEW k \in 0 .. 13
  PROVE  Doubled(col)[k + 1] = HalfDot(14 * col + k)
<1> DEFINE x == 14 * col + k
<1>1. x \div 14 = col /\ x % 14 = k
  BY Split
<1> HIDE DEF x
<1>2. HalfDot(x) = MemoryBit("main", col, k \div 2)
  BY <1>1 DEF HalfDot
<1>3. k + 1 \in 1 .. 14 /\ (k + 1) - 1 = k
  OBVIOUS
<1>4. Doubled(col)[k + 1] = {Bit("main", col, k \div 2)}
  BY <1>3 DEF Doubled
<1> QED
  BY <1>2, <1>4, BitIs DEF x

LEMMA ShiftedDots ==
  ASSUME RowOK, LineRange, NEW col \in Nat, NEW y \in Dots
  PROVE  LET s == <<y>> \o SubSeq(Doubled(col), 1, 13)
         IN  /\ Piece(s, 14) /\ s[1] = y
             /\ \A k \in 1 .. 13 : s[k + 1] = HalfDot(14 * col + (k - 1))
<1> DEFINE d == Doubled(col)
           t == SubSeq(d, 1, 13)
           s == <<y>> \o t
<1>1. d \in Seq(Dots) /\ Len(d) = 14
  BY DoubledOK
<1>2. \A k \in 1 .. 13 : d[k] = HalfDot(14 * col + (k - 1))
  <2> TAKE k \in 1 .. 13
  <2>1. k - 1 \in 0 .. 13 /\ (k - 1) + 1 = k
    OBVIOUS
  <2>2. d[(k - 1) + 1] = HalfDot(14 * col + (k - 1))
    BY <2>1, HalfDots
  <2> QED
    BY <2>1, <2>2
<1> HIDE DEF d
<1>3. \A k \in 1 .. 13 : d[k] \in Dots
  <2> TAKE k \in 1 .. 13
  <2>1. k \in 1 .. Len(d)
    BY <1>1
  <2> QED
    BY <1>1, <2>1, ElementOfSeq
<1>4. /\ t \in Seq(Dots) /\ Len(t) = 13
      /\ \A k \in 1 .. 13 : t[k] = d[k]
  BY <1>3, SubSeqProperties
<1> HIDE DEF t
<1>5. Piece(<<y>>, 1) /\ Piece(t, 13) /\ <<y>>[1] = y
  BY <1>4, SingleOK DEF Piece
<1>6. Piece(s, 14)
  BY <1>5, Fourteen
<1>7. s[1] = y /\ \A k \in 1 .. 13 : s[k + 1] = t[k]
  <2> DEFINE u == <<y>>
  <2>1. u \in Seq(Dots) /\ Len(u) = 1 /\ t \in Seq(Dots) /\ Len(t) = 13 /\ u[1] = y
    BY <1>4, SingleOK
  <2> HIDE DEF u
  <2> DEFINE v == u \o t
  <2>a. \A m \in 1 .. Len(u) + Len(t) : v[m] = IF m <= Len(u) THEN u[m] ELSE t[m - Len(u)]
    BY <2>1, ConcatProperties
  <2> HIDE DEF v
  <2>2. \A m \in 1 .. 14 : v[m] = IF m <= 1 THEN u[m] ELSE t[m - 1]
    BY <2>1, <2>a, SMTT(30)
  <2>3. \A k \in 1 .. 13 : k + 1 \in 1 .. 14 /\ ~ (k + 1 <= 1) /\ (k + 1) - 1 = k
    OBVIOUS
  <2>4. v[1] = y /\ \A k \in 1 .. 13 : v[k + 1] = t[k]
    BY <2>1, <2>2, <2>3
  <2> QED
    BY <2>4 DEF u, v
<1> HIDE DEF s
<1>8. Piece(s, 14) /\ s[1] = y /\ \A k \in 1 .. 13 : s[k + 1] = HalfDot(14 * col + (k - 1))
  BY <1>2, <1>4, <1>6, <1>7
<1> QED
  BY <1>8 DEF s, t, d

LEMMA DelayedIs ==
  ASSUME NEW col \in Nat, NEW k \in 0 .. 13
  PROVE  DelayedDot(14 * col + k) =
           IF ~ Delayed(col) THEN HalfDot(14 * col + k)
           ELSE IF k = 0 THEN Black ELSE HalfDot(14 * col + (k - 1))
<1> DEFINE x == 14 * col + k
<1>1. x \div 14 = col /\ x % 14 = k /\ x - 1 = 14 * col + (k - 1)
  BY Split
<1> HIDE DEF x
<1>2. DelayedDot(x) = IF ~ Delayed(col) THEN HalfDot(x)
                      ELSE IF k = 0 THEN Black ELSE HalfDot(14 * col + (k - 1))
  BY <1>1 DEF DelayedDot
<1> QED
  BY <1>2 DEF x

\* What the color renderer shows of a column, and behind the last one.
LEMMA ColorIs ==
  ASSUME NEW col \in 0 .. Cols - 1, NEW k \in 0 .. 13
  PROVE  ColorHiresDot(14 * col + k) =
           IF k = 0 /\ col > 0 /\ Delayed(col) THEN ColorHiresDot(14 * col - 1)
           ELSE DelayedDot(14 * col + k)
<1> DEFINE x == 14 * col + k
<1>0. col \in Nat
  OBVIOUS
<1>1. /\ x \div 14 = col /\ x % 14 = k /\ x \in Nat
      /\ ~ (x < 0 \/ x >= 14 * Cols) /\ (x > 0 /\ k = 0 => col > 0) /\ (col > 0 => x > 0)
  <2>1. x \div 14 = col /\ x % 14 = k
    BY <1>0, Split
  <2>2. x \in 0 .. 14 * Cols - 1
    BY Inside
  <2>3. (x > 0 /\ k = 0 => col > 0) /\ (col > 0 => x > 0)
    BY <1>0
  <2> HIDE DEF x
  <2> QED
    BY <2>1, <2>2, <2>3, ScanlineAssumption
<1>2. CASE ~ (k = 0 /\ col > 0 /\ Delayed(col))
  <2> HIDE DEF x
  <2>1. ColorHiresDot(x) = DelayedDot(x)
    BY <1>1, <1>2 DEF ColorHiresDot
  <2> QED
    BY <1>2, <2>1 DEF x
<1>3. CASE k = 0 /\ col > 0 /\ Delayed(col)
  <2> DEFINE y == 14 * (col - 1) + 13
  <2>1. x - 1 = y /\ x - 2 = y - 1 /\ y = 14 * col - 1 /\ y \in Nat /\ y < 14 * Cols
    BY <1>0, <1>3, ScanlineAssumption
  <2>2. col - 1 \in Nat /\ 13 \in Nat /\ 13 < 14
    BY <1>3
  <2>3. y \div 14 = col - 1 /\ y % 14 = 13
    BY <2>2, Split
  <2> HIDE DEF x, y
  <2>4. ColorHiresDot(x) = IF Delayed(col - 1) THEN HalfDot(y - 1) ELSE HalfDot(y)
    BY <1>1, <1>3, <2>1, <2>3 DEF ColorHiresDot
  <2>5. ColorHiresDot(y) = DelayedDot(y)
    BY <2>1, <2>3, ScanlineAssumption DEF ColorHiresDot
  <2>6. DelayedDot(y) = IF ~ Delayed(col - 1) THEN HalfDot(y) ELSE HalfDot(y - 1)
    BY <2>3 DEF DelayedDot
  <2>7. ColorHiresDot(x) = ColorHiresDot(14 * col - 1)
    BY <2>1, <2>4, <2>5, <2>6
  <2> QED
    BY <1>3, <2>7 DEF x
<1> QED
  BY <1>2, <1>3

LEMMA HiresColumnInPlace ==
  ASSUME RowOK, LineRange, renderer = "hires", NEW col \in 1 .. Cols, dots \in Seq(Dots),
         Len(dots) > 0, dots[Len(dots)] = ColorHiresDot(14 * col - 1)
  PROVE  InPlace(HiresColumn(col), 3 + 14 * col)
<1> DEFINE s == HiresColumn(col)
<1>0. col \in Nat
  OBVIOUS
<1>1. Piece(s, 14)
  BY <1>0, HiresColumnOK DEF Piece
<1>2. ASSUME NEW k \in Nat, k < 14
      PROVE  s[k + 1] = ColorHiresDot(14 * col + k)
  <2>1. CASE col = Cols
    <3>1. s = Times(14, Black)
      BY <2>1 DEF HiresColumn
    <3>2. s[k + 1] = Black
      BY <1>2, <3>1, SMTT(30) DEF Times
    <3>3. ~ (14 * col + k < 0) /\ 14 * col + k >= 14 * Cols
      BY <1>0, <1>2, <2>1
    <3> QED
      BY <3>2, <3>3 DEF ColorHiresDot
  <2>2. CASE col # Cols /\ ~ Delayed(col)
    <3>1. s = Doubled(col)
      BY <2>2 DEF HiresColumn, Delayed, IsHigh
    <3>3. col \in 0 .. Cols - 1 /\ k \in 0 .. 13
      BY <1>2, <2>2, ScanlineAssumption
    <3>2. s[k + 1] = HalfDot(14 * col + k)
      <4>1. Doubled(col)[k + 1] = HalfDot(14 * col + k)
        BY <1>0, <3>3, HalfDots
      <4> HIDE DEF s
      <4> QED
        BY <3>1, <4>1
    <3>4. ColorHiresDot(14 * col + k) = DelayedDot(14 * col + k)
      BY <2>2, <3>3, ColorIs
    <3>5. DelayedDot(14 * col + k) = HalfDot(14 * col + k)
      BY <1>0, <2>2, <3>3, DelayedIs
    <3> QED
      BY <3>2, <3>4, <3>5
  <2>3. CASE col # Cols /\ Delayed(col)
    <3> DEFINE y == dots[Len(dots)]
    <3>1. y \in Dots
      BY ElementOfSeq
    <3>2. s = <<y>> \o SubSeq(Doubled(col), 1, 13)
      BY <2>3, Zenon DEF HiresColumn, Delayed, IsHigh, y
    <3> HIDE DEF y
    <3>3. s[1] = y /\ \A j \in 1 .. 13 : s[j + 1] = HalfDot(14 * col + (j - 1))
      BY <1>0, <3>1, <3>2, ShiftedDots
    <3>4. col \in 0 .. Cols - 1 /\ k \in 0 .. 13
      BY <1>2, <2>3, ScanlineAssumption
    <3>5. CASE k = 0
      <4>1. ColorHiresDot(14 * col + k) = ColorHiresDot(14 * col - 1)
        BY <2>3, <3>4, <3>5, ColorIs
      <4>2. s[k + 1] = y
        BY <3>3, <3>5
      <4> QED
        BY <4>1, <4>2 DEF y
    <3>6. CASE k # 0
      <4>1. ColorHiresDot(14 * col + k) = DelayedDot(14 * col + k)
        BY <3>4, <3>6, ColorIs
      <4>2. DelayedDot(14 * col + k) = HalfDot(14 * col + (k - 1))
        BY <1>0, <2>3, <3>4, <3>6, DelayedIs
      <4>3. k \in 1 .. 13
        BY <3>4, <3>6
      <4>4. \A j \in 1 .. 13 : s[j + 1] = HalfDot(14 * col + (j - 1))
        BY <3>3
      <4> HIDE DEF s
      <4>5. s[k + 1] = HalfDot(14 * col + (k - 1))
        BY <4>3, <4>4
      <4> QED
        BY <4>1, <4>2, <4>5
    <3> QED
      BY <3>5, <3>6
  <2> QED
    BY <2>1, <2>2, <2>3
<1>3. ASSUME NEW k \in Nat, k < 14
      PROVE  s[k + 1] = Content((3 + 14 * col) + k)
  <2>1. ((3 + 14 * col) + k) - 3 = 14 * col + k
    BY <1>0
  <2>2. Content((3 + 14 * col) + k) = ColorHiresDot(((3 + 14 * col) + k) - 3)
    BY DEF Content
  <2> QED
    BY <1>2, <1>3, <2>1, <2>2
<1> HIDE DEF s
<1>4. 3 + 14 * col \in Int
  BY <1>0
<1>5. InPlace(s, 3 + 14 * col)
  BY <1>1, <1>3, <1>4, PieceInPlace
<1> QED
  BY <1>5 DEF s

\* The monochrome renderer adds what was delayed out of the byte before.
LEMMA MonoIs ==
  ASSUME NEW col \in Nat, NEW k \in 0 .. 13
  PROVE  MonoHiresDot(14 * col + k) =
           DelayedDot(14 * col + k)
             \cup (IF k = 0 /\ col > 0 /\ Delayed(col - 1) THEN HalfDot(14 * col - 1)
                   ELSE Black)
<1> DEFINE x == 14 * col + k
<1>1. x \div 14 = col /\ x % 14 = k
  BY Split
<1>2. CASE k = 0 /\ col > 0
  <2> DEFINE y == 14 * (col - 1) + 13
  <2>1. x - 1 = y /\ y = 14 * col - 1 /\ x > 0
    BY <1>2
  <2>2. col - 1 \in Nat /\ 13 \in Nat /\ 13 < 14
    BY <1>2
  <2>3. y \div 14 = col - 1
    BY <2>2, Split
  <2> HIDE DEF x, y
  <2>4. MonoHiresDot(x) =
          DelayedDot(x) \cup (IF Delayed(col - 1) THEN HalfDot(y) ELSE Black)
    BY <1>1, <1>2, <2>1, <2>3 DEF MonoHiresDot
  <2> QED
    BY <1>2, <2>1, <2>4 DEF x
<1>3. CASE ~ (k = 0 /\ col > 0)
  <2>1. ~ (x > 0 /\ x % 14 = 0)
    BY <1>1, <1>3
  <2> HIDE DEF x
  <2>2. MonoHiresDot(x) = DelayedDot(x) \cup Black
    BY <2>1 DEF MonoHiresDot
  <2> QED
    BY <1>3, <2>2 DEF x
<1> QED
  BY <1>2, <1>3

LEMMA MonoHiresColumnInPlace ==
  ASSUME RowOK, LineRange, Carried, renderer = "hires_mono", i \in 0 .. Cols - 1
  PROVE  InPlace(MonoHiresColumn(i), 14 * i)
<1> DEFINE s == MonoHiresColumn(i)
           d == Doubled(i)
           m(k) == MonoHiresDot(14 * i + k)
<1>0. i \in Nat
  OBVIOUS
<1>1. Piece(s, 14)
  BY <1>0, MonoHiresColumnOK DEF Piece
<1>2. /\ lastmsb = Black
      /\ spill = IF i > 0 /\ Delayed(i - 1) THEN HalfDot(14 * i - 1) ELSE Black
  BY DEF Carried
<1>3. spill \in SUBSET Cell /\ Black \cup spill = spill
  BY DEF RowOK, Black
<1>4. d \in Seq(Dots) /\ Len(d) = 14 /\ DOMAIN d = 1 .. 14
  <2>1. d \in Seq(Dots) /\ Len(d) = 14
    BY <1>0, DoubledOK
  <2> QED
    BY <2>1, LenProperties
<1>5. \A k \in 0 .. 13 : d[k + 1] = HalfDot(14 * i + k)
  BY <1>0, HalfDots
<1>6. ASSUME NEW k \in 0 .. 13
      PROVE  m(k) = IF k = 0 THEN DelayedDot(14 * i + k) \cup spill
                    ELSE DelayedDot(14 * i + k)
  <2>1. CASE k = 0
    BY <1>0, <1>2, <2>1, MonoIs
  <2>2. CASE k # 0
    <3>1. m(k) = DelayedDot(14 * i + k) \cup Black
      BY <1>0, <2>2, MonoIs
    <3> QED
      BY <2>2, <3>1 DEF Black
  <2> QED
    BY <2>1, <2>2
<1>7. ASSUME NEW k \in 0 .. 13
      PROVE  DelayedDot(14 * i + k) =
               IF ~ Delayed(i) THEN HalfDot(14 * i + k)
               ELSE IF k = 0 THEN Black ELSE HalfDot(14 * i + (k - 1))
  BY <1>0, DelayedIs
<1> HIDE DEF s, d, m
<1>8. ASSUME NEW k \in Nat, k < 14
      PROVE  s[k + 1] = m(k)
  <2>0. k \in 0 .. 13
    BY <1>8
  <2>1. CASE ~ Delayed(i)
    <3>1. s = [d EXCEPT ![1] = d[1] \cup spill]
      BY <2>1, Zenon DEF MonoHiresColumn, Delayed, IsHigh, s, d
    <3>2. CASE k = 0
      <4>1. s[1] = d[1] \cup spill /\ k + 1 = 1
        BY <1>4, <3>1, <3>2
      <4>2. d[k + 1] = HalfDot(14 * i + k)
        BY <1>5, <2>0
      <4>3. DelayedDot(14 * i + k) = HalfDot(14 * i + k)
        BY <1>7, <2>0, <2>1
      <4>4. m(k) = DelayedDot(14 * i + k) \cup spill
        BY <1>6, <2>0, <3>2, Zenon
      <4>5. s[k + 1] = d[k + 1] \cup spill
        BY <4>1, Zenon
      <4> QED
        BY <4>2, <4>3, <4>4, <4>5, Zenon
    <3>3. CASE k # 0
      <4>0. k + 1 \in 1 .. 14 /\ k + 1 # 1
        BY <2>0, <3>3
      <4>3. s[k + 1] = d[k + 1]
        BY <1>4, <3>1, <4>0
      <4>1. s[k + 1] = d[k + 1] /\ d[k + 1] = HalfDot(14 * i + k)
        BY <1>5, <2>0, <4>3
      <4>2. m(k) = HalfDot(14 * i + k)
        BY <1>6, <1>7, <2>0, <2>1, <3>3, Zenon
      <4> QED
        BY <4>1, <4>2
    <3> QED
      BY <3>2, <3>3
  <2>2. CASE Delayed(i)
    <3>1. s = <<spill>> \o SubSeq(Doubled(i), 1, 13)
      <4>1. s = <<lastmsb \cup spill>> \o SubSeq(Doubled(i), 1, 13)
        BY <2>2, Zenon DEF MonoHiresColumn, Delayed, IsHigh, s
      <4> QED
        BY <1>2, <1>3, <4>1, Zenon
    <3>2. spill \in Dots
      BY <1>3, DotOK
    <3>3. s[1] = spill /\ \A j \in 1 .. 13 : s[j + 1] = HalfDot(14 * i + (j - 1))
      BY <1>0, <3>1, <3>2, ShiftedDots
    <3>4. CASE k = 0
      <4>1. DelayedDot(14 * i + k) = Black
        BY <1>7, <2>0, <2>2, <3>4
      <4>2. m(k) = DelayedDot(14 * i + k) \cup spill
        BY <1>6, <2>0, <3>4, Zenon
      <4>3. k + 1 = 1
        BY <3>4
      <4> QED
        BY <1>3, <3>3, <4>1, <4>2, <4>3
    <3>5. CASE k # 0
      <4>1. k \in 1 .. 13
        BY <2>0, <3>5
      <4>2. s[k + 1] = HalfDot(14 * i + (k - 1))
        BY <3>3, <4>1
      <4>3. m(k) = HalfDot(14 * i + (k - 1))
        BY <1>6, <1>7, <2>0, <2>2, <3>5
      <4> QED
        BY <4>2, <4>3
    <3> QED
      BY <3>4, <3>5
  <2> QED
    BY <2>1, <2>2
<1>9. ASSUME NEW k \in Nat, k < 14
      PROVE  s[k + 1] = Content(14 * i + k)
  <2> DEFINE x == 14 * i + k
  <2>0. x \in 0 .. 14 * Cols - 1
    <3>1. k \in 0 .. 13
      BY <1>9
    <3> QED
      BY <3>1, Inside
  <2>1. s[k + 1] = MonoHiresDot(x)
    BY <1>8, <1>9 DEF m
  <2> HIDE DEF x
  <2>2. Content(x) = Dot(x)
    BY DEF Content
  <2>3. Dot(x) = MonoHiresDot(x)
    BY <2>0, DotIs
  <2> QED
    BY <2>1, <2>2, <2>3 DEF x
<1>10. InPlace(s, 14 * i)
  BY <1>0, <1>1, <1>9, PieceInPlace
<1> QED
  BY <1>10 DEF s

\* Whatever the renderer, the column goes to where it belongs.
LEMMA ColumnInPlace ==
  ASSUME RowOK, LineRange, Carried, dots \in Seq(Dots),
         NEW col \in Nat, col < LastOf(renderer),
         renderer = "hires" => /\ col > 0 /\ Len(dots) > 0
                               /\ dots[Len(dots)] = ColorHiresDot(14 * col - 1),
         renderer = "hires_mono" => col = i
  PROVE  InPlace(ColumnDots(col), Ahead(renderer) + Rate(renderer) * col)
<1> DEFINE p == Ahead(renderer) + Rate(renderer) * col
<1>0. renderer # "hires" => col \in 0 .. Cols - 1
  BY ScanlineAssumption DEF LastOf
<1>1. CASE renderer = "text40"
  <2>1. ColumnDots(col) = Byte("main", col)
    BY <1>1, Zenon DEF ColumnDots
  <2>2. p = 7 * col
    BY <1>1 DEF Ahead, Rate, OneDotWords
  <2> QED
    BY <1>1, <2>1, <2>2, TextColumn
<1>2. CASE renderer \in {"color_text40", "dhgr_fb"}
  <2>1. ColumnDots(col) =
          [k \in 1 .. 7 |-> <<Bit("main", col, k - 1), <<"aux", address + col>>>>]
    BY <1>2, Zenon DEF ColumnDots
  <2>2. p = 7 * col
    BY <1>2 DEF Ahead, Rate, OneDotWords
  <2>3. InPlace([k \in 1 .. 7 |-> <<Bit("main", col, k - 1), <<"aux", address + col>>>>],
                7 * col)
    BY <1>2, AttributeColumn
  <2> QED
    BY <2>1, <2>2, <2>3, Zenon
<1>3. CASE renderer = "lores"
  <2>1. ColumnDots(col) = Times(14, Color("main", col, nibble))
    BY <1>3, Zenon DEF ColumnDots
  <2>2. p = 14 * col
    BY <1>3 DEF Ahead, Rate, OneDotWords
  <2> QED
    BY <1>3, <2>1, <2>2, LoresColumn
<1>4. CASE renderer = "lores_mono"
  <2>1. ColumnDots(col) = lores_dot_pattern(col)
    BY <1>4, Zenon DEF ColumnDots
  <2>2. p = 14 * col
    BY <1>4 DEF Ahead, Rate, OneDotWords
  <2> QED
    BY <1>0, <1>4, <2>1, <2>2, LoresMonoColumn
<1>5. CASE renderer = "dgr"
  <2>1. ColumnDots(col) = Times(7, Color("aux", col, nibble))
                            \o Times(7, dlores_dhgr_map(Color("main", col, nibble)))
    BY <1>5, Zenon DEF ColumnDots
  <2>2. p = 14 * col
    BY <1>5 DEF Ahead, Rate, OneDotWords
  <2>3. InPlace(Times(7, Color("aux", col, nibble))
                  \o Times(7, dlores_dhgr_map(Color("main", col, nibble))), 14 * col)
    BY <1>5, DgrColumn
  <2> QED
    BY <2>1, <2>2, <2>3, Zenon
<1>6. CASE renderer \in {"dgr_mono", "dgr_interp"}
  <2>1. ColumnDots(col) = dgr_dot_pattern("aux", col) \o dgr_dot_pattern("main", col)
    BY <1>6, Zenon DEF ColumnDots
  <2>2. p = 14 * col
    BY <1>6 DEF Ahead, Rate, OneDotWords
  <2>3. InPlace(dgr_dot_pattern("aux", col) \o dgr_dot_pattern("main", col), 14 * col)
    BY <1>0, <1>6, DgrMonoColumn
  <2> QED
    BY <2>1, <2>2, <2>3, Zenon
<1>7. CASE renderer = "hires"
  <2>1. ColumnDots(col) = HiresColumn(col)
    BY <1>7, Zenon DEF ColumnDots
  <2>2. p = 3 + 14 * col
    BY <1>7 DEF Ahead, Rate, OneDotWords
  <2>3. col \in 1 .. Cols
    BY <1>7, ScanlineAssumption DEF LastOf
  <2>4. InPlace(HiresColumn(col), 3 + 14 * col)
    BY <1>7, <2>3, HiresColumnInPlace
  <2> QED
    BY <2>1, <2>2, <2>4, Zenon
<1>8. CASE renderer = "hires_mono"
  <2>1. ColumnDots(col) = MonoHiresColumn(i)
    BY <1>8, Zenon DEF ColumnDots
  <2>2. p = 14 * i
    BY <1>8 DEF Ahead, Rate, OneDotWords
  <2> QED
    BY <1>0, <1>8, <2>1, <2>2, MonoHiresColumnInPlace
<1>9. CASE renderer = "dhgr_160"
  <2>1. ColumnDots(col) =
          [k \in 1 .. 16 |-> IF k <= 8 THEN {Bit("aux", col, k - 1)}
                                       ELSE {Bit("main", col, k - 9)}]
    BY <1>9, Zenon DEF ColumnDots
  <2>2. p = 16 * col
    BY <1>9 DEF Ahead, Rate, OneDotWords
  <2>3. InPlace([k \in 1 .. 16 |-> IF k <= 8 THEN {Bit("aux", col, k - 1)}
                                       ELSE {Bit("main", col, k - 9)}], 16 * col)
    BY <1>9, Dhgr160Column
  <2> QED
    BY <2>1, <2>2, <2>3, Zenon
<1>10. CASE renderer \in PlainBytes
  <2>1. ColumnDots(col) = Both(col)
    BY <1>10, Zenon DEF ColumnDots, PlainBytes
  <2>2. p = Ahead(renderer) + 14 * col
    BY <1>10 DEF Rate, OneDotWords, PlainBytes
  <2>3. renderer # "hires"
    BY <1>10 DEF PlainBytes
  <2> QED
    BY <1>0, <1>10, <2>1, <2>2, <2>3, PlainColumn
<1> QED
  BY <1>1, <1>2, <1>3, <1>4, <1>5, <1>6, <1>7, <1>8, <1>9, <1>10
     DEF RowOK, Renderers, TextRenderers, LoresRenderers, HiresRenderers, PlainBytes

-----------------------------------------------------------------------------
(* While a row is drawn, what it shows stays.                              *)

LEMMA MemoryStays ==
  ASSUME UNCHANGED row
  PROVE  /\ renderer' = renderer /\ line' = line /\ nibble' = nibble /\ high' = high
         /\ LineAddress' = LineAddress
         /\ \A bank, col, k : MemoryBit(bank, col, k)' = MemoryBit(bank, col, k)
<1>1. renderer' = renderer /\ line' = line /\ nibble' = nibble /\ high' = high
  BY DEF row
<1>2. LineAddress' = LineAddress
  BY <1>1 DEF LineAddress
<1>3. ASSUME NEW bank, NEW col, NEW k
      PROVE  MemoryBit(bank, col, k)' = MemoryBit(bank, col, k)
  BY <1>2 DEF MemoryBit
<1> QED
  BY <1>1, <1>2, <1>3

LEMMA HalfDotStays ==
  ASSUME UNCHANGED row
  PROVE  /\ \A d : HalfDot(d)' = HalfDot(d)
         /\ \A col : Delayed(col)' <=> Delayed(col)
<1>1. ASSUME NEW d PROVE HalfDot(d)' = HalfDot(d)
  BY MemoryStays DEF HalfDot
<1>2. ASSUME NEW col PROVE Delayed(col)' <=> Delayed(col)
  BY MemoryStays DEF Delayed
<1> QED
  BY <1>1, <1>2

LEMMA ColorDotStays ==
  ASSUME UNCHANGED row
  PROVE  /\ \A d : DelayedDot(d)' = DelayedDot(d)
         /\ \A d : MonoHiresDot(d)' = MonoHiresDot(d)
         /\ \A d : ColorHiresDot(d)' = ColorHiresDot(d)
<1>1. ASSUME NEW d PROVE DelayedDot(d)' = DelayedDot(d)
  BY HalfDotStays DEF DelayedDot
<1>2. ASSUME NEW d PROVE MonoHiresDot(d)' = MonoHiresDot(d)
  BY <1>1, HalfDotStays DEF MonoHiresDot
<1>3. ASSUME NEW d PROVE ColorHiresDot(d)' = ColorHiresDot(d)
  BY <1>1, HalfDotStays DEF ColorHiresDot
<1> QED
  BY <1>1, <1>2, <1>3

LEMMA DotStays ==
  ASSUME UNCHANGED row
  PROVE  \A d \in Int : Dot(d)' = Dot(d)
<1> SUFFICES ASSUME NEW d \in Int PROVE Dot(d)' = Dot(d)
  OBVIOUS
<1> DEFINE in == d \in 0 .. 14 * Cols - 1
           out == d < 0 \/ d >= 14 * Cols
           m(k) == MemoryBit("main", d \div 14, nibble + k)
           n(k) == MemoryBit(BankOf(d), d \div 14, nibble + k)
<1>0. (in <=> ~ out) /\ renderer' = renderer /\ nibble' = nibble
  BY ScanlineAssumption, MemoryStays
<1>m. /\ \A k : MemoryBit("main", d \div 14, nibble + k)' = m(k)
      /\ \A k : MemoryBit(BankOf(d), d \div 14, nibble + k)' = n(k)
      /\ MemoryBit(BankOf(d), d \div 14, d % 7)' = MemoryBit(BankOf(d), d \div 14, d % 7)
  BY <1>0, MemoryStays DEF BankOf
<1>1. CASE out
  <2>1. Dot(d) = Black
    BY <1>0, <1>1, Zenon DEF Dot
  <2>2. Dot(d)' = Black
    BY <1>0, <1>1, Zenon DEF Dot
  <2> QED
    BY <2>1, <2>2
<1>2. CASE in /\ renderer = "lores_mono"
  <2>1. Dot(d) = m((d % 14) % 4)
    BY <1>0, <1>2, Zenon DEF Dot
  <2>2. Dot(d)' = MemoryBit("main", d \div 14, nibble + ((d % 14) % 4))'
    BY <1>0, <1>2, Zenon DEF Dot
  <2> QED
    BY <1>m, <2>1, <2>2
<1>3. CASE in /\ renderer \in {"dgr_mono", "dgr_interp"}
  <2>1. Dot(d) = n(IF d % 14 < 7 THEN d % 4 ELSE (d + 1) % 4)
    BY <1>0, <1>3, Zenon DEF Dot
  <2>2. Dot(d)' = MemoryBit(BankOf(d), d \div 14,
                            nibble + (IF d % 14 < 7 THEN d % 4 ELSE (d + 1) % 4))'
    BY <1>0, <1>3, Zenon DEF Dot
  <2> QED
    BY <1>m, <2>1, <2>2
<1>4. CASE in /\ renderer = "hires_mono"
  <2>1. Dot(d) = MonoHiresDot(d)
    BY <1>0, <1>4, Zenon DEF Dot
  <2>2. Dot(d)' = MonoHiresDot(d)'
    BY <1>0, <1>4, Zenon DEF Dot
  <2> QED
    BY <2>1, <2>2, ColorDotStays
<1>5. CASE in /\ renderer \notin {"lores_mono", "dgr_mono", "dgr_interp", "hires_mono"}
  <2>1. Dot(d) = MemoryBit(BankOf(d), d \div 14, d % 7)
    BY <1>0, <1>5, Zenon DEF Dot
  <2>2. Dot(d)' = MemoryBit(BankOf(d), d \div 14, d % 7)'
    BY <1>0, <1>5, Zenon DEF Dot
  <2> QED
    BY <1>m, <2>1, <2>2
<1> QED
  BY <1>0, <1>1, <1>2, <1>3, <1>4, <1>5

\* Of four neighbouring dots each has a phase of its own.
LEMMA PhaseExists ==
  ASSUME NEW n \in Int, NEW k \in 1 .. 4
  PROVE  \E d \in n .. n + 3 : d % 4 = k - 1
<1> DEFINE q == n \div 4
           r == n % 4
<1>1. n = 4 * q + r /\ q \in Int /\ r \in 0 .. 3
  OBVIOUS
<1> HIDE DEF q, r
<1>2. \A m \in Int : (4 * m + (k - 1)) % 4 = k - 1
  OBVIOUS
<1>3. CASE r <= k - 1
  <2>1. 4 * q + (k - 1) \in n .. n + 3
    BY <1>1, <1>3
  <2> QED
    BY <1>1, <1>2, <2>1
<1>4. CASE r > k - 1
  <2>1. 4 * (q + 1) + (k - 1) \in n .. n + 3 /\ q + 1 \in Int
    BY <1>1, <1>4
  <2> QED
    BY <1>2, <2>1
<1> QED
  BY <1>1, <1>3, <1>4

LEMMA ColorsStay ==
  ASSUME UNCHANGED row
  PROVE  /\ \A d : CellColor(d)' = CellColor(d)
         /\ \A n \in Int : Phases(n)' = Phases(n)
         /\ \A n \in Int : Group(n)' = Group(n)
<1>1. ASSUME NEW d PROVE CellColor(d)' = CellColor(d)
  BY MemoryStays DEF CellColor, BankOf
<1>2. ASSUME NEW n \in Int PROVE Group(n)' = Group(n)
  <2>1. \A k \in 1 .. 4 : 4 * n + k - 1 \in Int
    OBVIOUS
  <2>2. \A k \in 1 .. 4 : Dot(4 * n + k - 1)' = Dot(4 * n + k - 1)
    BY <2>1, DotStays
  <2> QED
    BY <2>2 DEF Group
<1>3. ASSUME NEW n \in Int PROVE Phases(n)' = Phases(n)
  <2> DEFINE c(k) == CHOOSE d \in n .. n + 3 : d % 4 = k - 1
  <2>1. ASSUME NEW k \in 1 .. 4 PROVE c(k) \in Int
    <3>1. \E d \in n .. n + 3 : d % 4 = k - 1
      BY PhaseExists
    <3>2. c(k) \in n .. n + 3
      BY <3>1
    <3> QED
      BY <3>2
  <2>2. \A k \in 1 .. 4 : Dot(c(k))' = Dot(c(k))
    BY <2>1, DotStays
  <2>3. Phases(n) = [k \in 1 .. 4 |-> Dot(c(k))] /\ Phases(n)' = [k \in 1 .. 4 |-> Dot(c(k))']
    BY Zenon DEF Phases
  <2> QED
    BY <2>2, <2>3
<1> QED
  BY <1>1, <1>2, <1>3

LEMMA ContentStays ==
  ASSUME UNCHANGED row
  PROVE  \A d \in Int : Content(d)' = Content(d)
<1> SUFFICES ASSUME NEW d \in Int PROVE Content(d)' = Content(d)
  OBVIOUS
<1>1. d - 4 \in Int
  OBVIOUS
<1>2. CellColor(d)' = CellColor(d) /\ Dot(d)' = Dot(d) /\ Dot(d - 4)' = Dot(d - 4)
  BY <1>1, ColorsStay, DotStays
<1>3. ColorHiresDot(d - 3)' = ColorHiresDot(d - 3)
  BY ColorDotStays
<1>4. /\ renderer' = renderer /\ nibble' = nibble /\ LineAddress' = LineAddress
      /\ MemoryBit("main", d \div 7, d % 7)' = MemoryBit("main", d \div 7, d % 7)
      /\ MemoryBit(IF d % 16 < 8 THEN "aux" ELSE "main", d \div 16, d % 8)'
           = MemoryBit(IF d % 16 < 8 THEN "aux" ELSE "main", d \div 16, d % 8)
  BY MemoryStays
<1> QED
  BY <1>2, <1>3, <1>4 DEF Content

\* AppleWord, by the kind of renderer.
LEMMA WordIs ==
  ASSUME NEW w
  PROVE  /\ renderer = "text40" => AppleWord(w) = Pair(MemoryBit("main", w \div 7, w % 7))
         /\ renderer \in {"color_text40", "dhgr_fb"} =>
              AppleWord(w) = <<<<"main", LineAddress + (w \div 7), w % 7>>,
                               <<"aux", LineAddress + (w \div 7)>>>>
         /\ renderer = "lores" =>
              AppleWord(w) = Pair([k \in 1 .. 4 |->
                                     <<"main", LineAddress + (w \div 7), nibble + k - 1>>])
         /\ renderer = "dgr" => AppleWord(w) = <<CellColor(2 * w), CellColor(2 * w + 1)>>
         /\ renderer = "hires" =>
              AppleWord(w) = <<w % 2, [k \in 1 .. 8 |-> ColorHiresDot(2 * w - 4 + k)]>>
         /\ renderer = "dgr_interp" =>
              AppleWord(w) = <<Phases(2 * w + 1), Phases(2 * w + 2)>>
         /\ renderer = "dhgr_interp" =>
              AppleWord(w) = <<Phases(2 * w - 3), Phases(2 * w - 2)>>
         /\ renderer = "dhgr" => AppleWord(w) = Pair(Group(w \div 2))
         /\ renderer = "dhgr_mixed" =>
              AppleWord(w) =
                IF \E d \in 4 * (w \div 2) .. 4 * (w \div 2) + 3 :
                     <<BankOf(d), d \div 14>> \in high
                THEN Pair(Group(w \div 2))
                ELSE <<Dot(2 * w), Dot(2 * w + 1)>>
         /\ renderer = "dhgr_160" =>
              AppleWord(w) =
                Pair([k \in 1 .. 4 |->
                        MemoryBit(IF (w \div 2) % 4 < 2 THEN "aux" ELSE "main", w \div 8,
                                  4 * ((w \div 2) % 2) + k - 1)])
         /\ renderer \notin {"text40", "color_text40", "dhgr_fb", "lores", "dgr", "hires",
                             "dgr_interp", "dhgr_interp", "dhgr", "dhgr_mixed", "dhgr_160"} =>
              AppleWord(w) = <<Dot(2 * w), Dot(2 * w + 1)>>
<1>1. CASE renderer = "text40"
  BY <1>1, Zenon DEF AppleWord
<1>2. CASE renderer \in {"color_text40", "dhgr_fb"}
  BY <1>2, Zenon DEF AppleWord
<1>3. CASE renderer = "lores"
  BY <1>3, Zenon DEF AppleWord
<1>4. CASE renderer = "dgr"
  BY <1>4, Zenon DEF AppleWord
<1>5. CASE renderer = "hires"
  BY <1>5, Zenon DEF AppleWord
<1>6. CASE renderer = "dgr_interp"
  BY <1>6, Zenon DEF AppleWord
<1>7. CASE renderer = "dhgr_interp"
  BY <1>7, Zenon DEF AppleWord
<1>8. CASE renderer = "dhgr"
  BY <1>8, Zenon DEF AppleWord
<1>9. CASE renderer = "dhgr_mixed"
  BY <1>9, Zenon DEF AppleWord
<1>10. CASE renderer = "dhgr_160"
  BY <1>10, Zenon DEF AppleWord
<1>11. CASE renderer \notin {"text40", "color_text40", "dhgr_fb", "lores", "dgr", "hires",
                             "dgr_interp", "dhgr_interp", "dhgr", "dhgr_mixed", "dhgr_160"}
  BY <1>11, Zenon DEF AppleWord
<1> QED
  BY <1>1, <1>2, <1>3, <1>4, <1>5, <1>6, <1>7, <1>8, <1>9, <1>10, <1>11, Zenon

LEMMA WordStays ==
  ASSUME UNCHANGED row
  PROVE  \A w \in Int : AppleWord(w)' = AppleWord(w)
<1> SUFFICES ASSUME NEW w \in Int PROVE AppleWord(w)' = AppleWord(w)
  OBVIOUS
<1>0. /\ renderer' = renderer /\ nibble' = nibble /\ LineAddress' = LineAddress
      /\ high' = high
  BY MemoryStays
<1>i. /\ 2 * w \in Int /\ 2 * w + 1 \in Int /\ 2 * w + 2 \in Int
      /\ 2 * w - 3 \in Int /\ 2 * w - 2 \in Int /\ w \div 2 \in Int
  OBVIOUS
<1>d. Dot(2 * w)' = Dot(2 * w) /\ Dot(2 * w + 1)' = Dot(2 * w + 1)
  BY <1>i, DotStays
<1>1. CASE renderer = "text40"
  <2>1. AppleWord(w)' = Pair(MemoryBit("main", w \div 7, w % 7))'
    BY <1>0, <1>1, Zenon DEF AppleWord
  <2>2. MemoryBit("main", w \div 7, w % 7)' = MemoryBit("main", w \div 7, w % 7)
    BY MemoryStays
  <2> QED
    BY <1>1, <2>1, <2>2, WordIs, Zenon DEF Pair
<1>2. CASE renderer \in {"color_text40", "dhgr_fb"}
  <2>1. AppleWord(w)' = <<<<"main", LineAddress' + (w \div 7), w % 7>>,
                          <<"aux", LineAddress' + (w \div 7)>>>>
    BY <1>0, <1>2, Zenon DEF AppleWord
  <2> QED
    BY <1>0, <1>2, <2>1, WordIs, Zenon
<1>3. CASE renderer = "lores"
  <2>1. AppleWord(w)' = Pair([k \in 1 .. 4 |->
                                <<"main", LineAddress + (w \div 7), nibble + k - 1>>])'
    BY <1>0, <1>3, Zenon DEF AppleWord
  <2>2. [k \in 1 .. 4 |-> <<"main", LineAddress + (w \div 7), nibble + k - 1>>]'
          = [k \in 1 .. 4 |-> <<"main", LineAddress + (w \div 7), nibble + k - 1>>]
    BY <1>0
  <2> QED
    BY <1>3, <2>1, <2>2, WordIs, Zenon DEF Pair
<1>4. CASE renderer = "dgr"
  <2>1. AppleWord(w)' = <<CellColor(2 * w)', CellColor(2 * w + 1)'>>
    BY <1>0, <1>4, Zenon DEF AppleWord
  <2> QED
    BY <1>4, <2>1, ColorsStay, WordIs, Zenon
<1>5. CASE renderer = "hires"
  <2>1. AppleWord(w)' = <<w % 2, [k \in 1 .. 8 |-> ColorHiresDot(2 * w - 4 + k)']>>
    BY <1>0, <1>5, Zenon DEF AppleWord
  <2>2. [k \in 1 .. 8 |-> ColorHiresDot(2 * w - 4 + k)']
          = [k \in 1 .. 8 |-> ColorHiresDot(2 * w - 4 + k)]
    BY ColorDotStays
  <2> QED
    BY <1>5, <2>1, <2>2, WordIs, Zenon
<1>6. CASE renderer = "dgr_interp"
  <2>1. AppleWord(w)' = <<Phases(2 * w + 1)', Phases(2 * w + 2)'>>
    BY <1>0, <1>6, Zenon DEF AppleWord
  <2> QED
    BY <1>6, <1>i, <2>1, ColorsStay, WordIs, Zenon
<1>7. CASE renderer = "dhgr_interp"
  <2>1. AppleWord(w)' = <<Phases(2 * w - 3)', Phases(2 * w - 2)'>>
    BY <1>0, <1>7, Zenon DEF AppleWord
  <2> QED
    BY <1>7, <1>i, <2>1, ColorsStay, WordIs, Zenon
<1>8. CASE renderer = "dhgr"
  <2>1. AppleWord(w)' = Pair(Group(w \div 2))'
    BY <1>0, <1>8, Zenon DEF AppleWord
  <2>2. Group(w \div 2)' = Group(w \div 2)
    BY <1>i, ColorsStay
  <2> QED
    BY <1>8, <2>1, <2>2, WordIs, Zenon DEF Pair
<1>9. CASE renderer = "dhgr_mixed"
  <2> DEFINE c == \E d \in 4 * (w \div 2) .. 4 * (w \div 2) + 3 :
                    <<BankOf(d), d \div 14>> \in high
  <2>1. AppleWord(w)' = IF c' THEN Pair(Group(w \div 2))'
                        ELSE <<Dot(2 * w)', Dot(2 * w + 1)'>>
    BY <1>0, <1>9, Zenon DEF AppleWord
  <2>2. c' <=> c
    BY <1>0 DEF BankOf
  <2>3. AppleWord(w) = IF c THEN Pair(Group(w \div 2)) ELSE <<Dot(2 * w), Dot(2 * w + 1)>>
    BY <1>9, WordIs, Zenon
  <2>4. Group(w \div 2)' = Group(w \div 2)
    BY <1>i, ColorsStay
  <2> HIDE DEF c
  <2> QED
    BY <1>d, <2>1, <2>2, <2>3, <2>4, Zenon DEF Pair
<1>10. CASE renderer = "dhgr_160"
  <2> DEFINE m(k) == MemoryBit(IF (w \div 2) % 4 < 2 THEN "aux" ELSE "main", w \div 8,
                               4 * ((w \div 2) % 2) + k - 1)
  <2>1. AppleWord(w)' = Pair([k \in 1 .. 4 |-> m(k)'])
    BY <1>0, <1>10, Zenon DEF AppleWord, Pair
  <2>2. [k \in 1 .. 4 |-> m(k)'] = [k \in 1 .. 4 |-> m(k)]
    BY MemoryStays
  <2>3. AppleWord(w) = Pair([k \in 1 .. 4 |-> m(k)])
    BY <1>10, WordIs, Zenon
  <2> QED
    BY <2>1, <2>2, <2>3, Zenon
<1>11. CASE renderer \notin {"text40", "color_text40", "dhgr_fb", "lores", "dgr", "hires",
                             "dgr_interp", "dhgr_interp", "dhgr", "dhgr_mixed", "dhgr_160"}
  <2>1. AppleWord(w)' = <<Dot(2 * w)', Dot(2 * w + 1)'>>
    BY <1>0, <1>11, Zenon DEF AppleWord
  <2> QED
    BY <1>11, <1>d, <2>1, WordIs, Zenon
<1> QED
  BY <1>1, <1>2, <1>3, <1>4, <1>5, <1>6, <1>7, <1>8, <1>9, <1>10, <1>11, Zenon

-----------------------------------------------------------------------------
(* Every step keeps the dots in their places.                              *)

\* The first column of hires, which is loaded while the row is begun.
LEMMA FirstHalfDots ==
  ASSUME renderer' = "hires", line' \in 0 .. 191, NEW j \in 0 .. 13
  PROVE  LET d == Doubled(0)'
         IN  /\ HalfDot(j)' = d[j + 1]
             /\ ColorHiresDot(j)' = IF <<"main", 0>> \notin high' THEN HalfDot(j)'
                                    ELSE IF j = 0 THEN Black ELSE HalfDot(j - 1)'
<1> DEFINE d == Doubled(0)'
<1>1. address' = LineAddress'
  BY RowsInMemory DEF address, LineAddress, HiresRenderers
<1>2. j \div 14 = 0 /\ j % 14 = j
  OBVIOUS
<1>3. HalfDot(j)' = {<<"main", LineAddress' + 0, j \div 2>>}
  BY <1>2 DEF HalfDot, MemoryBit
<1>4. d = [k \in 1 .. 14 |-> {<<"main", address' + 0, (k - 1) \div 2>>}]
  BY DEF Doubled, Bit
<1>5. j + 1 \in 1 .. 14 /\ (j + 1) - 1 = j
  OBVIOUS
<1> HIDE DEF d
<1>6. HalfDot(j)' = d[j + 1]
  BY <1>1, <1>3, <1>4, <1>5
<1>7. DelayedDot(j)' = IF <<"main", 0>> \notin high' THEN HalfDot(j)'
                       ELSE IF j = 0 THEN Black ELSE HalfDot(j - 1)'
  BY <1>2 DEF DelayedDot, Delayed
<1>8. ColorHiresDot(j)' = DelayedDot(j)'
  <2>1. ~ (j < 0 \/ j >= 14 * Cols) /\ ~ (j > 0 /\ j % 14 = 0)
    BY <1>2, ScanlineAssumption
  <2> QED
    BY <2>1 DEF ColorHiresDot
<1> QED
  BY <1>6, <1>7, <1>8 DEF d

\* v is s, and behind it t.
Behind(v, s, n, t, m) ==
  /\ \A k \in 1 .. n : v[k] = s[k]
  /\ \A k \in 1 .. m : v[n + k] = t[k]

LEMMA JoinedAt ==
  ASSUME NEW s, NEW t, NEW n \in Nat, NEW m \in Nat, Piece(s, n), Piece(t, m)
  PROVE  Behind(s \o t, s, n, t, m)
<1> DEFINE v == s \o t
<1>1. /\ \A k \in 1 .. n : v[k] = s[k]
      /\ \A k \in n + 1 .. n + m : v[k] = t[k - n]
  BY ConcatProperties DEF Piece
<1> HIDE DEF v
<1>2. ASSUME NEW k \in 1 .. m
      PROVE  v[n + k] = t[k]
  <2>1. n + k \in n + 1 .. n + m /\ (n + k) - n = k
    OBVIOUS
  <2>2. v[n + k] = t[(n + k) - n]
    BY <1>1, <2>1, Zenon
  <2> QED
    BY <2>1, <2>2
<1> QED
  BY <1>1, <1>2 DEF Behind, v

LEMMA BeginsPlaced ==
  ASSUME NEW r \in Renderers, NEW y \in 0 .. 191, r \notin HiresRenderers => y \in 0 .. 23,
         NEW n \in {0, 4}, NEW h, Begin(r, y, n, h)
  PROVE  Placed'
<1>1. /\ renderer' = r /\ line' = y /\ nibble' = n /\ high' = h
      /\ i' = (IF r = "hires" THEN 1 ELSE 0) /\ spill' = Black /\ lastmsb' = Black
      /\ words' = 0
  BY DEF Begin
<1>2. LineRange' /\ Carried'
  BY <1>1 DEF LineRange, Carried
<1>3. Position' = 0
  BY <1>1 DEF Position, Weight
<1>4. ASSUME NEW k \in 1 .. Len(dots')
      PROVE  dots'[k] = Content(k - 1)'
  <2>1. CASE r = "hires"
    <3> DEFINE d     == Doubled(0)'
               first == IF <<"main", 0>> \notin h THEN d
                        ELSE <<Black>> \o SubSeq(d, 1, 13)
    <3>1. dots' = Times(3, Black) \o first
      BY <2>1, Zenon DEF Begin
    <3>2. /\ Piece(d, 14) /\ Piece(SubSeq(d, 1, 13), 13)
      BY <1>1, FirstDoubled DEF Piece
    <3>3. \A j \in 0 .. 13 : ColorHiresDot(j)' = IF <<"main", 0>> \notin h THEN d[j + 1]
                                                 ELSE IF j = 0 THEN Black ELSE d[j]
      <4> TAKE j \in 0 .. 13
      <4>1. HalfDot(j)' = d[j + 1]
        BY <1>1, <2>1, FirstHalfDots
      <4>2. ColorHiresDot(j)' = IF <<"main", 0>> \notin h THEN HalfDot(j)'
                                ELSE IF j = 0 THEN Black ELSE HalfDot(j - 1)'
        BY <1>1, <2>1, FirstHalfDots, ZenonT(60)
      <4>3. CASE j = 0
        BY <4>1, <4>2, <4>3
      <4>4. CASE j # 0
        <5>1. j - 1 \in 0 .. 13 /\ (j - 1) + 1 = j
          BY <4>4
        <5>2. HalfDot(j - 1)' = d[(j - 1) + 1]
          BY <1>1, <2>1, <5>1, FirstHalfDots
        <5> QED
          BY <4>1, <4>2, <4>4, <5>1, <5>2
      <4> QED
        BY <4>3, <4>4
    <3> HIDE DEF d
    <3>4. Piece(<<Black>>, 1) /\ Piece(Times(3, Black), 3) /\ <<Black>>[1] = Black
      BY DotOK, SingleOK, TimesOK DEF Piece
    <3>5. /\ Piece(first, 14)
          /\ \A j \in 1 .. 14 : first[j] = ColorHiresDot(j - 1)'
      <4>1. CASE <<"main", 0>> \notin h
        <5>1. first = d
          BY <4>1
        <5>2. \A j \in 0 .. 13 : ColorHiresDot(j)' = d[j + 1]
          BY <3>3, <4>1
        <5>3. \A j \in 1 .. 14 : d[j] = ColorHiresDot(j - 1)'
          <6> TAKE j \in 1 .. 14
          <6>1. j - 1 \in 0 .. 13 /\ (j - 1) + 1 = j
            OBVIOUS
          <6>2. ColorHiresDot(j - 1)' = d[(j - 1) + 1]
            BY <5>2, <6>1
          <6> QED
            BY <6>1, <6>2
        <5> QED
          BY <3>2, <5>1, <5>3, Zenon
      <4>2. CASE <<"main", 0>> \in h
        <5> DEFINE t == SubSeq(d, 1, 13)
                   u == <<Black>>
        <5>1. \A j \in 1 .. 13 : t[j] = d[j]
          BY <3>2, SMTT(30) DEF Piece
        <5>2. first = u \o t
          BY <4>2
        <5>3. Piece(u, 1) /\ Piece(t, 13) /\ u[1] = Black /\ Piece(u \o t, 14)
          BY <3>2, <3>4, Fourteen
        <5> HIDE DEF t, u
        <5>4. Behind(first, u, 1, t, 13)
          BY <5>2, <5>3, JoinedAt
        <5> HIDE DEF first
        <5>5. ASSUME NEW j \in 1 .. 14
              PROVE  first[j] = ColorHiresDot(j - 1)'
          <6>1. j - 1 \in 0 .. 13
            OBVIOUS
          <6>2. ColorHiresDot(j - 1)' = IF j - 1 = 0 THEN Black ELSE d[j - 1]
            BY <3>3, <4>2, <6>1
          <6>3. CASE j = 1
            <7>1. first[j] = Black
              BY <5>3, <5>4, <6>3, SMTT(30) DEF Behind
            <7> QED
              BY <6>2, <6>3, <7>1
          <6>4. CASE j # 1
            <7>1. j - 1 \in 1 .. 13 /\ 1 + (j - 1) = j /\ j - 1 # 0
              BY <6>4
            <7>2. first[1 + (j - 1)] = t[j - 1]
              BY <5>4, <7>1, Zenon DEF Behind
            <7>3. ColorHiresDot(j - 1)' = d[j - 1]
              BY <6>2, <7>1
            <7> QED
              BY <5>1, <7>1, <7>2, <7>3, Zenon
          <6> QED
            BY <6>3, <6>4
        <5> QED
          BY <5>2, <5>3, <5>5
      <4> QED
        BY <4>1, <4>2
    <3> HIDE DEF first
    <3> DEFINE b == Times(3, Black)
    <3>6. Piece(b, 3) /\ dots' = b \o first
      BY <3>1, <3>4
    <3>7. \A j \in 1 .. 3 : b[j] = Black
      BY DEF Times
    <3> HIDE DEF b
    <3>8. Piece(dots', 3 + 14) /\ Behind(dots', b, 3, first, 14)
      <4>1. Piece(b \o first, 3 + 14) /\ Behind(b \o first, b, 3, first, 14)
        BY <3>5, <3>6, Joined, JoinedAt
      <4> QED
        BY <3>6, <4>1, Zenon
    <3>9. Content(k - 1)' = ColorHiresDot((k - 1) - 3)'
      BY <1>1, <2>1 DEF Content
    <3>10. k \in 1 .. 17
      BY <3>8 DEF Piece
    <3>12. CASE k <= 3
      <4>1. k \in 1 .. 3 /\ (k - 1) - 3 < 0
        BY <3>10, <3>12
      <4>2. dots'[k] = Black
        BY <3>7, <3>8, <4>1, Zenon DEF Behind
      <4>3. ColorHiresDot((k - 1) - 3)' = Black
        BY <4>1 DEF ColorHiresDot
      <4> QED
        BY <3>9, <4>2, <4>3
    <3>13. CASE ~ (k <= 3)
      <4>1. k - 3 \in 1 .. 14 /\ (k - 3) - 1 = (k - 1) - 3 /\ 3 + (k - 3) = k
        BY <3>10, <3>13
      <4>2. first[k - 3] = ColorHiresDot((k - 3) - 1)'
        BY <3>5, <4>1
      <4>3. dots'[3 + (k - 3)] = first[k - 3]
        BY <3>8, <4>1, Zenon DEF Behind
      <4> QED
        BY <3>9, <4>1, <4>2, <4>3, Zenon
    <3> QED
      BY <3>12, <3>13
  <2>2. CASE r = "dhgr_interp"
    <3>1. dots' = Times(4, Black)
      BY <2>2, Zenon DEF Begin
    <3>2. k \in 1 .. 4 /\ dots'[k] = Black
      BY <3>1 DEF Times
    <3>3. Content(k - 1)' = Dot((k - 1) - 4)'
      BY <1>1, <2>2 DEF Content
    <3>4. Dot((k - 1) - 4)' = Black
      <4> DEFINE e == (k - 1) - 4
      <4>1. e < 0 /\ ~ (e \in 0 .. 14 * Cols - 1)
        BY <3>2
      <4> HIDE DEF e
      <4>2. Dot(e)' = Black
        BY <4>1, Zenon DEF Dot
      <4> QED
        BY <4>2 DEF e
    <3> QED
      BY <3>2, <3>3, <3>4
  <2>3. CASE r \notin {"hires", "dhgr_interp"}
    <3>1. dots' = << >>
      BY <2>3, Zenon DEF Begin
    <3> QED
      BY <3>1
  <2> QED
    BY <2>1, <2>2, <2>3
<1>5. InPlace(dots, Position)'
  <2>1. \A k \in 1 .. Len(dots') : dots'[k] = Content(0 + k - 1)'
    <3> TAKE k \in 1 .. Len(dots')
    <3>1. 0 + k - 1 = k - 1
      OBVIOUS
    <3> QED
      BY <1>4, <3>1
  <2> QED
    BY <1>3, <2>1 DEF InPlace
<1> QED
  BY <1>2, <1>5 DEF Placed

LEMMA InPlaceStays ==
  ASSUME UNCHANGED row, NEW p \in Int, Position' = p,
         \A k \in 1 .. Len(dots') : dots'[k] = Content(p + k - 1)
  PROVE  InPlace(dots, Position)'
<1>1. ASSUME NEW k \in 1 .. Len(dots')
      PROVE  dots'[k] = Content(p + k - 1)'
  <2>1. p + k - 1 \in Int
    OBVIOUS
  <2> QED
    BY <2>1, ContentStays
<1> QED
  BY <1>1 DEF InPlace

LEMMA SpillCarried ==
  ASSUME Inv, Placed, Load, Cols % 4 = 0
  PROVE  Carried'
<1> SUFFICES ASSUME renderer' = "hires_mono"
             PROVE  /\ lastmsb' = Black
                    /\ spill' = IF i' > 0 /\ Delayed(i - 1)' THEN HalfDot(14 * i - 1)'
                               ELSE Black
  BY DEF Carried
<1>1. /\ RowOK /\ LoadsMore /\ renderer = "hires_mono" /\ UNCHANGED row
      /\ Counts(renderer, "load", i, Len(dots), words)
  BY DEF Inv, Load, row
<1>2. LoopIs(renderer, Loop)
  BY <1>1, LoopNumbers DEF RowOK
<1>3. Loop.fill = 0 /\ Loop.columns = 1
  BY <1>1, <1>2 DEF LoopIs, Bounds, Plain, Columns, Two
<1>4. i \in Nat /\ Len(dots) \in Nat /\ ~ (Len(dots) > 0)
  BY <1>1, <1>3, CountsRange DEF LoadsMore, RowOK
<1>5. i' = i + 1 /\ lastmsb' = Black /\ spill' = MonoSpill(i)
  BY <1>1, <1>3, <1>4 DEF Load
<1>6. Doubled(i)[14] = HalfDot(14 * i + 13)
  <2>1. Doubled(i)[13 + 1] = HalfDot(14 * i + 13)
    BY <1>1, <1>4, HalfDots DEF Placed
  <2> QED
    BY <2>1
<1>7. MonoSpill(i) = IF Delayed(i) THEN HalfDot(14 * i + 13) ELSE Black
  BY <1>6 DEF MonoSpill, IsHigh, Delayed
<1>8. i' > 0 /\ i' - 1 = i /\ 14 * i' - 1 = 14 * i + 13
  BY <1>4, <1>5
<1>9. (Delayed(i - 1)' <=> Delayed(i)) /\ HalfDot(14 * i - 1)' = HalfDot(14 * i + 13)
  <2> DEFINE h(x) == {<<"main", LineAddress + (x \div 14), (x % 14) \div 2>>}
  <2>1. /\ Delayed(i - 1)' <=> <<"main", i' - 1>> \in high'
        /\ Delayed(i) <=> <<"main", i>> \in high
    BY DEF Delayed
  <2>2. /\ HalfDot(14 * i - 1)'
             = {<<"main", LineAddress' + ((14 * i' - 1) \div 14), ((14 * i' - 1) % 14) \div 2>>}
        /\ HalfDot(14 * i + 13) = h(14 * i + 13)
    BY Zenon DEF HalfDot, MemoryBit
  <2>3. high' = high /\ LineAddress' = LineAddress
    BY <1>1, MemoryStays
  <2>4. HalfDot(14 * i - 1)' = h(14 * i + 13)
    BY <1>8, <2>2, <2>3, Zenon
  <2> QED
    BY <1>8, <2>1, <2>2, <2>3, <2>4, Zenon
<1> QED
  BY <1>5, <1>7, <1>8, <1>9

LEMMA LoadPlaced ==
  ASSUME Inv, Placed, Load, Cols % 4 = 0
  PROVE  Placed'
<1> DEFINE n == Len(dots)
           c == Columns(renderer)
           m == Rate(renderer)
           a == Ahead(renderer)
           p == Position
<1>1. /\ RowOK /\ phase = "load" /\ LoadsMore /\ dots \in Seq(Dots)
      /\ renderer \in Renderers /\ Counts(renderer, "load", i, n, words)
      /\ LineRange /\ Carried /\ InPlace(dots, p) /\ UNCHANGED row
  BY DEF Inv, Load, RowOK, Placed
<1>2. LoopIs(renderer, Loop)
  BY <1>1, LoopNumbers
<1>3. /\ n \in Nat /\ i \in Nat /\ words \in Nat /\ (renderer = "hires" => n > 0)
  BY <1>1, CountsRange
<1>4. LoadsAt(renderer, Loop, i, n) /\ i < LastOf(renderer)
  BY <1>1, LastIs DEF LoadsMore, LoadsAt
<1>5. Counts(renderer, "load", i + c, n + m * c, words)
  BY <1>1, <1>2, <1>4, LoadCounts, Zenon
<1>6. Loop.columns = c /\ c \in {1, 2} /\ m \in Nat /\ a \in Nat /\ Weight(renderer) \in Nat
  BY <1>2 DEF LoopIs, Columns, Rate, Ahead, Weight
<1>7. p \in Int /\ p + n = a + m * i
  BY <1>1, <1>3, <1>6 DEF Position, Counts, Books
<1>8. Position' = p
  BY DEF Load, row, Position
<1> HIDE DEF n, c, m, a, p
<1>9. Piece(dots, n) /\ Piece(ColumnDots(i), m)
  BY <1>1, <1>3, ColumnOK DEF Piece, n, m
<1>10. InPlace(ColumnDots(i), p + n)
  <2>1. renderer = "hires" => dots[n] = ColorHiresDot(14 * i - 1) /\ i > 0
    <3> SUFFICES ASSUME renderer = "hires"
                 PROVE  dots[n] = ColorHiresDot(14 * i - 1) /\ i > 0
      OBVIOUS
    <3>1. n > 0 /\ n >= 17 /\ m = 14 /\ a = 3
      BY <1>1, <1>3 DEF Rate, Ahead, OneDotWords, Counts, Books, Low, m, a
    <3>2. dots[n] = Content(p + n - 1)
      BY <1>1, <1>3, <3>1 DEF InPlace, n
    <3>3. p + n - 1 = (14 * i - 1) + 3 /\ (p + n - 1) - 3 = 14 * i - 1
      BY <1>3, <1>7, <3>1
    <3>4. Content(p + n - 1) = ColorHiresDot((p + n - 1) - 3)
      BY DEF Content
    <3>5. i > 0
      <4>1. 2 * words + n = 3 + 14 * i /\ n >= 17
        BY <1>1, <3>1 DEF Counts, Books, Weight, Rate, Ahead, OneDotWords
      <4> QED
        BY <1>3, <4>1
    <3> QED
      BY <3>2, <3>3, <3>4, <3>5
  <2>2. InPlace(ColumnDots(i), Ahead(renderer) + Rate(renderer) * i)
    BY <1>1, <1>3, <1>4, <2>1, ColumnInPlace DEF n
  <2> QED
    BY <1>7, <2>2, Zenon DEF a, m
<1>11. /\ InPlace(dots \o ColumnDots(i), p) /\ Piece(dots \o ColumnDots(i), n + m)
  BY <1>1, <1>3, <1>6, <1>7, <1>9, <1>10, InPlaceJoined, Joined
<1>12. \A k \in 1 .. Len(dots') : dots'[k] = Content(p + k - 1)
  <2>1. CASE c = 1
    <3>1. dots' = dots \o ColumnDots(i)
      BY <1>6, <2>1 DEF Load
    <3> QED
      BY <1>11, <3>1 DEF InPlace
  <2>2. CASE c = 2
    <3>1. dots' = dots \o ColumnDots(i) \o ColumnDots(i + 1)
      BY <1>6, <2>2 DEF Load
    <3>2. renderer # "hires" /\ renderer # "hires_mono"
      BY <2>2 DEF Columns, Two, c
    <3>3. i + 1 \in Nat /\ i + 1 < LastOf(renderer)
      BY <1>3, <1>5, <2>2, ScanlineAssumption DEF Counts, Books, LastOf
    <3>4. Piece(ColumnDots(i + 1), m)
      BY <1>1, <3>2, <3>3, ColumnOK DEF Piece, m
    <3>5. InPlace(ColumnDots(i + 1), Ahead(renderer) + Rate(renderer) * (i + 1))
      BY <1>1, <3>2, <3>3, ColumnInPlace
    <3>6. p + (n + m) = Ahead(renderer) + Rate(renderer) * (i + 1)
      <4>1. m * (i + 1) = m * i + m
        BY <1>3, <1>6
      <4> QED
        BY <1>3, <1>6, <1>7, <4>1 DEF a, m
    <3>7. InPlace(ColumnDots(i + 1), p + (n + m))
      BY <3>5, <3>6, Zenon
    <3>8. InPlace((dots \o ColumnDots(i)) \o ColumnDots(i + 1), p)
      <4>1. n + m \in Nat
        BY <1>3, <1>6
      <4> QED
        BY <1>6, <1>7, <1>11, <3>4, <3>7, <4>1, InPlaceJoined
    <3> QED
      BY <3>1, <3>8 DEF InPlace
  <2> QED
    BY <1>6, <2>1, <2>2
<1>13. InPlace(dots, Position)'
  BY <1>1, <1>7, <1>8, <1>12, InPlaceStays
<1>14. LineRange'
  BY <1>1 DEF LineRange, row
<1> QED
  BY <1>13, <1>14, SpillCarried DEF Placed

\* While no column is loaded what is carried stays.
LEMMA CarriedStays ==
  ASSUME Carried, LineRange, UNCHANGED row, i' = i, spill' = spill, lastmsb' = lastmsb
  PROVE  Carried' /\ LineRange'
<1>1. renderer' = renderer /\ line' = line /\ (Delayed(i - 1)' <=> Delayed(i - 1))
      /\ HalfDot(14 * i - 1)' = HalfDot(14 * i - 1)
  <2>1. renderer' = renderer /\ line' = line /\ high' = high /\ LineAddress' = LineAddress
    BY MemoryStays
  <2>2. HalfDot(14 * i - 1)' = HalfDot(14 * i - 1)
    BY <2>1, Zenon DEF HalfDot, MemoryBit
  <2>3. Delayed(i - 1)' <=> Delayed(i - 1)
    BY <2>1, Zenon DEF Delayed
  <2> QED
    BY <2>1, <2>2, <2>3
<1> QED
  BY <1>1 DEF Carried, LineRange

\* As many dots are taken as the words show.
LEMMA TakenDots ==
  ASSUME NEW r \in Renderers, NEW l, LoopIs(r, l)
  PROVE  l.take = Weight(r) * Chunk(r)
  BY DEF LoopIs, Bounds, Weight, Chunk, OneDotWords, Plain, Renderers, TextRenderers,
         LoresRenderers, HiresRenderers

LEMMA TakePlaced ==
  ASSUME Inv, Placed, Take, Cols % 4 = 0
  PROVE  Placed'
<1> DEFINE n == Len(dots)
           k == Loop.take
           p == Position
<1>1. /\ RowOK /\ phase = "take" /\ TakesMore /\ dots \in Seq(Dots)
      /\ renderer \in Renderers /\ Counts(renderer, "take", i, n, words)
      /\ LineRange /\ Carried /\ InPlace(dots, p) /\ UNCHANGED row
      /\ i' = i /\ spill' = spill /\ lastmsb' = lastmsb
  BY DEF Inv, Take, RowOK, Placed
<1>2. LoopIs(renderer, Loop)
  BY <1>1, LoopNumbers
<1>3. TakesAt(renderer, Loop, i, n)
  BY <1>1, LastIs DEF TakesMore, TakesAt
<1>4. k <= n
  BY <1>1, <1>2, <1>3, TakeCounts, Zenon
<1>5. k = Weight(renderer) * Chunk(renderer)
  BY <1>1, <1>2, TakenDots
<1>6. /\ n \in Nat /\ words \in Nat /\ Weight(renderer) \in Nat /\ Chunk(renderer) \in Nat
      /\ k \in Nat
  BY <1>1, <1>5, CountsRange DEF Weight, Chunk
<1>7. p \in Int /\ Position' = p + k
  <2>1. words' = words + Chunk(renderer) /\ renderer' = renderer
    BY <1>1, TakenLength DEF Take, row
  <2>2. Weight(renderer)' = Weight(renderer)
    BY <2>1 DEF Weight
  <2>3. Weight(renderer) * (words + Chunk(renderer))
          = Weight(renderer) * words + Weight(renderer) * Chunk(renderer)
    BY <1>6
  <2> QED
    BY <1>5, <1>6, <2>1, <2>2, <2>3 DEF Position
<1>8. dots' = SubSeq(dots, k + 1, n)
  BY DEF Take
<1> HIDE DEF n, k, p
<1>9. InPlace(SubSeq(dots, k + 1, n), p + k)
  <2>1. Piece(dots, n)
    BY <1>1 DEF Piece, n
  <2> QED
    BY <1>1, <1>4, <1>6, <1>7, <2>1, InPlaceTail
<1>10. \A j \in 1 .. Len(dots') : dots'[j] = Content((p + k) + j - 1)
  BY <1>8, <1>9 DEF InPlace
<1>11. InPlace(dots, Position)'
  <2>1. p + k \in Int
    BY <1>6, <1>7
  <2> QED
    BY <1>1, <1>7, <1>10, <2>1, InPlaceStays
<1> QED
  BY <1>1, <1>11, CarriedStays DEF Placed

\* A step that neither loads nor takes.
LEMMA IdlePlaced ==
  ASSUME Inv, Placed, UNCHANGED <<row, i, dots, spill, lastmsb, words>>
  PROVE  Placed'
<1>1. /\ UNCHANGED row /\ i' = i /\ dots' = dots /\ spill' = spill /\ lastmsb' = lastmsb
      /\ words' = words
  OBVIOUS
<1>2. Position \in Int /\ Position' = Position
  <2>1. words \in Nat /\ renderer' = renderer
    BY <1>1, CountsRange DEF Inv, RowOK, row
  <2> QED
    BY <1>1, <2>1 DEF Position, Weight
<1>3. InPlace(dots, Position)'
  <2> DEFINE p == Position
  <2>1. \A k \in 1 .. Len(dots') : dots'[k] = Content(p + k - 1)
    BY <1>1 DEF Placed, InPlace
  <2> HIDE DEF p
  <2> QED
    BY <1>1, <1>2, <2>1, InPlaceStays DEF p
<1> QED
  BY <1>1, <1>3, CarriedStays DEF Placed

LEMMA PlacedInit ==
  ASSUME Init
  PROVE  Placed
<1>1. renderer = "text40" /\ line = 0 /\ dots = << >>
  BY DEF Init
<1> QED
  BY <1>1 DEF Placed, LineRange, Carried, InPlace

LEMMA PlacedStep ==
  ASSUME Inv, Placed, [Next]_vars, Cols % 4 = 0
  PROVE  Placed'
<1>1. CASE NextRow
  <2>1. \A y \in TextLines : y \in 0 .. 191 /\ y \in 0 .. 23
    BY ScanlineAssumption
  <2>2. \A y \in HiresLines : y \in 0 .. 191
    BY ScanlineAssumption
  <2> QED
    BY <1>1, <2>1, <2>2, BeginsPlaced
       DEF NextRow, AnyRow, Renderers, TextRenderers, LoresRenderers, HiresRenderers
<1>2. CASE Load
  BY <1>2, LoadPlaced
<1>3. CASE Loaded
  BY <1>3, IdlePlaced DEF Loaded
<1>4. CASE Take
  BY <1>4, TakePlaced
<1>5. CASE AllTaken
  BY <1>5, IdlePlaced DEF AllTaken
<1>6. CASE UNCHANGED vars
  BY <1>6, IdlePlaced DEF vars, row
<1> QED
  BY <1>1, <1>2, <1>3, <1>4, <1>5, <1>6 DEF Next

THEOREM PlacedAlways ==
  ASSUME Cols % 4 = 0
  PROVE  Spec => [](Inv /\ Placed)
<1>1. Init => Inv /\ Placed
  BY InvInit, PlacedInit
<1>2. (Inv /\ Placed) /\ [Next]_vars => (Inv /\ Placed)'
  BY InvStep, PlacedStep
<1> QED
  BY <1>1, <1>2, PTL DEF Spec

-----------------------------------------------------------------------------
(* The words that are taken show what the Apple shows.                     *)

\* So many dots of a piece, from one of them on.
LEMMA Cut ==
  ASSUME NEW s, NEW n \in Nat, Piece(s, n), NEW m \in Nat, NEW l \in Nat, m + l <= n
  PROVE  SubSeq(s, m + 1, m + l) = [k \in 1 .. l |-> s[m + k]]
<1> DEFINE t == SubSeq(s, m + 1, m + l)
<1>1. s \in Seq(Dots) /\ Len(s) = n
  BY DEF Piece
<1>2. \A k \in m + 1 .. m + l : s[k] \in Dots
  BY <1>1, ElementOfSeq
<1>3. t \in Seq(Dots) /\ Len(t) = l /\ \A k \in 1 .. l : t[k] = s[m + k]
  BY <1>1, <1>2, SubSeqProperties
<1> HIDE DEF t
<1>4. t \in [1 .. l -> Dots]
  BY <1>3, LenProperties
<1>5. t = [k \in 1 .. l |-> t[k]]
  BY <1>4
<1> QED
  BY <1>3, <1>5 DEF t

LEMMA CutPair ==
  ASSUME NEW s, NEW n \in Nat, Piece(s, n), NEW m \in Nat, m + 2 <= n
  PROVE  SubSeq(s, m + 1, m + 2) = <<s[m + 1], s[m + 2]>>
<1>1. SubSeq(s, m + 1, m + 2) = [k \in 1 .. 2 |-> s[m + k]]
  BY Cut
<1> DEFINE f(k) == s[m + k]
<1>2. [k \in 1 .. 2 |-> f(k)] = <<f(1), f(2)>>
  OBVIOUS
<1> QED
  BY <1>1, <1>2, Zenon

LEMMA Ready ==
  ASSUME Inv, Placed, Take, Cols % 4 = 0
  PROVE  /\ RowOK /\ LineRange /\ words \in Nat /\ Len(dots) \in Nat /\ i \in Nat
         /\ Piece(dots, Len(dots))
         /\ \A k \in 1 .. Len(dots) : dots[k] = Content(Weight(renderer) * words + k - 1)
         /\ Weight(renderer) * Chunk(renderer) <= Len(dots)
         /\ words % Chunk(renderer) = 0
         /\ Weight(renderer) * words + Len(dots) = Ahead(renderer) + Rate(renderer) * i
         /\ renderer # "hires" => i <= Cols
         /\ renderer = "hires" => Len(dots) >= 8
         /\ renderer \in {"dgr_interp", "dhgr_interp"} => Len(dots) >= 8 \/ i = Cols
<1> DEFINE n == Len(dots)
<1>1. /\ RowOK /\ phase = "take" /\ TakesMore /\ dots \in Seq(Dots)
      /\ renderer \in Renderers /\ Counts(renderer, "take", i, n, words)
      /\ LineRange /\ InPlace(dots, Position)
  BY DEF Inv, Take, RowOK, Placed
<1>2. LoopIs(renderer, Loop)
  BY <1>1, LoopNumbers
<1>3. TakesAt(renderer, Loop, i, n)
  BY <1>1, LastIs DEF TakesMore, TakesAt
<1>4. Loop.take <= n
  BY <1>1, <1>2, <1>3, TakeCounts, Zenon
<1>5. Loop.take = Weight(renderer) * Chunk(renderer)
  BY <1>1, <1>2, TakenDots
<1>6. n \in Nat /\ words \in Nat /\ i \in Nat /\ n <= 32
  BY <1>1, CountsRange
<1>7. /\ words % Chunk(renderer) = 0 /\ i \in 0 .. LastOf(renderer)
      /\ Weight(renderer) * words + n = Ahead(renderer) + Rate(renderer) * i
  BY <1>1 DEF Counts, Books
<1>8. renderer # "hires" => i <= Cols
  BY <1>7, ScanlineAssumption DEF LastOf
<1>9. renderer = "hires" => n >= 8
  BY <1>2, <1>3, <1>6 DEF LoopIs, Bounds, TakesAt
<1>10. renderer \in {"dgr_interp", "dhgr_interp"} => n >= 8 \/ i = Cols
  BY <1>2, <1>3, <1>6 DEF LoopIs, Bounds, TakesAt, LastOf
<1>11. \A k \in 1 .. n : dots[k] = Content(Weight(renderer) * words + k - 1)
  BY <1>1 DEF InPlace, Position
<1> QED
  BY <1>1, <1>4, <1>5, <1>6, <1>7, <1>8, <1>9, <1>10, <1>11 DEF Piece

\* The word number words of the line is the first that is taken.
TakenRight == \A n \in 1 .. Len(Taken) : Taken[n] = AppleWord(words + n - 1)

LEMMA OneRight ==
  ASSUME words \in Nat, Taken = <<AppleWord(words)>>
  PROVE  TakenRight
<1>1. words + 1 - 1 = words
  OBVIOUS
<1> QED
  BY <1>1 DEF TakenRight

LEMMA TwoRight ==
  ASSUME words \in Nat, Taken = <<AppleWord(words), AppleWord(words + 1)>>
  PROVE  TakenRight
<1>1. words + 1 - 1 = words /\ words + 2 - 1 = words + 1
  OBVIOUS
<1>2. Len(Taken) = 2 /\ Taken[1] = AppleWord(words) /\ Taken[2] = AppleWord(words + 1)
  OBVIOUS
<1> QED
  BY <1>1, <1>2 DEF TakenRight

LEMMA OneDotRight ==
  ASSUME Inv, Placed, Take, Cols % 4 = 0, renderer \in OneDotWords
  PROVE  TakenRight
<1>1. words \in Nat /\ dots[1] = Content(words)
  <2>1. Weight(renderer) = 1 /\ Chunk(renderer) = 1
    BY DEF Weight, Chunk, OneDotWords
  <2>2. words \in Nat /\ Len(dots) \in Nat /\ 1 <= Len(dots)
    BY <2>1, Ready
  <2>3. dots[1] = Content(Weight(renderer) * words + 1 - 1)
    BY <2>2, Ready
  <2>4. Weight(renderer) * words + 1 - 1 = words
    BY <2>1, <2>2
  <2> QED
    BY <2>2, <2>3, <2>4
<1>2. CASE renderer = "text40"
  <2>1. Taken = <<Pair(dots[1])>>
    BY <1>2, Zenon DEF Taken
  <2>2. Content(words) = MemoryBit("main", words \div 7, words % 7)
    BY <1>2 DEF Content
  <2> QED
    BY <1>1, <1>2, <2>1, <2>2, WordIs, OneRight
<1>3. CASE renderer \in {"color_text40", "dhgr_fb"}
  <2>1. Taken = <<dots[1]>>
    BY <1>3, Zenon DEF Taken
  <2>2. Content(words) = <<<<"main", LineAddress + (words \div 7), words % 7>>,
                           <<"aux", LineAddress + (words \div 7)>>>>
    BY <1>3 DEF Content
  <2> QED
    BY <1>1, <1>3, <2>1, <2>2, WordIs, OneRight
<1> QED
  BY <1>2, <1>3 DEF OneDotWords

LEMMA TwoDots ==
  ASSUME Inv, Placed, Take, Cols % 4 = 0,
         renderer \in {"text80", "lores", "lores_mono", "dgr", "dgr_mono",
                       "hires_mono", "dhgr_mono"}
  PROVE  /\ words \in Nat
         /\ Taken = <<<<Content(2 * words), Content(2 * words + 1)>>>>
<1>1. Weight(renderer) = 2 /\ Chunk(renderer) = 1
  BY DEF Weight, Chunk, OneDotWords
<1>2. words \in Nat /\ Len(dots) \in Nat /\ 2 <= Len(dots) /\ Piece(dots, Len(dots))
  BY <1>1, Ready
<1>3. \A k \in 1 .. Len(dots) : dots[k] = Content(2 * words + k - 1)
  BY <1>1, Ready
<1>4. dots[1] = Content(2 * words) /\ dots[2] = Content(2 * words + 1)
  <2>1. 2 * words + 1 - 1 = 2 * words /\ 2 * words + 2 - 1 = 2 * words + 1
        /\ 1 \in 1 .. Len(dots) /\ 2 \in 1 .. Len(dots)
    BY <1>2
  <2> QED
    BY <1>3, <2>1
<1>5. SubSeq(dots, 1, 2) = <<dots[1], dots[2]>>
  <2>1. SubSeq(dots, 0 + 1, 0 + 2) = <<dots[0 + 1], dots[0 + 2]>>
    BY <1>2, CutPair
  <2>2. 0 + 1 = 1 /\ 0 + 2 = 2
    OBVIOUS
  <2> QED
    BY <2>1, <2>2, Zenon
<1>6. Taken = <<SubSeq(dots, 1, 2)>>
  BY Zenon DEF Taken
<1> QED
  BY <1>2, <1>4, <1>5, <1>6, Zenon

LEMMA TwoDotsRight ==
  ASSUME Inv, Placed, Take, Cols % 4 = 0,
         renderer \in {"text80", "lores", "lores_mono", "dgr", "dgr_mono",
                       "hires_mono", "dhgr_mono"}
  PROVE  TakenRight
<1> DEFINE w == words
<1>1. w \in Nat /\ Taken = <<<<Content(2 * w), Content(2 * w + 1)>>>>
  BY TwoDots
<1>2. CASE renderer = "lores"
  <2>1. (2 * w) \div 14 = w \div 7 /\ (2 * w + 1) \div 14 = w \div 7
    BY <1>1
  <2> DEFINE c == [k \in 1 .. 4 |-> <<"main", LineAddress + (w \div 7), nibble + k - 1>>]
  <2>2. Content(2 * w) = c /\ Content(2 * w + 1) = c
    BY <1>2, <2>1 DEF Content
  <2>3. AppleWord(w) = Pair(c)
    BY <1>2, WordIs
  <2> HIDE DEF c
  <2> QED
    BY <1>1, <2>2, <2>3, OneRight DEF Pair
<1>3. CASE renderer = "dgr"
  <2>1. Content(2 * w) = CellColor(2 * w) /\ Content(2 * w + 1) = CellColor(2 * w + 1)
    BY <1>3 DEF Content
  <2>2. AppleWord(w) = <<CellColor(2 * w), CellColor(2 * w + 1)>>
    BY <1>3, WordIs
  <2> QED
    BY <1>1, <2>1, <2>2, OneRight
<1>4. CASE renderer \in {"text80", "lores_mono", "dgr_mono", "hires_mono", "dhgr_mono"}
  <2>1. Content(2 * w) = Dot(2 * w) /\ Content(2 * w + 1) = Dot(2 * w + 1)
    BY <1>4 DEF Content
  <2>2. AppleWord(w) = <<Dot(2 * w), Dot(2 * w + 1)>>
    BY <1>4, WordIs
  <2> QED
    BY <1>1, <2>1, <2>2, OneRight
<1> QED
  BY <1>2, <1>3, <1>4

LEMMA HiresRight ==
  ASSUME Inv, Placed, Take, Cols % 4 = 0, renderer = "hires"
  PROVE  TakenRight
<1> DEFINE w == words
           s == SubSeq(dots, 1, 8)
<1>1. Weight(renderer) = 2
  BY DEF Weight, OneDotWords
<1>2. w \in Nat /\ Len(dots) \in Nat /\ 8 <= Len(dots) /\ Piece(dots, Len(dots))
  BY Ready
<1>3. \A k \in 1 .. Len(dots) : dots[k] = Content(2 * w + k - 1)
  BY <1>1, Ready
<1>4. s = [k \in 1 .. 8 |-> dots[k]]
  <2>1. SubSeq(dots, 0 + 1, 0 + 8) = [k \in 1 .. 8 |-> dots[0 + k]]
    BY <1>2, Cut
  <2>2. 0 + 1 = 1 /\ 0 + 8 = 8 /\ \A k \in 1 .. 8 : 0 + k = k
    OBVIOUS
  <2> QED
    BY <2>1, <2>2
<1>5. ASSUME NEW k \in 1 .. 8
      PROVE  dots[k] = ColorHiresDot(2 * w - 4 + k)
  <2>1. k \in 1 .. Len(dots) /\ (2 * w + k - 1) - 3 = 2 * w - 4 + k
    BY <1>2
  <2>2. Content(2 * w + k - 1) = ColorHiresDot((2 * w + k - 1) - 3)
    BY DEF Content
  <2> QED
    BY <1>3, <2>1, <2>2
<1> HIDE DEF s
<1>6. s = [k \in 1 .. 8 |-> ColorHiresDot(2 * w - 4 + k)]
  BY <1>4, <1>5
<1>7. Taken = <<<<w % 2, s>>>>
  BY Zenon DEF Taken, s
<1>8. AppleWord(w) = <<w % 2, [k \in 1 .. 8 |-> ColorHiresDot(2 * w - 4 + k)]>>
  BY WordIs
<1> QED
  BY <1>2, <1>6, <1>7, <1>8, OneRight, Zenon

\* A group of four dots, as a cell.
LEMMA CellIs ==
  ASSUME Inv, Placed, Take, Cols % 4 = 0, Weight(renderer) = 2,
         NEW m \in Nat, m + 4 <= Len(dots)
  PROVE  SubSeq(dots, m + 1, m + 4) = [k \in 1 .. 4 |-> Content(2 * words + m + k - 1)]
<1>1. words \in Nat /\ Len(dots) \in Nat /\ Piece(dots, Len(dots))
  BY Ready
<1>2. \A k \in 1 .. Len(dots) : dots[k] = Content(2 * words + k - 1)
  BY Ready
<1>3. SubSeq(dots, m + 1, m + 4) = [k \in 1 .. 4 |-> dots[m + k]]
  BY <1>1, Cut
<1>4. ASSUME NEW k \in 1 .. 4
      PROVE  dots[m + k] = Content(2 * words + m + k - 1)
  <2>1. m + k \in 1 .. Len(dots) /\ 2 * words + (m + k) - 1 = 2 * words + m + k - 1
    BY <1>1
  <2> QED
    BY <1>2, <2>1
<1> QED
  BY <1>3, <1>4

\* The four words of two cells.
LEMMA TwoCells ==
  ASSUME Inv, Placed, Take, Cols % 4 = 0, renderer \in {"dhgr", "dhgr_160"}
  PROVE  \E h \in Nat :
           /\ words = 4 * h /\ Len(Taken) = 4
           /\ 8 * h + Len(dots) = Rate(renderer) * i
           /\ 8 <= Len(dots) /\ i \in 0 .. Cols
           /\ \A k \in 1 .. 4 :
                Taken[k] = Pair([j \in 1 .. 4 |->
                                   Content(8 * h + 4 * ((k - 1) \div 2) + j - 1)])
<1>1. Weight(renderer) = 2 /\ Chunk(renderer) = 4 /\ Ahead(renderer) = 0
      /\ renderer # "hires"
  BY DEF Weight, Chunk, OneDotWords, Ahead
<1>2. /\ words \in Nat /\ words % 4 = 0 /\ Len(dots) \in Nat /\ 8 <= Len(dots)
      /\ i \in Nat /\ i <= Cols
      /\ 2 * words + Len(dots) = 0 + Rate(renderer) * i
  BY <1>1, Ready
<1>3. PICK h \in Nat : words = 4 * h
  <2>1. words = 4 * (words \div 4) /\ words \div 4 \in Nat
    BY <1>2
  <2> QED
    BY <2>1
<1>4. Taken = Cells(2)
  BY Zenon DEF Taken
<1>5. ASSUME NEW m \in {0, 4}
      PROVE  SubSeq(dots, m + 1, m + 4) = [j \in 1 .. 4 |-> Content(8 * h + m + j - 1)]
  <2>1. m \in Nat /\ m + 4 <= Len(dots)
    BY <1>2
  <2>2. SubSeq(dots, m + 1, m + 4) = [j \in 1 .. 4 |-> Content(2 * words + m + j - 1)]
    BY <1>1, <2>1, CellIs
  <2>3. \A j \in 1 .. 4 : 2 * words + m + j - 1 = 8 * h + m + j - 1
    BY <1>3
  <2> QED
    BY <2>2, <2>3
<1>6. Len(Taken) = 4
  BY <1>1, TakenLength DEF Renderers, HiresRenderers
<1>7. ASSUME NEW k \in 1 .. 4
      PROVE  Taken[k] = Pair([j \in 1 .. 4 |->
                                Content(8 * h + 4 * ((k - 1) \div 2) + j - 1)])
  <2> DEFINE m == 4 * ((k - 1) \div 2)
  <2>1. m \in {0, 4} /\ k \in 1 .. 2 * 2
    OBVIOUS
  <2>2. Taken[k] = Pair(SubSeq(dots, m + 1, m + 4))
    BY <1>4, <2>1 DEF Cells
  <2> HIDE DEF m
  <2>3. Taken[k] = Pair([j \in 1 .. 4 |-> Content(8 * h + m + j - 1)])
    BY <1>5, <2>1, <2>2
  <2> QED
    BY <2>3 DEF m
<1>8. 8 * h + Len(dots) = Rate(renderer) * i /\ i \in 0 .. Cols
  <2>1. Rate(renderer) \in Nat
    BY DEF Rate
  <2> QED
    BY <1>2, <1>3, <2>1
<1> QED
  BY <1>2, <1>3, <1>6, <1>7, <1>8

LEMMA DhgrRight ==
  ASSUME Inv, Placed, Take, Cols % 4 = 0, renderer = "dhgr"
  PROVE  TakenRight
<1>1. PICK h \in Nat :
        /\ words = 4 * h /\ Len(Taken) = 4
        /\ \A k \in 1 .. 4 :
             Taken[k] = Pair([j \in 1 .. 4 |->
                                Content(8 * h + 4 * ((k - 1) \div 2) + j - 1)])
  BY TwoCells
<1>2. ASSUME NEW k \in 1 .. 4
      PROVE  Taken[k] = AppleWord(words + k - 1)
  <2> DEFINE e == (k - 1) \div 2
             w == words + k - 1
  <2>1. e \in {0, 1} /\ w \div 2 = 2 * h + e /\ w \in Nat
    BY <1>1
  <2>2. Taken[k] = Pair([j \in 1 .. 4 |-> Content(8 * h + 4 * e + j - 1)])
    BY <1>1
  <2>3. AppleWord(w) = Pair(Group(w \div 2))
    BY WordIs
  <2> HIDE DEF e, w
  <2>4. Group(2 * h + e) = [j \in 1 .. 4 |-> Dot(4 * (2 * h + e) + j - 1)]
    BY DEF Group
  <2>5. ASSUME NEW j \in 1 .. 4
        PROVE  Content(8 * h + 4 * e + j - 1) = Dot(4 * (2 * h + e) + j - 1)
    <3>1. 8 * h + 4 * e + j - 1 = 4 * (2 * h + e) + j - 1
      BY <2>1
    <3>2. Content(8 * h + 4 * e + j - 1) = Dot(8 * h + 4 * e + j - 1)
      BY DEF Content
    <3> QED
      BY <3>1, <3>2
  <2>6. [j \in 1 .. 4 |-> Content(8 * h + 4 * e + j - 1)] = Group(2 * h + e)
    BY <2>4, <2>5
  <2>7. Taken[k] = AppleWord(w)
    BY <2>1, <2>2, <2>3, <2>6, Zenon
  <2> QED
    BY <2>7 DEF w
<1> QED
  BY <1>1, <1>2 DEF TakenRight

LEMMA Dhgr160Right ==
  ASSUME Inv, Placed, Take, Cols % 4 = 0, renderer = "dhgr_160"
  PROVE  TakenRight
<1>1. PICK h \in Nat :
        /\ words = 4 * h /\ Len(Taken) = 4
        /\ \A k \in 1 .. 4 :
             Taken[k] = Pair([j \in 1 .. 4 |->
                                Content(8 * h + 4 * ((k - 1) \div 2) + j - 1)])
  BY TwoCells
<1>2. ASSUME NEW k \in 1 .. 4
      PROVE  Taken[k] = AppleWord(words + k - 1)
  <2> DEFINE e == (k - 1) \div 2
             w == words + k - 1
             b == IF h % 2 = 0 THEN "aux" ELSE "main"
  <2>0. e \in {0, 1} /\ w \in Nat
    BY <1>1
  <2>1. /\ (w \div 2) % 2 = e /\ w \div 8 = h \div 2
        /\ (w \div 2) % 4 < 2 <=> h % 2 = 0
    <3>1. w \div 2 = 2 * h + e
      BY <1>1
    <3>2. w \div 8 = h \div 2
      BY <1>1
    <3> HIDE DEF e, w
    <3> QED
      BY <2>0, <3>1, <3>2
  <2>2. Taken[k] = Pair([j \in 1 .. 4 |-> Content(8 * h + 4 * e + j - 1)])
    BY <1>1
  <2>3. AppleWord(w) = Pair([j \in 1 .. 4 |->
                        MemoryBit(IF (w \div 2) % 4 < 2 THEN "aux" ELSE "main", w \div 8,
                                  4 * ((w \div 2) % 2) + j - 1)])
    BY WordIs
  <2> HIDE DEF e, w
  <2>4. AppleWord(w) = Pair([j \in 1 .. 4 |-> MemoryBit(b, h \div 2, 4 * e + j - 1)])
    BY <2>1, <2>3
  <2>5. ASSUME NEW j \in 1 .. 4
        PROVE  Content(8 * h + 4 * e + j - 1) = MemoryBit(b, h \div 2, 4 * e + j - 1)
    <3> DEFINE d == 8 * h + 4 * e + j - 1
    <3>1. /\ d % 16 < 8 <=> h % 2 = 0
          /\ d \div 16 = h \div 2 /\ d % 8 = 4 * e + j - 1
      BY <2>0
    <3> HIDE DEF d
    <3>2. Content(d) = MemoryBit(IF d % 16 < 8 THEN "aux" ELSE "main", d \div 16, d % 8)
      BY DEF Content
    <3> QED
      BY <3>1, <3>2 DEF d
  <2>6. Taken[k] = AppleWord(w)
    <3>1. [j \in 1 .. 4 |-> Content(8 * h + 4 * e + j - 1)]
            = [j \in 1 .. 4 |-> MemoryBit(b, h \div 2, 4 * e + j - 1)]
      BY <2>5
    <3> QED
      BY <2>2, <2>4, <3>1, Zenon
  <2> QED
    BY <2>6 DEF w
<1> QED
  BY <1>1, <1>2 DEF TakenRight

\* Four dots are colored when one of them is of a byte with bit 7 set.
LEMMA ColoredIs ==
  ASSUME Inv, Placed, renderer = "dhgr_mixed", NEW h \in Nat, 4 * h + 4 <= 14 * Cols
  PROVE  Colored(Group(h)) <=>
           \E d \in 4 * h .. 4 * h + 3 : <<BankOf(d), d \div 14>> \in high
<1> DEFINE s == Group(h)
           is(d) == <<BankOf(d), d \div 14>> \in high
<1>1. address = LineAddress /\ address \in Nat
  BY AddressIs, AddressOK DEF Inv, Placed
<1>2. ASSUME NEW d \in 4 * h .. 4 * h + 3
      PROVE  (\E b \in Dot(d) : <<b[1], b[2] - address>> \in high) <=> is(d)
  <2>1. d \in Int /\ d \in 0 .. 14 * Cols - 1
    BY ScanlineAssumption
  <2>2. Dot(d) = {<<BankOf(d), LineAddress + (d \div 14), d % 7>>}
    <3>1. Dot(d) = MemoryBit(BankOf(d), d \div 14, d % 7)
      BY <2>1, DotIs
    <3> QED
      BY <3>1 DEF MemoryBit
  <2> DEFINE x == <<BankOf(d), LineAddress + (d \div 14), d % 7>>
  <2>3. (LineAddress + (d \div 14)) - address = d \div 14
    BY <1>1, <2>1
  <2>4. x[1] = BankOf(d) /\ x[2] - address = d \div 14
    BY <2>3
  <2> HIDE DEF x
  <2>5. Dot(d) = {x}
    BY <2>2 DEF x
  <2>6. (\E b \in Dot(d) : <<b[1], b[2] - address>> \in high)
          <=> <<x[1], x[2] - address>> \in high
    BY <2>5, Zenon
  <2> QED
    BY <2>4, <2>6
<1>3. Len(s) = 4 /\ \A k \in 1 .. 4 : s[k] = Dot(4 * h + k - 1)
  BY DEF Group
<1> HIDE DEF s, is
<1>4. Colored(s) <=> \E k \in 1 .. 4 : \E b \in s[k] : <<b[1], b[2] - address>> \in high
  BY <1>3 DEF Colored
<1>5. Colored(s) => \E d \in 4 * h .. 4 * h + 3 : is(d)
  <2> SUFFICES ASSUME Colored(s) PROVE \E d \in 4 * h .. 4 * h + 3 : is(d)
    OBVIOUS
  <2>1. PICK k \in 1 .. 4 : \E b \in s[k] : <<b[1], b[2] - address>> \in high
    BY <1>4
  <2>2. 4 * h + k - 1 \in 4 * h .. 4 * h + 3
    OBVIOUS
  <2>3. \E b \in Dot(4 * h + k - 1) : <<b[1], b[2] - address>> \in high
    BY <1>3, <2>1
  <2>4. is(4 * h + k - 1)
    BY <1>2, <2>2, <2>3, Zenon
  <2> QED
    BY <2>2, <2>4
<1>6. ASSUME NEW d \in 4 * h .. 4 * h + 3, is(d)
      PROVE  Colored(s)
  <2> DEFINE k == d - 4 * h + 1
  <2>1. k \in 1 .. 4 /\ 4 * h + k - 1 = d
    OBVIOUS
  <2> HIDE DEF k
  <2>2. s[k] = Dot(d)
    BY <1>3, <2>1
  <2>3. \E b \in s[k] : <<b[1], b[2] - address>> \in high
    BY <1>2, <1>6, <2>2
  <2> QED
    BY <1>4, <2>1, <2>3
<1> QED
  BY <1>5, <1>6 DEF s, is

LEMMA MixedRight ==
  ASSUME Inv, Placed, Take, Cols % 4 = 0, renderer = "dhgr_mixed"
  PROVE  TakenRight
<1> DEFINE s == SubSeq(dots, 1, 4)
<1>1. Weight(renderer) = 2 /\ Chunk(renderer) = 2 /\ Ahead(renderer) = 0
      /\ Rate(renderer) = 14
  BY DEF Weight, Chunk, OneDotWords, Ahead, Rate
<1>2. /\ words \in Nat /\ words % 2 = 0 /\ Len(dots) \in Nat /\ 4 <= Len(dots)
      /\ i \in Nat /\ i <= Cols /\ 2 * words + Len(dots) = 14 * i
  BY <1>1, Ready
<1>3. PICK h \in Nat : words = 2 * h
  <2>1. words = 2 * (words \div 2) /\ words \div 2 \in Nat
    BY <1>2
  <2> QED
    BY <2>1
<1>4. 4 * h + 4 <= 14 * Cols
  BY <1>2, <1>3, ScanlineAssumption
<1>5. \A d \in Int : Content(d) = Dot(d)
  BY DEF Content
<1>6. s = Group(h)
  <2>1. SubSeq(dots, 0 + 1, 0 + 4) = [k \in 1 .. 4 |-> Content(2 * words + 0 + k - 1)]
    <3>1. 0 \in Nat /\ 0 + 4 <= Len(dots)
      BY <1>2
    <3> QED
      BY <1>1, <3>1, CellIs, Zenon
  <2>2. \A k \in 1 .. 4 : 2 * words + 0 + k - 1 = 4 * h + k - 1 /\ 4 * h + k - 1 \in Int
    BY <1>3
  <2>3. [k \in 1 .. 4 |-> Content(2 * words + 0 + k - 1)] = [k \in 1 .. 4 |-> Dot(4 * h + k - 1)]
    BY <1>5, <2>2
  <2>4. 0 + 1 = 1 /\ 0 + 4 = 4
    OBVIOUS
  <2> QED
    BY <2>1, <2>3, <2>4, Zenon DEF Group
<1>7. Taken = IF Colored(s) THEN Cells(1) ELSE <<SubSeq(dots, 1, 2), SubSeq(dots, 3, 4)>>
  BY Zenon DEF Taken
<1> DEFINE c == \E d \in 4 * h .. 4 * h + 3 : <<BankOf(d), d \div 14>> \in high
<1>8. Colored(s) <=> c
  BY <1>4, <1>6, ColoredIs
<1>9. /\ AppleWord(words) = IF c THEN Pair(Group(h)) ELSE <<Dot(4 * h), Dot(4 * h + 1)>>
      /\ AppleWord(words + 1) = IF c THEN Pair(Group(h)) ELSE <<Dot(4 * h + 2), Dot(4 * h + 3)>>
  <2> DEFINE v == words + 1
             e(x) == \E d \in 4 * (x \div 2) .. 4 * (x \div 2) + 3 :
                       <<BankOf(d), d \div 14>> \in high
  <2>1. /\ words \div 2 = h /\ 2 * words = 4 * h /\ 2 * words + 1 = 4 * h + 1
        /\ v \div 2 = h /\ 2 * v = 4 * h + 2 /\ 2 * v + 1 = 4 * h + 3
    BY <1>3
  <2> HIDE DEF v
  <2>2. /\ AppleWord(words) = IF e(words) THEN Pair(Group(words \div 2))
                              ELSE <<Dot(2 * words), Dot(2 * words + 1)>>
        /\ AppleWord(v) = IF e(v) THEN Pair(Group(v \div 2)) ELSE <<Dot(2 * v), Dot(2 * v + 1)>>
    BY WordIs, Zenon
  <2>3. (e(words) <=> c) /\ (e(v) <=> c)
    BY <2>1, Zenon
  <2> HIDE DEF c, e
  <2> QED
    BY <2>1, <2>2, <2>3, Zenon DEF v
<1> HIDE DEF c
<1>10. CASE c
  <2>1. Taken = Cells(1)
    BY <1>7, <1>8, <1>10
  <2>2. ASSUME NEW k \in 1 .. 2
        PROVE  Taken[k] = Pair(s)
    <3>1. (k - 1) \div 2 = 0 /\ k \in 1 .. 2 * 1
      OBVIOUS
    <3>2. Taken[k] = Pair(SubSeq(dots, 4 * ((k - 1) \div 2) + 1, 4 * ((k - 1) \div 2) + 4))
      BY <2>1, <3>1 DEF Cells
    <3>3. 4 * ((k - 1) \div 2) + 1 = 1 /\ 4 * ((k - 1) \div 2) + 4 = 4
      BY <3>1
    <3> QED
      BY <3>2, <3>3, Zenon
  <2>3. Len(Taken) = 2
    BY <1>1, TakenLength DEF Renderers, HiresRenderers
  <2>4. Taken[1] = AppleWord(words) /\ Taken[2] = AppleWord(words + 1)
    <3>1. Taken[1] = Pair(s) /\ Taken[2] = Pair(s)
      BY <2>2
    <3> QED
      BY <1>6, <1>9, <1>10, <3>1, Zenon
  <2>5. words + 1 - 1 = words /\ words + 2 - 1 = words + 1
    BY <1>2
  <2> QED
    BY <2>3, <2>4, <2>5 DEF TakenRight
<1>11. CASE ~ c
  <2>1. Taken = <<SubSeq(dots, 1, 2), SubSeq(dots, 3, 4)>>
    BY <1>7, <1>8, <1>11
  <2>2. ASSUME NEW m \in {0, 2}
        PROVE  SubSeq(dots, m + 1, m + 2) = <<Dot(4 * h + m), Dot(4 * h + m + 1)>>
    <3>1. m \in Nat /\ m + 2 <= Len(dots) /\ m + 1 \in 1 .. Len(dots) /\ m + 2 \in 1 .. Len(dots)
      BY <1>2
    <3>2. SubSeq(dots, m + 1, m + 2) = <<dots[m + 1], dots[m + 2]>>
      BY <1>2, <3>1, Ready, CutPair
    <3>3. \A k \in 1 .. Len(dots) : dots[k] = Content(2 * words + k - 1)
      BY <1>1, Ready
    <3>4. /\ 2 * words + (m + 1) - 1 = 4 * h + m /\ 2 * words + (m + 2) - 1 = 4 * h + m + 1
          /\ 4 * h + m \in Int /\ 4 * h + m + 1 \in Int
      BY <1>3
    <3>5. dots[m + 1] = Content(4 * h + m) /\ dots[m + 2] = Content(4 * h + m + 1)
      BY <3>1, <3>3, <3>4
    <3> QED
      BY <1>5, <3>2, <3>4, <3>5
  <2>3. /\ SubSeq(dots, 1, 2) = <<Dot(4 * h), Dot(4 * h + 1)>>
        /\ SubSeq(dots, 3, 4) = <<Dot(4 * h + 2), Dot(4 * h + 3)>>
    <3>1. /\ SubSeq(dots, 0 + 1, 0 + 2) = <<Dot(4 * h + 0), Dot(4 * h + 0 + 1)>>
          /\ SubSeq(dots, 2 + 1, 2 + 2) = <<Dot(4 * h + 2), Dot(4 * h + 2 + 1)>>
      BY <2>2
    <3>2. /\ 0 + 1 = 1 /\ 0 + 2 = 2 /\ 2 + 1 = 3 /\ 2 + 2 = 4 /\ 4 * h + 0 = 4 * h
          /\ 4 * h + 0 + 1 = 4 * h + 1 /\ 4 * h + 2 + 1 = 4 * h + 3
      OBVIOUS
    <3> QED
      BY <3>1, <3>2, Zenon
  <2>4. Taken = <<AppleWord(words), AppleWord(words + 1)>>
    BY <1>9, <1>11, <2>1, <2>3, Zenon
  <2> QED
    BY <1>2, <2>4, TwoRight
<1> QED
  BY <1>10, <1>11

\* Four dots from any one on, by the phases of the color.
LEMMA PhasesAre ==
  ASSUME NEW q \in Int, NEW j \in 0 .. 4
  PROVE  Phases(4 * q + j) =
           [k \in 1 .. 4 |-> IF k <= j THEN Dot(4 * q + (k + 4) - 1) ELSE Dot(4 * q + k - 1)]
<1> DEFINE n == 4 * q + j
           at(k) == IF k <= j THEN 4 * q + (k + 4) - 1 ELSE 4 * q + k - 1
<1>1. ASSUME NEW k \in 1 .. 4
      PROVE  (CHOOSE d \in n .. n + 3 : d % 4 = k - 1) = at(k)
  <2>1. at(k) \in n .. n + 3
    OBVIOUS
  <2>2. \A m \in Int : (4 * m + (k - 1)) % 4 = k - 1
    OBVIOUS
  <2>3. at(k) = 4 * q + (k - 1) \/ at(k) = 4 * (q + 1) + (k - 1)
    OBVIOUS
  <2>4. at(k) % 4 = k - 1
    BY <2>2, <2>3
  <2>5. ASSUME NEW d \in n .. n + 3, d % 4 = k - 1
        PROVE  d = at(k)
    <3> DEFINE m == d \div 4
    <3>1. d = 4 * m + (k - 1) /\ m \in Int
      BY <2>5
    <3> HIDE DEF m
    <3>2. d >= 4 * q + j /\ d <= 4 * q + j + 3
      OBVIOUS
    <3>3. m >= q /\ m <= q + 1
      BY <3>1, <3>2
    <3>4. m = q \/ m = q + 1
      BY <3>1, <3>3
    <3>5. CASE k <= j
      <4>1. m = q + 1
        BY <3>1, <3>2, <3>4, <3>5
      <4> QED
        BY <3>1, <3>5, <4>1
    <3>6. CASE ~ (k <= j)
      <4>1. m = q
        BY <3>1, <3>2, <3>4, <3>6
      <4> QED
        BY <3>1, <3>6, <4>1
    <3> QED
      BY <3>5, <3>6
  <2> HIDE DEF n, at
  <2> QED
    BY <2>1, <2>4, <2>5
<1>2. Phases(n) = [k \in 1 .. 4 |-> Dot(CHOOSE d \in n .. n + 3 : d % 4 = k - 1)]
  BY Zenon DEF Phases
<1> HIDE DEF n
<1>3. Phases(n) = [k \in 1 .. 4 |-> Dot(at(k))]
  BY <1>1, <1>2
<1>4. \A k \in 1 .. 4 : Dot(at(k)) = IF k <= j THEN Dot(4 * q + (k + 4) - 1)
                                    ELSE Dot(4 * q + k - 1)
  OBVIOUS
<1> HIDE DEF at
<1> QED
  BY <1>3, <1>4 DEF n

\* The first j dots of t are those that follow the window in s.
Window(s, j)      == [k \in 1 .. 4 |-> IF k <= j THEN s[k + 4] ELSE s[k]]
Moved(t, s, n, j) == /\ Piece(t, n)
                     /\ \A k \in 1 .. n : t[k] = IF k <= j THEN s[k + 4] ELSE s[k]

LEMMA MovedCut ==
  ASSUME NEW s, NEW t, NEW n \in Nat, n >= 8, NEW j \in 0 .. 3, Moved(t, s, n, j)
  PROVE  SubSeq(t, 1, 4) = Window(s, j)
<1>1. SubSeq(t, 0 + 1, 0 + 4) = [k \in 1 .. 4 |-> t[0 + k]]
  BY Cut DEF Moved
<1>2. \A k \in 1 .. 4 : t[0 + k] = IF k <= j THEN s[k + 4] ELSE s[k]
  <2> TAKE k \in 1 .. 4
  <2>1. k \in 1 .. n /\ 0 + k = k
    OBVIOUS
  <2>2. t[k] = IF k <= j THEN s[k + 4] ELSE s[k]
    BY <2>1, Zenon DEF Moved
  <2> QED
    BY <2>1, <2>2
<1>3. 0 + 1 = 1 /\ 0 + 4 = 4
  OBVIOUS
<1>4. [k \in 1 .. 4 |-> t[0 + k]] = Window(s, j)
  BY <1>2 DEF Window
<1> QED
  BY <1>1, <1>3, <1>4, Zenon

LEMMA Replaced ==
  ASSUME NEW s, NEW n \in Nat, Piece(s, n), NEW m \in 1 .. n, NEW y \in Dots
  PROVE  /\ Piece([s EXCEPT ![m] = y], n)
         /\ \A k \in 1 .. n : [s EXCEPT ![m] = y][k] = IF k = m THEN y ELSE s[k]
<1>1. s \in Seq(Dots) /\ Len(s) = n
  BY DEF Piece
<1>2. DOMAIN s = 1 .. n /\ \A k \in 1 .. n : s[k] \in Dots
  BY <1>1, ElementOfSeq, LenProperties
<1> DEFINE e == [k \in 1 .. n |-> IF k = m THEN y ELSE s[k]]
<1>3. [s EXCEPT ![m] = y] = e
  BY <1>1, <1>2
<1>4. \A k \in 1 .. n : (IF k = m THEN y ELSE s[k]) \in Dots
  BY <1>2
<1>5. e \in Seq(Dots) /\ Len(e) = n
  BY <1>4
<1>6. \A k \in 1 .. n : e[k] = IF k = m THEN y ELSE s[k]
  OBVIOUS
<1> HIDE DEF e
<1> QED
  BY <1>3, <1>5, <1>6 DEF Piece

LEMMA SlideIs ==
  ASSUME NEW seq, NEW s, s = Pad(seq, 8), NEW n \in Nat, n >= 8, Piece(s, n)
  PROVE  Slide(seq) = <<<<Window(s, 1), Window(s, 2)>>, <<Window(s, 3), Window(s, 4)>>>>
<1> DEFINE one   == [s EXCEPT ![1] = s[5]]
           two   == [one EXCEPT ![1] = one[5], ![2] = one[6]]
           three == [two EXCEPT ![1] = two[5], ![2] = two[6], ![3] = two[7]]
<1>0. /\ s \in Seq(Dots) /\ Len(s) = n /\ \A k \in 1 .. 8 : k \in 1 .. n /\ s[k] \in Dots
  <2>1. s \in Seq(Dots) /\ Len(s) = n
    BY DEF Piece
  <2>2. \A k \in 1 .. 8 : k \in 1 .. n
    OBVIOUS
  <2> QED
    BY <2>1, <2>2, ElementOfSeq
<1>1. Slide(seq) = <<<<SubSeq(one, 1, 4), SubSeq(two, 1, 4)>>,
                     <<SubSeq(three, 1, 4), SubSeq(three, 5, 8)>>>>
  BY Zenon DEF Slide
<1>2. Moved(one, s, n, 1)
  <2>1. /\ Piece(one, n)
        /\ \A k \in 1 .. n : one[k] = IF k = 1 THEN s[5] ELSE s[k]
    BY <1>0, Replaced, SMTT(30)
  <2> HIDE DEF one
  <2>2. \A k \in 1 .. n : one[k] = IF k <= 1 THEN s[k + 4] ELSE s[k]
    BY <2>1
  <2> QED
    BY <2>1, <2>2 DEF Moved
<1> HIDE DEF one
<1>3. Moved(two, s, n, 2)
  <2> DEFINE a == [one EXCEPT ![1] = one[5]]
             b == [a EXCEPT ![2] = one[6]]
  <2>1. one[5] = s[5] /\ one[6] = s[6] /\ Piece(one, n)
        /\ \A k \in 1 .. n : one[k] = IF k <= 1 THEN s[k + 4] ELSE s[k]
    BY <1>0, <1>2 DEF Moved
  <2>2. /\ Piece(a, n)
        /\ \A k \in 1 .. n : a[k] = IF k = 1 THEN one[5] ELSE one[k]
    BY <1>0, <2>1, Replaced, SMTT(30)
  <2>3. two = b
    BY DEF two
  <2> HIDE DEF a, two
  <2>4. /\ Piece(b, n)
        /\ \A k \in 1 .. n : b[k] = IF k = 2 THEN one[6] ELSE a[k]
    BY <1>0, <2>1, <2>2, Replaced, SMTT(30)
  <2> HIDE DEF b
  <2>5. \A k \in 1 .. n : two[k] = IF k <= 2 THEN s[k + 4] ELSE s[k]
    BY <2>1, <2>2, <2>3, <2>4
  <2> QED
    BY <2>3, <2>4, <2>5 DEF Moved
<1> HIDE DEF two
<1>4. Moved(three, s, n, 3)
  <2> DEFINE a == [two EXCEPT ![1] = two[5]]
             b == [a EXCEPT ![2] = two[6]]
             c == [b EXCEPT ![3] = two[7]]
  <2>1. two[5] = s[5] /\ two[6] = s[6] /\ two[7] = s[7] /\ Piece(two, n)
        /\ \A k \in 1 .. n : two[k] = IF k <= 2 THEN s[k + 4] ELSE s[k]
    BY <1>0, <1>3 DEF Moved
  <2>2. /\ Piece(a, n)
        /\ \A k \in 1 .. n : a[k] = IF k = 1 THEN two[5] ELSE two[k]
    BY <1>0, <2>1, Replaced, SMTT(30)
  <2>3. three = c
    BY DEF three
  <2> HIDE DEF a, three
  <2>4. /\ Piece(b, n)
        /\ \A k \in 1 .. n : b[k] = IF k = 2 THEN two[6] ELSE a[k]
    BY <1>0, <2>1, <2>2, Replaced, SMTT(30)
  <2> HIDE DEF b
  <2>5. /\ Piece(c, n)
        /\ \A k \in 1 .. n : c[k] = IF k = 3 THEN two[7] ELSE b[k]
    BY <1>0, <2>1, <2>4, Replaced, SMTT(30)
  <2> HIDE DEF c
  <2>6. \A k \in 1 .. n : three[k] = IF k <= 3 THEN s[k + 4] ELSE s[k]
    BY <2>1, <2>2, <2>3, <2>4, <2>5
  <2> QED
    BY <2>3, <2>5, <2>6 DEF Moved
<1> HIDE DEF three
<1>5. /\ SubSeq(one, 1, 4) = Window(s, 1) /\ SubSeq(two, 1, 4) = Window(s, 2)
      /\ SubSeq(three, 1, 4) = Window(s, 3)
  BY <1>2, <1>3, <1>4, MovedCut
<1>6. SubSeq(three, 5, 8) = Window(s, 4)
  <2>1. Piece(three, n) /\ \A k \in 1 .. n : three[k] = IF k <= 3 THEN s[k + 4] ELSE s[k]
    BY <1>4 DEF Moved
  <2>2. SubSeq(three, 4 + 1, 4 + 4) = [k \in 1 .. 4 |-> three[4 + k]]
    BY <2>1, Cut
  <2>3. \A k \in 1 .. 4 : three[4 + k] = s[k + 4] /\ k <= 4
    BY <1>0, <2>1
  <2>4. 4 + 1 = 5 /\ 4 + 4 = 8
    OBVIOUS
  <2>5. [k \in 1 .. 4 |-> three[4 + k]] = Window(s, 4)
    BY <2>3 DEF Window
  <2> QED
    BY <2>2, <2>4, <2>5, Zenon
<1> QED
  BY <1>1, <1>5, <1>6, Zenon

\* Behind the last dots of a row there are black ones.
LEMMA Padded ==
  ASSUME NEW s, NEW n \in Nat, Piece(s, n)
  PROVE  LET t == Pad(s, 8)
         IN  \E m \in Nat : /\ m >= 8 /\ Piece(t, m)
                            /\ \A k \in 1 .. 8 : t[k] = IF k <= n THEN s[k] ELSE Black
<1> DEFINE t == Pad(s, 8)
<1>1. CASE n >= 8
  <2>1. t = s
    BY <1>1 DEF Pad, Piece
  <2> QED
    BY <1>1, <2>1
<1>2. CASE ~ (n >= 8)
  <2> DEFINE b == Times(8 - n, Black)
  <2>1. t = s \o b /\ 8 - n \in Nat
    BY <1>2 DEF Pad, Piece
  <2>2. Piece(b, 8 - n) /\ \A k \in 1 .. 8 - n : b[k] = Black
    BY <2>1, DotOK, TimesOK DEF Piece, Times
  <2> HIDE DEF b
  <2>3. Piece(s \o b, n + (8 - n)) /\ Behind(s \o b, s, n, b, 8 - n)
    BY <2>1, <2>2, Joined, JoinedAt
  <2> HIDE DEF t
  <2>4. Piece(t, 8) /\ Behind(t, s, n, b, 8 - n)
    <3>1. n + (8 - n) = 8
      OBVIOUS
    <3> QED
      BY <2>1, <2>3, <3>1, Zenon
  <2>5. ASSUME NEW k \in 1 .. 8
        PROVE  t[k] = IF k <= n THEN s[k] ELSE Black
    <3>1. CASE k <= n
      <4>1. k \in 1 .. n
        BY <3>1
      <4> QED
        BY <2>4, <3>1, <4>1 DEF Behind
    <3>2. CASE ~ (k <= n)
      <4>1. k - n \in 1 .. 8 - n /\ n + (k - n) = k
        BY <3>2
      <4>2. t[n + (k - n)] = b[k - n]
        BY <2>4, <4>1, Zenon DEF Behind
      <4> QED
        BY <2>2, <3>2, <4>1, <4>2
    <3> QED
      BY <3>1, <3>2
  <2> QED
    BY <2>4, <2>5 DEF t
<1> QED
  BY <1>1, <1>2

LEMMA InterpRight ==
  ASSUME Inv, Placed, Take, Cols % 4 = 0, renderer \in {"dgr_interp", "dhgr_interp"}
  PROVE  TakenRight
<1> DEFINE n == Len(dots)
           a == Ahead(renderer)
           s == Pad(dots, 8)
<1>1. /\ Weight(renderer) = 2 /\ Chunk(renderer) = 2 /\ Rate(renderer) = 14
      /\ renderer = "dgr_interp" => a = 0
      /\ renderer = "dhgr_interp" => a = 4
  BY DEF Weight, Chunk, OneDotWords, Ahead, Rate
<1>2. /\ words \in Nat /\ words % 2 = 0 /\ n \in Nat /\ 4 <= n /\ Piece(dots, n)
      /\ i \in Nat /\ i <= Cols /\ 2 * words + n = a + 14 * i
      /\ n >= 8 \/ i = Cols
      /\ \A k \in 1 .. n : dots[k] = Content(2 * words + k - 1)
  <2>1. /\ Weight(renderer) * words + n = a + Rate(renderer) * i
        /\ words % Chunk(renderer) = 0 /\ Weight(renderer) * Chunk(renderer) <= n
        /\ words \in Nat /\ n \in Nat /\ i \in Nat /\ Piece(dots, n)
        /\ renderer # "hires" => i <= Cols
        /\ n >= 8 \/ i = Cols
    BY Ready, Zenon
  <2>2. \A k \in 1 .. n : dots[k] = Content(Weight(renderer) * words + k - 1)
    BY Ready
  <2> HIDE DEF n, a
  <2> QED
    BY <1>1, <2>1, <2>2
<1>3. PICK h \in Nat : words = 2 * h
  <2>1. words = 2 * (words \div 2) /\ words \div 2 \in Nat
    BY <1>2
  <2> QED
    BY <2>1
<1>4. PICK q \in Int : /\ renderer = "dgr_interp" => q = h
                       /\ renderer = "dhgr_interp" => q = h - 1
  <2>1. h \in Int /\ h - 1 \in Int
    OBVIOUS
  <2> QED
    BY <2>1
<1>5. 4 * h = a + 4 * q /\ a \in Nat
  BY <1>1, <1>4
<1> HIDE DEF n, a
<1>6. ASSUME NEW k \in 1 .. 8
      PROVE  Content(2 * words + k - 1) = Dot(4 * q + k - 1)
  <2>1. CASE renderer = "dgr_interp"
    <3>1. 2 * words + k - 1 = 4 * q + k - 1
      BY <1>3, <1>4, <2>1
    <3> QED
      BY <2>1, <3>1 DEF Content
  <2>2. CASE renderer = "dhgr_interp"
    <3>1. (2 * words + k - 1) - 4 = 4 * q + k - 1
      BY <1>3, <1>4, <2>2
    <3>2. Content(2 * words + k - 1) = Dot((2 * words + k - 1) - 4)
      BY <2>2 DEF Content
    <3> QED
      BY <3>1, <3>2
  <2> QED
    BY <2>1, <2>2
<1>7. PICK m \in Nat : /\ m >= 8 /\ Piece(s, m)
                       /\ \A k \in 1 .. 8 : s[k] = IF k <= n THEN dots[k] ELSE Black
  BY <1>2, Padded
<1> HIDE DEF s
<1>8. ASSUME NEW k \in 1 .. 8
      PROVE  s[k] = Dot(4 * q + k - 1)
  <2>1. CASE k <= n
    <3>1. k \in 1 .. n
      BY <2>1
    <3> QED
      BY <1>2, <1>6, <1>7, <2>1, <3>1
  <2>2. CASE ~ (k <= n)
    <3> DEFINE d == 4 * q + k - 1
    <3>1. i = Cols /\ n < k
      BY <1>2, <2>2
    <3>2. 4 * q + n = 14 * Cols
      BY <1>2, <1>3, <1>5, <3>1
    <3>3. d \in Int /\ ~ (d \in 0 .. 14 * Cols - 1)
      BY <1>2, <3>1, <3>2, ScanlineAssumption
    <3> HIDE DEF d
    <3>4. Dot(d) = Black
      BY <3>3, DotIs
    <3> QED
      BY <1>7, <2>2, <3>4 DEF d
  <2> QED
    BY <1>2, <2>1, <2>2
<1>9. ASSUME NEW j \in 1 .. 4
      PROVE  Window(s, j) = Phases(4 * q + j)
  <2>1. ASSUME NEW k \in 1 .. 4
        PROVE  (IF k <= j THEN s[k + 4] ELSE s[k])
                 = IF k <= j THEN Dot(4 * q + (k + 4) - 1) ELSE Dot(4 * q + k - 1)
    <3>1. k + 4 \in 1 .. 8 /\ k \in 1 .. 8
      OBVIOUS
    <3>2. s[k + 4] = Dot(4 * q + (k + 4) - 1) /\ s[k] = Dot(4 * q + k - 1)
      BY <1>8, <3>1
    <3> QED
      BY <3>2, Zenon
  <2>2. Phases(4 * q + j) = [k \in 1 .. 4 |-> IF k <= j THEN Dot(4 * q + (k + 4) - 1)
                                             ELSE Dot(4 * q + k - 1)]
    <3>1. j \in 0 .. 4
      OBVIOUS
    <3> QED
      BY <3>1, PhasesAre, Zenon
  <2>3. Window(s, j) = [k \in 1 .. 4 |-> IF k <= j THEN s[k + 4] ELSE s[k]]
    BY DEF Window
  <2> QED
    BY <2>1, <2>2, <2>3
<1>10. Taken = Slide(dots)
  BY Zenon DEF Taken
<1>11. Slide(dots) = <<<<Window(s, 1), Window(s, 2)>>, <<Window(s, 3), Window(s, 4)>>>>
  BY <1>7, SlideIs DEF s
<1>12. /\ AppleWord(words) = <<Phases(4 * q + 1), Phases(4 * q + 2)>>
       /\ AppleWord(words + 1) = <<Phases(4 * q + 3), Phases(4 * q + 4)>>
  <2> DEFINE v == words + 1
  <2>1. CASE renderer = "dgr_interp"
    <3>1. /\ 2 * words + 1 = 4 * q + 1 /\ 2 * words + 2 = 4 * q + 2
          /\ 2 * v + 1 = 4 * q + 3 /\ 2 * v + 2 = 4 * q + 4
      BY <1>3, <1>4, <2>1
    <3> HIDE DEF v
    <3>2. \A w : AppleWord(w) = <<Phases(2 * w + 1), Phases(2 * w + 2)>>
      BY <2>1, WordIs, Zenon
    <3> QED
      BY <3>1, <3>2, Zenon DEF v
  <2>2. CASE renderer = "dhgr_interp"
    <3>1. /\ 2 * words - 3 = 4 * q + 1 /\ 2 * words - 2 = 4 * q + 2
          /\ 2 * v - 3 = 4 * q + 3 /\ 2 * v - 2 = 4 * q + 4
      BY <1>3, <1>4, <2>2
    <3> HIDE DEF v
    <3>2. \A w : AppleWord(w) = <<Phases(2 * w - 3), Phases(2 * w - 2)>>
      BY <2>2, WordIs, Zenon
    <3> QED
      BY <3>1, <3>2, Zenon DEF v
  <2> QED
    BY <2>1, <2>2
<1>13. Taken = <<AppleWord(words), AppleWord(words + 1)>>
  <2>1. /\ Window(s, 1) = Phases(4 * q + 1) /\ Window(s, 2) = Phases(4 * q + 2)
        /\ Window(s, 3) = Phases(4 * q + 3) /\ Window(s, 4) = Phases(4 * q + 4)
    BY <1>9
  <2> QED
    BY <1>10, <1>11, <1>12, <2>1, Zenon
<1> QED
  BY <1>2, <1>13, TwoRight

\* Whatever the renderer, the words that it takes show what the Apple shows there.
LEMMA TakeRight ==
  ASSUME Inv, Placed, Take, Cols % 4 = 0
  PROVE  TakenRight
<1>1. renderer \in Renderers
  BY DEF Inv, RowOK
<1> QED
  BY <1>1, OneDotRight, TwoDotsRight, HiresRight, DhgrRight, Dhgr160Right, MixedRight,
     InterpRight
     DEF Renderers, TextRenderers, LoresRenderers, HiresRenderers, OneDotWords

-----------------------------------------------------------------------------
(* Theorems about the dots.                                                *)

Shown == Len(shown) \in Nat /\ Len(shown) <= words /\ DotsInPlace

LEMMA ShownStays ==
  ASSUME UNCHANGED row, NEW b \in Int, words' - Len(shown') = b,
         Len(shown') \in Nat, Len(shown') <= words',
         \A n \in 1 .. Len(shown') : shown'[n] = AppleWord(b + n - 1)
  PROVE  Shown'
<1>1. ASSUME NEW n \in 1 .. Len(shown')
      PROVE  shown'[n] = AppleWord(b + n - 1)'
  <2>1. b + n - 1 \in Int
    OBVIOUS
  <2> QED
    BY <2>1, WordStays
<1> QED
  BY <1>1 DEF Shown, DotsInPlace

LEMMA ShownStep ==
  ASSUME Inv, Placed, Shown, [Next]_vars, Cols % 4 = 0
  PROVE  Shown'
<1>1. CASE NextRow
  <2>1. \A r, y, n, h : Begin(r, y, n, h) => shown' = << >>
    BY DEF Begin
  <2>2. shown' = << >>
    BY <1>1, <2>1, Zenon DEF NextRow, AnyRow
  <2>3. words' = 0
    <3>1. \A r, y, n, h : Begin(r, y, n, h) => words' = 0
      BY DEF Begin
    <3> QED
      BY <1>1, <3>1, Zenon DEF NextRow, AnyRow
  <2> QED
    BY <2>2, <2>3 DEF Shown, DotsInPlace
<1>2. CASE Take
  <2>1. TakenRight
    BY <1>2, TakeRight
  <2>2. Len(Taken) \in Nat /\ words \in Nat
    <3>1. renderer \in Renderers /\ Chunk(renderer) \in Nat
      BY DEF Inv, RowOK, Chunk
    <3> QED
      BY <1>2, <3>1, TakenLength, Ready
  <2>3. UNCHANGED row /\ shown' = Taken /\ words' = words + Len(Taken)
    BY <1>2 DEF Take
  <2> DEFINE t == Taken
  <2>4. /\ shown' = t /\ Len(t) \in Nat /\ words' = words + Len(t)
        /\ \A n \in 1 .. Len(t) : t[n] = AppleWord(words + n - 1)
    BY <2>1, <2>2, <2>3, Zenon DEF TakenRight
  <2> HIDE DEF t
  <2>5. words' - Len(shown') = words
    BY <2>2, <2>4
  <2> DEFINE b == words
  <2>6. b \in Int /\ words' - Len(shown') = b /\ Len(shown') \in Nat /\ Len(shown') <= words'
        /\ \A n \in 1 .. Len(shown') : shown'[n] = AppleWord(b + n - 1)
    BY <2>2, <2>4, <2>5
  <2> HIDE DEF b
  <2> QED
    BY <2>3, <2>6, ShownStays
<1>3. ASSUME UNCHANGED <<row, words, shown>>
      PROVE  Shown'
  <2> DEFINE b == words - Len(shown)
  <2>1. words \in Nat
    BY CountsRange DEF Inv, RowOK
  <2>2. /\ b \in Int /\ words' - Len(shown') = b /\ Len(shown') \in Nat
        /\ Len(shown') <= words'
        /\ \A n \in 1 .. Len(shown') : shown'[n] = AppleWord(b + n - 1)
    BY <1>3, <2>1 DEF Shown, DotsInPlace
  <2> HIDE DEF b
  <2>3. UNCHANGED row
    BY <1>3
  <2> QED
    BY <2>2, <2>3, ShownStays
<1>4. CASE Load
  BY <1>3, <1>4 DEF Load
<1>5. CASE Loaded
  BY <1>3, <1>5 DEF Loaded
<1>6. CASE AllTaken
  BY <1>3, <1>6 DEF AllTaken
<1>7. CASE UNCHANGED vars
  BY <1>3, <1>7 DEF vars, row
<1> QED
  BY <1>1, <1>2, <1>4, <1>5, <1>6, <1>7 DEF Next

THEOREM ShownAlways ==
  ASSUME Cols % 4 = 0
  PROVE  Spec => [](Inv /\ Placed /\ Shown)
<1>1. Init => Inv /\ Placed /\ Shown
  <2>1. Init => Shown
    BY ScanlineAssumption DEF Init, Shown, DotsInPlace
  <2> QED
    BY <2>1, InvInit, PlacedInit
<1>2. (Inv /\ Placed /\ Shown) /\ [Next]_vars => (Inv /\ Placed /\ Shown)'
  BY InvStep, PlacedStep, ShownStep
<1> QED
  BY <1>1, <1>2, PTL DEF Spec

\* Every word of every scanline shows the bits of memory that the Apple shows there, for
\* every row of the screen, every pattern of the high bits and every width of a row: no
\* dot is lost, repeated or taken from another byte, row or bank by any of the renderers.
THEOREM DotsAlwaysInPlace ==
  ASSUME Cols % 4 = 0
  PROVE  Spec => []DotsInPlace
<1>1. Inv /\ Placed /\ Shown => DotsInPlace
  BY DEF Shown
<1> QED
  BY <1>1, ShownAlways, PTL

\* Dots of one cell are in the same byte.
LEMMA SameCell ==
  ASSUME NEW f \in Nat, NEW c \in Nat, f <= c, c <= f + 3, f \div 7 = (f + 3) \div 7
  PROVE  c \div 14 = f \div 14 /\ BankOf(c) = BankOf(f)
<1>1. \A d \in Nat : d \div 14 = (d \div 7) \div 2 /\ (d % 14 < 7 <=> (d \div 7) % 2 = 0)
  <2> TAKE d \in Nat
  <2>1. d \div 14 = (d \div 7) \div 2
    OBVIOUS
  <2>2. d % 14 < 7 <=> (d \div 7) % 2 = 0
    OBVIOUS
  <2> QED
    BY <2>1, <2>2
<1>2. c \div 7 = f \div 7
  OBVIOUS
<1> QED
  BY <1>1, <1>2 DEF BankOf

\* In the middle of a cell of dgr the next four dots are its color.
LEMMA CellPhases ==
  ASSUME renderer = "dgr_interp", NEW f \in Nat, f + 3 < 14 * Cols, f \div 7 = (f + 3) \div 7
  PROVE  Phases(f) = Singletons(CellColor(f))
<1> DEFINE at(k) == CHOOSE d \in f .. f + 3 : d % 4 = k - 1
           color == CellColor(f)
<1>1. ASSUME NEW k \in 1 .. 4
      PROVE  Dot(at(k)) = {color[k]}
  <2>1. \E d \in f .. f + 3 : d % 4 = k - 1
    <3>1. f \in Int
      OBVIOUS
    <3> QED
      BY <3>1, PhaseExists, Zenon
  <2>2. at(k) \in f .. f + 3 /\ at(k) % 4 = k - 1
    BY <2>1
  <2> DEFINE c == at(k)
  <2>3. c \in f .. f + 3 /\ c % 4 = k - 1
    BY <2>2
  <2> HIDE DEF c
  <2>4. c \in Nat /\ c \in 0 .. 14 * Cols - 1 /\ (c + 1) % 4 = k % 4 /\ f <= c /\ c <= f + 3
    BY <2>3, ScanlineAssumption
  <2>5. c \div 14 = f \div 14 /\ BankOf(c) = BankOf(f)
    BY <2>4, SameCell
  <2>6. Dot(c) = MemoryBit(BankOf(c), c \div 14,
                           nibble + (IF c % 14 < 7 THEN c % 4 ELSE (c + 1) % 4))
    <3>1. c \in Int
      BY <2>4
    <3> QED
      BY <2>4, <3>1, DotIs, Zenon
  <2>7. c % 14 < 7 <=> BankOf(f) = "aux"
    BY <2>5 DEF BankOf
  <2>8. Dot(c) = MemoryBit(BankOf(f), f \div 14,
                           nibble + (IF BankOf(f) = "aux" THEN k - 1 ELSE k % 4))
    BY <2>3, <2>4, <2>5, <2>6, <2>7
  <2>9. color[k] = <<BankOf(f), LineAddress + (f \div 14),
                     nibble + (IF BankOf(f) = "aux" THEN k - 1 ELSE k % 4)>>
    BY DEF CellColor
  <2> HIDE DEF color
  <2> QED
    BY <2>8, <2>9 DEF MemoryBit, c
<1>2. Phases(f) = [k \in 1 .. 4 |-> Dot(at(k))]
  BY Zenon DEF Phases
<1> HIDE DEF at, color
<1>3. Phases(f) = [k \in 1 .. 4 |-> {color[k]}]
  BY <1>1, <1>2
<1> QED
  BY <1>3 DEF Singletons, color

LEMMA PixelIs ==
  ASSUME NEW w \in Nat, NEW x \in {0, 1}, NEW p, p = 2 * w + x
  PROVE  /\ p + 1 \in Nat /\ (p + 1) + 3 = p + 4
         /\ x = 0 => x + 1 = 1 /\ p + 1 = 2 * w + 1
         /\ x = 1 => x + 1 = 2 /\ p + 1 = 2 * w + 2
  OBVIOUS

\* The two renderers of dgr in color agree inside the cells: what the table of the
\* sliding window selects there is what the plain renderer takes from the cell itself.
THEOREM DgrColorsAlwaysAgree ==
  ASSUME Cols % 4 = 0
  PROVE  Spec => []DgrColorsAgree
<1>1. Inv /\ Placed /\ Shown => DgrColorsAgree
  <2> SUFFICES ASSUME Inv, Shown, renderer = "dgr_interp",
                      NEW n \in 1 .. Len(shown), NEW x \in {0, 1},
                      NEW p, p = 2 * (words - Len(shown) + n - 1) + x,
                      p + 4 < 14 * Cols, (p + 1) \div 7 = (p + 4) \div 7
               PROVE  shown[n][x + 1] = Singletons(CellColor(p + 1))
    BY DEF DgrColorsAgree
  <2> DEFINE w == words - Len(shown) + n - 1
             f == p + 1
  <2>1. w \in Nat /\ p = 2 * w + x
    <3>1. words \in Nat /\ Len(shown) \in Nat /\ Len(shown) <= words
      BY CountsRange DEF Shown, Inv, RowOK
    <3>2. n \in Nat /\ n >= 1
      BY <3>1
    <3> HIDE DEF Shown, Inv
    <3> QED
      BY <3>1, <3>2
  <2>a. /\ p + 1 \in Nat /\ (p + 1) + 3 = p + 4
        /\ x = 0 => x + 1 = 1 /\ p + 1 = 2 * w + 1
        /\ x = 1 => x + 1 = 2 /\ p + 1 = 2 * w + 2
    <3> HIDE DEF w
    <3> QED
      BY <2>1, PixelIs, ZenonT(60)
  <2>2. f \in Nat /\ f + 3 < 14 * Cols /\ f \div 7 = (f + 3) \div 7
    BY <2>a, Zenon
  <2>3. shown[n] = AppleWord(w)
    BY DEF Shown, DotsInPlace
  <2>4. AppleWord(w) = <<Phases(2 * w + 1), Phases(2 * w + 2)>>
    BY WordIs
  <2>5. shown[n][x + 1] = Phases(f)
    <3> HIDE DEF w
    <3>1. CASE x = 0
      BY <2>a, <2>3, <2>4, <3>1
    <3>2. CASE x = 1
      BY <2>a, <2>3, <2>4, <3>2
    <3> QED
      BY <3>1, <3>2
  <2>6. Phases(f) = Singletons(CellColor(f))
    <3> HIDE DEF f
    <3> QED
      BY <2>2, CellPhases
  <2> QED
    BY <2>5, <2>6
<1> QED
  BY <1>1, ShownAlways, PTL
=============================================================================
