---------------------------- MODULE FrameProofs ----------------------------
(***************************************************************************)
(* For screens of any number of rows and whatever changes while a frame is *)
(* drawn: each row shows what the Apple shows, and the switch acts once.   *)
(***************************************************************************)
EXTENDS FrameInvariant, TLAPS

USE RenderLoopAssumption

-----------------------------------------------------------------------------
(* The switch.                                                             *)

LEMMA InitDebounce == Init => DebounceInv
BY DEF Init, DebounceInv

LEMMA ToggleDebounce == DebounceInv /\ ToggleSwitch => DebounceInv'
<1> SUFFICES ASSUME DebounceInv, ToggleSwitch PROVE DebounceInv'
  OBVIOUS
<1>1. CASE Bounced
  BY <1>1 DEF ToggleSwitch, DebounceInv, Restarted
<1>2. CASE ~ Bounced
  <2>1. /\ debounce_counter' = Sampled(debounce_counter)
        /\ steady' = Least(steady + 1, debounce_threshold + 2)
        /\ acts' = IF Sampled(debounce_counter) = debounce_threshold THEN Least(acts + 1, 2)
                   ELSE acts
    BY <1>2 DEF ToggleSwitch
  <2>2. debounce_counter' \in 0 .. debounce_threshold + 1 /\ steady' = debounce_counter' + 1
    BY <2>1 DEF DebounceInv, Sampled, Least
  <2>3. acts' = IF debounce_counter' >= debounce_threshold THEN 1 ELSE 0
    BY <2>1 DEF DebounceInv, Sampled, Least
  <2> QED
    BY <2>2, <2>3 DEF DebounceInv
<1> QED
  BY <1>1, <1>2

LEMMA StepDebounce == DebounceInv /\ [Next]_vars => DebounceInv'
<1> SUFFICES ASSUME DebounceInv, [Next]_vars PROVE DebounceInv'
  OBVIOUS
<1>1. CASE ToggleSwitch
  BY <1>1, ToggleDebounce
<1>2. CASE User
  BY <1>2 DEF User, MoveSwitch, SelectMode, switch, DebounceInv
<1>3. ASSUME UNCHANGED switch PROVE DebounceInv'
  BY <1>3 DEF switch, DebounceInv
<1>4. CASE Core1
  BY <1>3, <1>4 DEF Core1, SoftSwitch, VidexRegister, RequestFont
<1>5. CASE Frame \/ StartDhgr \/ GraphicsLine \/ Video7Line \/ TestFB \/ Test160 \/ TestMix
  BY <1>3, <1>5 DEF Frame, StartDhgr, GraphicsLine, Video7Line, TestFB, Test160, TestMix,
                    Video7Test
<1>6. CASE TextPage \/ TextVideo7 \/ TextColumns \/ TextRow
  BY <1>3, <1>6 DEF TextPage, TextVideo7, TextColumns, TextRow
<1>9. CASE LoadFonts \/ CopyFonts \/ ClearRequests
  BY <1>3, <1>9 DEF LoadFonts, CopyFonts, CopyFont, ClearRequests
<1>7. CASE BaseHigh \/ BaseLow \/ VidexRow
  BY <1>3, <1>7 DEF BaseHigh, BaseLow, VidexRow
<1>8. CASE UNCHANGED vars
  BY <1>3, <1>8 DEF vars
<1> QED
  BY <1>1, <1>2, <1>4, <1>5, <1>6, <1>7, <1>8, <1>9 DEF Next, Core0

-----------------------------------------------------------------------------
(* The settings that the frame may have seen.                              *)

\* The settings that differ from these in nothing but these names.
Variants(now, names) == {(now \ names) \cup some : some \in SUBSET (names \cap Switches)}

LEMMA SomeSettings ==
  ASSUME NEW now \in SUBSET Switches, NEW names, NEW s
  PROVE  s \in Variants(now, names) <=>
           s \subseteq Switches /\ \A n : n \notin names => (n \in s <=> n \in now)
<1>1. ASSUME s \in Variants(now, names)
      PROVE  s \subseteq Switches /\ \A n : n \notin names => (n \in s <=> n \in now)
  BY <1>1 DEF Variants
<1>2. ASSUME s \subseteq Switches, \A n : n \notin names => (n \in s <=> n \in now)
      PROVE  s \in Variants(now, names)
  <2>1. s \cap names \in SUBSET (names \cap Switches)
    BY <1>2
  <2>2. s = (now \ names) \cup (s \cap names)
    BY <1>2
  <2> QED
    BY <2>1, <2>2 DEF Variants
<1> QED
  BY <1>1, <1>2

LEMMA SeenAre ==
  TypeInv => \A s : s \in Seen <=>
                /\ s \subseteq Switches
                /\ \A n : n \notin changed => (n \in s <=> n \in soft_switches)
<1>1. TypeInv => soft_switches \in SUBSET Switches
  BY DEF TypeInv
<1>2. Seen = Variants(soft_switches, changed)
  BY DEF Seen, Variants
<1> QED
  BY <1>1, <1>2, SomeSettings

LEMMA SeenNext ==
  TypeInv' => \A s : s \in Seen' <=>
                /\ s \subseteq Switches
                /\ \A n : n \notin changed' => (n \in s <=> n \in soft_switches')
<1>1. TypeInv' => soft_switches' \in SUBSET Switches
  BY DEF TypeInv
<1>2. Seen' = Variants(soft_switches', changed')
  BY DEF Seen, Variants
<1> QED
  BY <1>1, <1>2, SomeSettings

\* What is read now and what was read before may be of the same setting.
Merge(s, names) == (s \ names) \cup (soft_switches \cap names)

LEMMA MergeSeen ==
  ASSUME TypeInv, NEW s \in Seen, NEW names
  PROVE  Merge(s, names) \in Seen
<1>1. s \subseteq Switches /\ soft_switches \subseteq Switches
  BY SeenAre DEF TypeInv
<1>2. Merge(s, names) \subseteq Switches
  BY <1>1 DEF Merge
<1>3. \A n : n \notin changed => (n \in Merge(s, names) <=> n \in soft_switches)
  BY SeenAre DEF Merge
<1> QED
  BY <1>2, <1>3, SeenAre

LEMMA NowSeen == TypeInv => soft_switches \in Seen
BY SeenAre DEF TypeInv

\* Where the mode of a Video7 card does not change, it is the same in all of them.
LEMMA Video7Steady ==
  ASSUME TypeInv, ~ Mixed, video7, NEW s \in Seen,
         NEW n \in {"80STORE", "80COL", "V7_MODE1", "V7_MODE2"}
  PROVE  n \in s <=> n \in soft_switches
<1>1. n \notin changed
  BY DEF Mixed
<1> QED
  BY <1>1, SeenAre

-----------------------------------------------------------------------------
(* What the Apple shows, in the terms of the renderers.                    *)

LEMMA PagesAgree == \A s : SecondPage(s) <=> PAGE2SEL(s)
<1> TAKE s
<1>1. SecondPage(s) => "PAGE_2" \in s /\ "80STORE" \notin s
  <2>1. ASSUME SecondPage(s) PROVE "PAGE_2" \in s
    BY <2>1 DEF SecondPage
  <2>2. ASSUME SecondPage(s), "80STORE" \in s PROVE FALSE
    <3>1. "80STORE" \in {"PAGE_2", "80STORE"} \cap s
      BY <2>2
    <3> QED
      BY <2>2, <3>1 DEF SecondPage
  <2> QED
    BY <2>1, <2>2
<1>2. "PAGE_2" \in s /\ "80STORE" \notin s => SecondPage(s)
  BY DEF SecondPage
<1> QED
  BY <1>1, <1>2 DEF PAGE2SEL

LEMMA ColorsAgree ==
  \A s : ColorText(s) <=> video7 /\ {"80STORE", "80COL", "DGR"} \cap s = {"80STORE", "DGR"}
<1> TAKE s
<1>1. ASSUME {"80STORE", "80COL", "DGR"} \cap s = {"80STORE", "DGR"}
      PROVE  "80STORE" \in s /\ "DGR" \in s /\ "80COL" \notin s
  <2>1. "80STORE" \in s /\ "DGR" \in s
    BY <1>1
  <2>2. "80COL" \in s => "80COL" \in {"80STORE", "80COL", "DGR"} \cap s
    OBVIOUS
  <2>3. "80COL" \notin {"80STORE", "DGR"}
    OBVIOUS
  <2> QED
    BY <1>1, <2>1, <2>2, <2>3
<1>2. "80STORE" \in s /\ "DGR" \in s /\ "80COL" \notin s
        => {"80STORE", "80COL", "DGR"} \cap s = {"80STORE", "DGR"}
  OBVIOUS
<1> QED
  BY <1>1, <1>2 DEF ColorText

\* Neither Video7 mode is selected.
Plain7(s) == "V7_MODE1" \notin s /\ "V7_MODE2" \notin s

LEMMA PlainModes ==
  \A s : /\ {"V7_MODE1", "V7_MODE2"} \cap s = {} <=> Plain7(s)
         /\ s \cap {"V7_MODE1", "V7_MODE2"} = {} <=> Plain7(s)
BY DEF Plain7

LEMMA GraphicsPicture ==
  ASSUME NEW s, NEW row \in Nat, "TEXT" \notin s, "MIX" \in s => row < TopRows,
         NEW second \in BOOLEAN, second <=> PAGE2SEL(s),
         NEW mono \in BOOLEAN,
         mono <=> "MONOCHROME" \in s \/ (video7 /\ GraphicsKind(s) = "dhgr" /\ Plain7(s)),
         NEW kind,
         kind = IF GraphicsKind(s) = "dhgr" /\ video7 /\ ~ mono THEN Video7Kind(s)
                ELSE GraphicsKind(s)
  PROVE  Picture(kind, second, mono) = ApplePicture(s, row)
<1> DEFINE double == "DGR" \in s /\ ("MIX" \in s => "80COL" \in s)
           dhgr   == double /\ "HIRES" \in s
           gray   == video7 /\ dhgr /\ {"V7_MODE1", "V7_MODE2"} \cap s = {}
           gmono  == "MONOCHROME" \in s \/ gray
           gkind  == CASE dhgr /\ video7 /\ ~ gmono -> Video7Kind(s)
                       [] dhgr /\ (gmono \/ ~ video7) -> "dhgr"
                       [] double /\ ~ dhgr -> "dgr"
                       [] ~ double -> IF "HIRES" \in s THEN "hires" ELSE "lores"
<1>1. ApplePicture(s, row) = AppleGraphics(s)
  <2>1. ~ ("TEXT" \in s \/ ("MIX" \in s /\ row >= TopRows))
    OBVIOUS
  <2>2. ~ ({"TEXT", "VIDEX_80COL"} \subseteq s)
    OBVIOUS
  <2> QED
    BY <2>1, <2>2, Zenon DEF ApplePicture
<1>2. AppleGraphics(s) = Picture(gkind, SecondPage(s), gmono)
  BY Zenon DEF AppleGraphics
<1>3. dhgr <=> GraphicsKind(s) = "dhgr"
  BY DEF GraphicsKind
<1>4. gmono = mono
  BY <1>3, PlainModes
<1>5. SecondPage(s) = second
  BY PagesAgree DEF SecondPage, PAGE2SEL
<1>6. gkind = kind
  <2> HIDE DEF gmono
  <2>1. CASE dhgr /\ video7 /\ ~ mono
    BY <1>3, <1>4, <2>1
  <2>2. CASE dhgr /\ ~ (video7 /\ ~ mono)
    BY <1>3, <1>4, <2>2
  <2>3. CASE ~ dhgr
    BY <2>3 DEF GraphicsKind
  <2> QED
    BY <2>1, <2>2, <2>3
<1> HIDE DEF gkind, gmono
<1> QED
  BY <1>1, <1>2, <1>4, <1>5, <1>6

LEMMA ColoredPicture ==
  ASSUME NEW s, NEW row \in Nat, ~ ("TEXT" \in s /\ "VIDEX_80COL" \in s),
         "TEXT" \in s \/ ("MIX" \in s /\ row >= TopRows),
         Colored(s), mono_rendering <=> "MONOCHROME" \in s
  PROVE  Picture("color_text40", FALSE, FALSE) = ApplePicture(s, row)
<1>1. ApplePicture(s, row) = AppleText(s)
  BY DEF ApplePicture
<1>2. AppleText(s) = Picture("color_text40", FALSE, FALSE)
  BY ColorsAgree DEF AppleText, Colored
<1> QED
  BY <1>1, <1>2

LEMMA PlainTextPicture ==
  ASSUME NEW s, NEW row \in Nat, ~ ("TEXT" \in s /\ "VIDEX_80COL" \in s),
         "TEXT" \in s \/ ("MIX" \in s /\ row >= TopRows),
         ~ Colored(s), mono_rendering <=> "MONOCHROME" \in s,
         NEW second \in BOOLEAN, second <=> PAGE2SEL(s),
         NEW mono \in BOOLEAN, mono <=> "MONOCHROME" \in s \/ "TEXT" \in s,
         NEW kind, kind = IF "80COL" \in s THEN "text80" ELSE "text40"
  PROVE  Picture(kind, second, mono) = ApplePicture(s, row)
<1>1. ApplePicture(s, row) = AppleText(s)
  BY DEF ApplePicture
<1>2. ~ (video7 /\ {"80STORE", "80COL", "DGR"} \cap s = {"80STORE", "DGR"}
         /\ ~ "MONOCHROME" \in s)
  BY ColorsAgree DEF Colored
<1>3. AppleText(s) = Picture(IF "80COL" \in s THEN "text80" ELSE "text40", SecondPage(s),
                             "MONOCHROME" \in s \/ "TEXT" \in s)
  BY <1>2, Zenon DEF AppleText
<1>4. SecondPage(s) = second
  BY PagesAgree DEF SecondPage, PAGE2SEL
<1> QED
  BY <1>1, <1>3, <1>4, Zenon

-----------------------------------------------------------------------------
(* The steps that leave the frame as it is: those of core 1 and the user.  *)

LEMMA OutsideStep ==
  ASSUME FrameInv, TypeInv', UNCHANGED <<pc, frame, video7>>,
         changed \subseteq changed',
         \A n : n \notin changed' => (n \in soft_switches' <=> n \in soft_switches),
         \A r \in {"R12", "R13"} :
           r \notin changed' => videx_crtc_regs'[r] = videx_crtc_regs[r]
  PROVE  FrameInv'
<1>1. /\ pc' = pc /\ renderer' = renderer /\ line' = line /\ page2' = page2
      /\ text_base_addr' = text_base_addr /\ mono_rendering' = mono_rendering
      /\ shown' = shown /\ video7' = video7
  BY DEF frame
<1>2. TypeInv /\ PlaceInv /\ ReadInv /\ BaseInv /\ AppleRows /\ VidexRows
  BY DEF FrameInv, RowAgrees
<1>3. \A s : s \in Seen' <=> /\ s \subseteq Switches
                             /\ \A n : n \notin changed' => (n \in s <=> n \in soft_switches')
  BY SeenNext
<1>4. \A s \in Seen : s \in Seen'
  BY <1>2, <1>3, SeenAre
<1>5. Mixed => Mixed'
  BY <1>1 DEF Mixed
<1>6. \A s : Explains(s) => Explains(s)'
  BY <1>1 DEF Explains, ExplainsCopy, ExplainsGraphics, ExplainsVideo7, ExplainsText,
       ExplainsVidex, Gray, Colored, ColorText, PageRead, Uncolored
<1>7. ReadInv'
  BY <1>1, <1>2, <1>4, <1>5, <1>6 DEF ReadInv
<1>8. PlaceInv'
  BY <1>1, <1>2 DEF PlaceInv, LinesPerRow
<1>9. /\ \A v \in Values("R12", CrtcHigh) : v \in Values("R12", CrtcHigh)'
      /\ \A v \in Values("R13", CrtcLow) : v \in Values("R13", CrtcLow)'
  BY <1>2 DEF Values, TypeInv
<1>10. BaseInv'
  BY <1>1, <1>2, <1>9 DEF BaseInv
<1>11. AppleRows'
  <2>1. \A s, row : ApplePicture(s, row)' = ApplePicture(s, row)
    BY <1>1 DEF ApplePicture, AppleText, AppleGraphics
  <2> QED
    BY <1>1, <1>2, <1>4, <1>5, <2>1 DEF AppleRows
<1>12. VidexRows'
  <2>1. \A base : ShowsFrom(base)' <=> ShowsFrom(base)
    BY <1>1 DEF ShowsFrom
  <2> QED
    BY <1>1, <1>2, <1>9, <2>1 DEF VidexRows
<1> QED
  BY <1>7, <1>8, <1>10, <1>11, <1>12 DEF FrameInv, RowAgrees

-----------------------------------------------------------------------------
(* The steps of core 0.                                                    *)

Same == UNCHANGED <<soft_switches, videx_crtc_regs, video7, changed>>
Reading == InGraphics \cup {"dhgr"} \cup InText \cup InVidex

LEMMA RowsStay == FrameInv /\ Same /\ UNCHANGED shown => RowAgrees'
<1> SUFFICES ASSUME FrameInv, Same, shown' = shown PROVE RowAgrees'
  OBVIOUS
<1>1. /\ soft_switches' = soft_switches /\ changed' = changed /\ video7' = video7
      /\ videx_crtc_regs' = videx_crtc_regs
  BY DEF Same
<1>2. AppleRows'
  <2>1. \A s, row : ApplePicture(s, row)' = ApplePicture(s, row)
    BY <1>1 DEF ApplePicture, AppleText, AppleGraphics
  <2>2. Seen' = Seen /\ (Mixed' <=> Mixed)
    BY <1>1 DEF Seen, Mixed
  <2> QED
    BY <2>1, <2>2 DEF FrameInv, RowAgrees, AppleRows
<1>3. VidexRows'
  <2>1. VidexRows
    BY DEF FrameInv, RowAgrees
  <2>2. /\ Values("R12", CrtcHigh)' = Values("R12", CrtcHigh)
        /\ Values("R13", CrtcLow)' = Values("R13", CrtcLow)
    BY <1>1 DEF Values
  <2>3. \A base : ShowsFrom(base)' <=> ShowsFrom(base)
    BY DEF ShowsFrom
  <2> QED
    BY <2>1, <2>2, <2>3 DEF VidexRows
<1> QED
  BY <1>2, <1>3 DEF RowAgrees

LEMMA FrameStep ==
  ASSUME Same, TypeInv', PlaceInv', BaseInv', RowAgrees',
         pc' \in Reading /\ ~ Mixed => \E s \in Seen : Explains(s)'
  PROVE  FrameInv'
<1>1. /\ soft_switches' = soft_switches /\ changed' = changed /\ video7' = video7
  BY DEF Same
<1>2. Seen' = Seen /\ (Mixed' <=> Mixed)
  BY <1>1 DEF Seen, Mixed
<1>3. ReadInv'
  BY <1>2 DEF ReadInv, Reading
<1> QED
  BY <1>3 DEF FrameInv

LEMMA Product == ASSUME NEW a \in Nat \ {0}, NEW b \in Nat \ {0} PROVE 0 < a * b
OBVIOUS

\* The line of a row above the text is that of a row above it.
LEMMA RowOfLine ==
  ASSUME NEW n \in Nat, NEW b \in Nat \ {0}, NEW l \in Nat
  PROVE  l \div b \in Nat /\ (l < n * b => l \div b < n)
<1> DEFINE q == l \div b
<1>1. q \in Nat /\ b * q <= l
  OBVIOUS
<1> HIDE DEF q
<1>2. n <= q => b * n <= b * q
  BY <1>1
<1>3. b * n = n * b /\ n * b \in Nat /\ b * q \in Nat
  BY <1>1
<1>4. l < n * b => q < n
  BY <1>1, <1>2, <1>3
<1> QED
  BY <1>1, <1>4 DEF q

LEMMA LinesPositive == LinesPerRow \in Nat \ {0}
BY DEF LinesPerRow

LEMMA DispatchKind ==
  \A s : Dispatch(s) = IF "TEXT" \in s THEN IF "VIDEX_80COL" \in s THEN "videx" ELSE "text"
                       ELSE GraphicsKind(s)
<1> TAKE s
<1> DEFINE double == IF "MIX" \in s THEN Double(s) ELSE "DGR" \in s
<1>1. double <=> "DGR" \in s /\ ("MIX" \in s => "80COL" \in s)
  BY DEF Double
<1>2. s \cap {"TEXT", "HIRES"} = {} <=> "TEXT" \notin s /\ "HIRES" \notin s
  <2>1. "TEXT" \in s => "TEXT" \in s \cap {"TEXT", "HIRES"}
    OBVIOUS
  <2>2. "HIRES" \in s => "HIRES" \in s \cap {"TEXT", "HIRES"}
    OBVIOUS
  <2>3. "TEXT" \notin s /\ "HIRES" \notin s => s \cap {"TEXT", "HIRES"} = {}
    OBVIOUS
  <2> QED
    BY <2>1, <2>2, <2>3
<1>3. Dispatch(s) = CASE {"TEXT", "VIDEX_80COL"} \subseteq s -> "videx"
        [] "TEXT" \in s /\ "VIDEX_80COL" \notin s -> "text"
        [] s \cap {"TEXT", "HIRES"} = {} -> IF double THEN "dgr" ELSE "lores"
        [] OTHER -> IF double THEN "dhgr" ELSE "hires"
  BY Zenon DEF Dispatch
<1>4. {"TEXT", "VIDEX_80COL"} \subseteq s <=> "TEXT" \in s /\ "VIDEX_80COL" \in s
  OBVIOUS
<1> HIDE DEF double
<1>5. CASE "TEXT" \in s
  <2>1. CASE "VIDEX_80COL" \in s
    BY <1>2, <1>3, <1>4, <1>5, <2>1
  <2>2. CASE "VIDEX_80COL" \notin s
    BY <1>2, <1>3, <1>4, <1>5, <2>2
  <2> QED
    BY <2>1, <2>2
<1>6. CASE "TEXT" \notin s
  <2>1. CASE "HIRES" \in s
    BY <1>1, <1>2, <1>3, <1>4, <1>6, <2>1 DEF GraphicsKind
  <2>2. CASE "HIRES" \notin s
    BY <1>1, <1>2, <1>3, <1>4, <1>6, <2>2 DEF GraphicsKind
  <2> QED
    BY <2>1, <2>2
<1> QED
  BY <1>5, <1>6

LEMMA MixedSwitches == \A s : s \cap {"TEXT", "MIX"} = {"MIX"} <=> "TEXT" \notin s /\ "MIX" \in s
<1> TAKE s
<1>1. "TEXT" \in s => "TEXT" \in s \cap {"TEXT", "MIX"}
  OBVIOUS
<1>2. s \cap {"TEXT", "MIX"} = {"MIX"} => "MIX" \in s
  OBVIOUS
<1>3. "TEXT" \notin s /\ "MIX" \in s => s \cap {"TEXT", "MIX"} = {"MIX"}
  OBVIOUS
<1> QED
  BY <1>1, <1>2, <1>3

\* The copy that the frame begins with.
LEMMA FrameStarts == ASSUME FrameInv, Frame PROVE FrameInv'
<1> DEFINE s    == soft_switches
           kind == Dispatch(s)
           m    == s \cap {"TEXT", "MIX"} = {"MIX"}
<1>1. /\ pc' = CASE kind = "videx" -> "high" [] kind = "text" -> "page"
                 [] kind = "dhgr" -> "dhgr" [] OTHER -> "line"
      /\ renderer' = [kind |-> kind, mono |-> "MONOCHROME" \in s, mixed |-> m]
      /\ mono_rendering' = ("MONOCHROME" \in s)
      /\ line' = 0 /\ shown' = None /\ changed' = {}
      /\ page2' = page2 /\ video7' = video7 /\ soft_switches' = soft_switches
      /\ videx_crtc_regs' = videx_crtc_regs
  BY DEF Frame, shared
<1>2. TypeInv
  BY DEF FrameInv
<1>3. /\ renderer'.kind = kind
      /\ renderer'.mono <=> "MONOCHROME" \in s
      /\ renderer'.mixed <=> "TEXT" \notin s /\ "MIX" \in s
  BY <1>1, MixedSwitches
<1>4. kind = IF "TEXT" \in s THEN IF "VIDEX_80COL" \in s THEN "videx" ELSE "text"
             ELSE GraphicsKind(s)
  BY DispatchKind
<1>5. GraphicsKind(s) \in Graphics
  BY DEF GraphicsKind, Graphics
<1>6. pc' = IF "TEXT" \in s THEN IF "VIDEX_80COL" \in s THEN "high" ELSE "page"
            ELSE IF kind = "dhgr" THEN "dhgr" ELSE "line"
  <2> HIDE DEF kind
  <2> QED
    BY <1>1, <1>4, <1>5 DEF Graphics
<1>7. kind \in Kinds
  BY <1>4, <1>5 DEF Kinds
<1> HIDE DEF kind, m
<1>8. TypeInv'
  <2>1. m \in BOOLEAN
    BY DEF m
  <2>2. renderer' \in [kind : Kinds, mono : BOOLEAN, mixed : BOOLEAN]
    BY <1>1, <1>7, <2>1
  <2>3. pc' \in Labels
    BY <1>6 DEF Labels, InGraphics, InText, InVidex
  <2> QED
    BY <1>1, <1>2, <2>2, <2>3 DEF TypeInv
<1>9. LinesPerRow' \in Nat \ {0} /\ 0 < TopRows * LinesPerRow'
  <2>1. LinesPerRow' \in Nat \ {0}
    BY DEF LinesPerRow
  <2> QED
    BY <2>1, Product
<1>10. PlaceInv'
  <2>1. "TEXT" \in s => pc' \in {"high", "page"} /\ ~ renderer'.mixed
    BY <1>3, <1>6
  <2>2. "TEXT" \notin s => /\ renderer'.kind \in Graphics /\ pc' \in {"dhgr", "line"}
                           /\ pc' = "dhgr" => renderer'.kind = "dhgr"
    BY <1>3, <1>4, <1>5, <1>6
  <2> QED
    BY <1>1, <1>9, <2>1, <2>2 DEF PlaceInv, InGraphics, InVideo7, InText
<1>11. \E t \in Seen' : Explains(t)'
  <2> PICK t : t = s
    OBVIOUS
  <2>1. t \in Seen'
    BY <1>1, <1>8, SeenNext DEF TypeInv
  <2>2. ExplainsCopy(t)'
    BY <1>1 DEF ExplainsCopy
  <2>3. "TEXT" \in t => ExplainsGraphics(t)' /\ ExplainsVideo7(t)' /\ ExplainsVidex(t)'
    BY <1>6 DEF ExplainsGraphics, ExplainsVideo7, ExplainsVidex, InGraphics, InVideo7, InVidex
  <2>4. "TEXT" \in t => ExplainsText(t)'
    BY <1>3, <1>6 DEF ExplainsText, InText, PageRead, Uncolored
  <2>5. "TEXT" \notin t => ExplainsText(t)' /\ ExplainsVideo7(t)' /\ ExplainsVidex(t)'
    BY <1>6 DEF ExplainsText, ExplainsVideo7, ExplainsVidex, InVideo7, InVidex, InText
  <2>6. ASSUME "TEXT" \notin t PROVE ExplainsGraphics(t)'
    <3>1. renderer'.kind = GraphicsKind(t)
      BY <1>3, <1>4, <2>6
    <3>2. renderer'.mixed <=> "MIX" \in t
      BY <1>3, <2>6
    <3>3. pc' # "dhgr" => ~ Gray(t)'
      BY <1>3, <1>6, <2>6 DEF Gray
    <3>4. pc' # "dhgr" => (renderer'.mono <=> mono_rendering' \/ Gray(t)')
      BY <1>1, <1>3, <3>3
    <3>5. GraphicsKind(t)' = GraphicsKind(t)
      BY DEF GraphicsKind
    <3> QED
      BY <2>6, <3>1, <3>2, <3>4, <3>5 DEF ExplainsGraphics
  <2> QED
    BY <2>1, <2>2, <2>3, <2>4, <2>5, <2>6 DEF Explains
<1>12. ReadInv'
  BY <1>11 DEF ReadInv
<1>13. BaseInv' /\ RowAgrees'
  BY <1>1, <1>6 DEF BaseInv, RowAgrees, AppleRows, VidexRows
<1> QED
  BY <1>8, <1>10, <1>12, <1>13 DEF FrameInv

\* A line of graphics, of one kind and from one page.
Draws(s, kind, second) ==
  /\ ExplainsCopy(s) /\ ExplainsGraphics(s)
  /\ second <=> PAGE2SEL(s)
  /\ kind = IF renderer.kind = "dhgr" /\ video7 /\ ~ renderer.mono THEN Video7Kind(s)
            ELSE renderer.kind

LEMMA LineDrawn ==
  ASSUME FrameInv, Same, pc \in InGraphics,
         renderer' = renderer, mono_rendering' = mono_rendering, page2' \in BOOLEAN,
         NEW kind, kind # "videx", NEW second \in BOOLEAN, Drawn(kind, second),
         ~ Mixed => \E s \in Seen : Draws(s, kind, second)
  PROVE  FrameInv'
<1> DEFINE height == TopRows * LinesPerRow
           done   == line + 1 = (IF renderer.mixed THEN TopRows ELSE Rows) * LinesPerRow
<1>1. /\ soft_switches' = soft_switches /\ changed' = changed /\ video7' = video7
      /\ videx_crtc_regs' = videx_crtc_regs
  BY DEF Same
<1>2. /\ shown' = [row |-> line \div LinesPerRow,
                   picture |-> Picture(kind, second, renderer.mono)]
      /\ line' = IF done THEN TopRows ELSE line + 1
      /\ pc' = IF ~ done THEN "line" ELSE IF renderer.mixed THEN "video7" ELSE "switch"
  BY DEF Drawn
<1>3. TypeInv /\ PlaceInv
  BY DEF FrameInv
<1>4. /\ renderer \in [kind : Kinds, mono : BOOLEAN, mixed : BOOLEAN] /\ line \in Nat
      /\ renderer.kind \in Graphics /\ (renderer.mixed => line < height)
  BY <1>3 DEF TypeInv, PlaceInv, InGraphics
<1>5. LinesPerRow' = LinesPerRow /\ LinesPerRow \in Nat \ {0} /\ height \in Nat
  BY LinesPositive DEF LinesPerRow
<1> HIDE DEF done, height
<1>6. TypeInv'
  BY <1>1, <1>2, <1>3, <1>4 DEF TypeInv, Labels, InGraphics, InText
<1>7. PlaceInv'
  <2>1. renderer.mixed /\ ~ done => line + 1 < height
    BY <1>4, <1>5 DEF done, height
  <2>2. renderer'.mixed /\ pc' = "line" => line' < TopRows * LinesPerRow'
    BY <1>2, <1>5, <2>1 DEF height
  <2>3. renderer'.mixed /\ pc' = "video7" => line' >= TopRows
    BY <1>2
  <2>4. pc' \in {"line", "video7", "switch"}
    BY <1>2
  <2> QED
    BY <1>4, <2>2, <2>3, <2>4 DEF PlaceInv, InGraphics, InVideo7, InText
<1>8. BaseInv'
  BY <1>2 DEF BaseInv
<1>9. \A s : Draws(s, kind, second) => Explains(s)'
  <2> TAKE s
  <2> HAVE Draws(s, kind, second)
  <2>1. /\ "TEXT" \notin s
        /\ renderer.mixed <=> "MIX" \in s
        /\ renderer.kind = GraphicsKind(s)
        /\ pc # "dhgr" => (renderer.mono <=> mono_rendering \/ Gray(s))
    BY DEF Draws, ExplainsGraphics
  <2>2. ExplainsCopy(s)'
    BY DEF Draws, ExplainsCopy
  <2>3. ExplainsGraphics(s)'
    BY <1>1, <2>1 DEF ExplainsGraphics, Gray, InGraphics
  <2>4. ExplainsVideo7(s)' /\ ExplainsVidex(s)'
    BY <1>2 DEF ExplainsVideo7, ExplainsVidex, InVideo7, InVidex
  <2>5. ExplainsText(s)'
    BY <1>2, <2>1 DEF ExplainsText, InText, PageRead, Uncolored
  <2> QED
    BY <2>2, <2>3, <2>4, <2>5 DEF Explains
<1>10. AppleRows'
  <2>1. ASSUME NEW s \in Seen, Draws(s, kind, second)
        PROVE  shown'.picture = ApplePicture(s, shown'.row)
    <3>1. shown'.row \in Nat /\ (renderer.mixed => shown'.row < TopRows)
      BY <1>2, <1>4, <1>5, RowOfLine DEF height
    <3>2. /\ "TEXT" \notin s
          /\ renderer.mixed <=> "MIX" \in s
          /\ renderer.kind = GraphicsKind(s)
          /\ renderer.mono <=> mono_rendering \/ Gray(s)
      BY <2>1 DEF Draws, ExplainsGraphics, InGraphics
    <3>3. renderer.mono <=> "MONOCHROME" \in s
                            \/ (video7 /\ GraphicsKind(s) = "dhgr" /\ Plain7(s))
      BY <2>1, <3>2 DEF Draws, ExplainsCopy, Gray, Plain7
    <3>4. kind = IF GraphicsKind(s) = "dhgr" /\ video7 /\ ~ renderer.mono THEN Video7Kind(s)
                 ELSE GraphicsKind(s)
      BY <2>1, <3>2 DEF Draws
    <3>5. second <=> PAGE2SEL(s)
      BY <2>1 DEF Draws
    <3>6. Picture(kind, second, renderer.mono) = ApplePicture(s, shown'.row)
      BY <1>4, <3>1, <3>2, <3>3, <3>4, <3>5, GraphicsPicture
    <3> QED
      BY <1>2, <3>6
  <2>2. \A s, r : ApplePicture(s, r)' = ApplePicture(s, r)
    BY <1>1 DEF ApplePicture, AppleText, AppleGraphics
  <2>3. Seen' = Seen /\ (Mixed' <=> Mixed)
    BY <1>1 DEF Seen, Mixed
  <2> QED
    BY <2>1, <2>2, <2>3 DEF AppleRows
<1>11. VidexRows'
  BY <1>2 DEF VidexRows, Picture
<1> QED
  BY <1>6, <1>7, <1>8, <1>9, <1>10, <1>11, FrameStep DEF RowAgrees

LEMMA Unmixed ==
  ASSUME FrameInv, pc \in Reading, ~ Mixed
  PROVE  \E s \in Seen : Explains(s)
BY DEF FrameInv, ReadInv, Reading

LEMMA StartDhgrStep == ASSUME FrameInv, StartDhgr PROVE FrameInv'
<1> DEFINE gray == video7 /\ soft_switches \cap {"V7_MODE1", "V7_MODE2"} = {}
<1>1. /\ pc = "dhgr" /\ pc' = "line" /\ line' = line /\ page2' = page2 /\ shown' = shown
      /\ mono_rendering' = mono_rendering
      /\ renderer' = [renderer EXCEPT !.mono = mono_rendering \/ gray]
      /\ Same
  BY DEF StartDhgr, Same, shared
<1>2. TypeInv /\ PlaceInv
  BY DEF FrameInv
<1>3. /\ renderer \in [kind : Kinds, mono : BOOLEAN, mixed : BOOLEAN]
      /\ renderer.kind = "dhgr" /\ line = 0 /\ video7' = video7
  BY <1>1, <1>2 DEF TypeInv, PlaceInv, Same
<1>4. /\ renderer' \in [kind : Kinds, mono : BOOLEAN, mixed : BOOLEAN]
      /\ renderer'.kind = renderer.kind /\ renderer'.mixed = renderer.mixed
      /\ renderer'.mono <=> mono_rendering \/ gray
  BY <1>1, <1>2, <1>3 DEF TypeInv
<1>5. TypeInv'
  BY <1>1, <1>2, <1>4 DEF TypeInv, Same, Labels, InGraphics
<1>6. PlaceInv'
  <2>1. 0 < TopRows * LinesPerRow'
    <3>1. LinesPerRow' \in Nat \ {0}
      BY DEF LinesPerRow
    <3> QED
      BY <3>1, Product
  <2> QED
    BY <1>1, <1>3, <1>4, <2>1 DEF PlaceInv, InGraphics, InVideo7, InText, Graphics
<1>7. BaseInv' /\ RowAgrees'
  BY <1>1, RowsStay DEF BaseInv
<1>8. ~ Mixed => \E s \in Seen : Explains(s)'
  <2> HAVE ~ Mixed
  <2>1. PICK s \in Seen : Explains(s)
    BY <1>1, Unmixed DEF Reading
  <2>2. PICK t : t = Merge(s, {"V7_MODE1", "V7_MODE2"})
    OBVIOUS
  <2>3. t \in Seen
    BY <1>2, <2>2, MergeSeen
  <2>4. /\ gray <=> video7 /\ Plain7(t)
        /\ \A n \in Switches \ {"V7_MODE1", "V7_MODE2"} : n \in t <=> n \in s
    BY <2>2, PlainModes DEF Merge, Plain7
  <2>5. /\ "TEXT" \notin s
        /\ renderer.mixed <=> "MIX" \in s
        /\ renderer.kind = GraphicsKind(s)
        /\ mono_rendering <=> "MONOCHROME" \in s
    BY <1>1, <2>1 DEF Explains, ExplainsGraphics, ExplainsCopy
  <2>6. GraphicsKind(t) = GraphicsKind(s)
    BY <2>4 DEF GraphicsKind, Switches
  <2>7. ExplainsCopy(t)'
    BY <1>1, <2>4, <2>5 DEF ExplainsCopy, Switches
  <2>8. ExplainsGraphics(t)'
    <3>1. Gray(t)' <=> gray
      BY <1>3, <1>4, <2>4 DEF Gray, Plain7
    <3>2. renderer'.mono <=> mono_rendering' \/ Gray(t)'
      BY <1>1, <1>4, <3>1
    <3> QED
      BY <1>4, <2>4, <2>5, <2>6, <3>2 DEF ExplainsGraphics, Switches
  <2>9. ExplainsVideo7(t)' /\ ExplainsText(t)' /\ ExplainsVidex(t)'
    BY <1>1 DEF ExplainsVideo7, ExplainsText, ExplainsVidex, InVideo7, InText, InVidex
  <2> QED
    BY <2>3, <2>7, <2>8, <2>9 DEF Explains
<1> QED
  BY <1>1, <1>5, <1>6, <1>7, <1>8, FrameStep

\* What is read of the page does not change what else was read of graphics.
LEMMA PageMerged ==
  ASSUME TypeInv, NEW s \in Seen, ExplainsCopy(s), ExplainsGraphics(s)
  PROVE  \E t \in Seen : /\ ExplainsCopy(t) /\ ExplainsGraphics(t)
                         /\ PAGE2SEL(t) <=> PAGE2SEL(soft_switches)
<1>1. PICK t : t = Merge(s, {"PAGE_2", "80STORE"})
  OBVIOUS
<1>2. t \in Seen
  BY <1>1, MergeSeen
<1>3. /\ PAGE2SEL(t) <=> PAGE2SEL(soft_switches)
      /\ \A n \in Switches \ {"PAGE_2", "80STORE"} : n \in t <=> n \in s
  BY <1>1 DEF Merge, PAGE2SEL
<1>4. GraphicsKind(t) = GraphicsKind(s) /\ (Gray(t) <=> Gray(s))
  BY <1>3 DEF GraphicsKind, Gray, Switches
<1>5. ExplainsCopy(t) /\ ExplainsGraphics(t)
  BY <1>3, <1>4 DEF ExplainsCopy, ExplainsGraphics, Switches
<1> QED
  BY <1>2, <1>3, <1>5

LEMMA GraphicsLineStep == ASSUME FrameInv, GraphicsLine PROVE FrameInv'
<1> DEFINE second == PAGE2SEL(soft_switches)
<1>1. /\ pc = "line" /\ Drawn(renderer.kind, second) /\ page2' = second
      /\ ~ (renderer.kind = "dhgr" /\ video7 /\ ~ renderer.mono)
      /\ renderer' = renderer /\ mono_rendering' = mono_rendering /\ Same
  BY DEF GraphicsLine, Same, shared
<1>2. TypeInv /\ renderer.kind \in Graphics /\ second \in BOOLEAN
  BY <1>1 DEF FrameInv, PlaceInv, InGraphics, PAGE2SEL
<1>3. ~ Mixed => \E s \in Seen : Draws(s, renderer.kind, second)
  <2> HAVE ~ Mixed
  <2>1. PICK s \in Seen : Explains(s)
    BY <1>1, Unmixed DEF Reading, InGraphics
  <2>2. PICK t \in Seen : /\ ExplainsCopy(t) /\ ExplainsGraphics(t)
                          /\ PAGE2SEL(t) <=> second
    BY <1>2, <2>1, PageMerged DEF Explains
  <2> QED
    BY <1>1, <2>2 DEF Draws
<1> HIDE DEF second
<1> QED
  BY <1>1, <1>2, <1>3, LineDrawn DEF InGraphics, Graphics

LEMMA Video7LineStep == ASSUME FrameInv, Video7Line PROVE FrameInv'
<1>1. /\ pc = "line" /\ pc' = "fb" /\ page2' = PAGE2SEL(soft_switches)
      /\ renderer.kind = "dhgr" /\ video7 /\ ~ renderer.mono
      /\ renderer' = renderer /\ mono_rendering' = mono_rendering
      /\ line' = line /\ shown' = shown /\ Same
  BY DEF Video7Line, Same, shared
<1>2. TypeInv /\ PlaceInv
  BY DEF FrameInv
<1>3. TypeInv'
  BY <1>1, <1>2 DEF TypeInv, Same, Labels, InGraphics, PAGE2SEL
<1>4. PlaceInv'
  BY <1>1, <1>2 DEF PlaceInv, InGraphics, InVideo7, InText, LinesPerRow
<1>5. BaseInv' /\ RowAgrees'
  BY <1>1, RowsStay DEF BaseInv
<1>6. ~ Mixed => \E s \in Seen : Explains(s)'
  <2> HAVE ~ Mixed
  <2>1. PICK s \in Seen : Explains(s)
    BY <1>1, Unmixed DEF Reading, InGraphics
  <2>2. PICK t \in Seen : /\ ExplainsCopy(t) /\ ExplainsGraphics(t)
                          /\ PAGE2SEL(t) <=> PAGE2SEL(soft_switches)
    BY <1>2, <2>1, PageMerged DEF Explains
  <2>3. ExplainsCopy(t)' /\ ExplainsGraphics(t)'
    BY <1>1, <2>2 DEF ExplainsCopy, ExplainsGraphics, Gray, InGraphics, Same
  <2>4. ExplainsVideo7(t)'
    BY <1>1, <2>2 DEF ExplainsVideo7, Same
  <2>5. ExplainsText(t)' /\ ExplainsVidex(t)'
    BY <1>1 DEF ExplainsText, ExplainsVidex, InText, InVidex
  <2> QED
    BY <2>2, <2>3, <2>4, <2>5 DEF Explains
<1> QED
  BY <1>1, <1>3, <1>4, <1>5, <1>6, FrameStep

\* A test of the mode of a Video7 card that does not match leads to the next one.
LEMMA TestContinues ==
  ASSUME FrameInv, Same, pc \in InVideo7, Continue("160") \/ Continue("mix"),
         renderer' = renderer, page2' = page2, mono_rendering' = mono_rendering,
         \A s \in Seen : ~ Mixed /\ Explains(s) =>
           /\ ~ ("80STORE" \in s /\ "80COL" \notin s)
           /\ pc' = "mix" => ~ ("V7_MODE2" \in s /\ "V7_MODE1" \notin s)
  PROVE  FrameInv'
<1>1. pc' \in {"160", "mix"} /\ line' = line /\ shown' = shown
  BY DEF Continue
<1>2. TypeInv /\ PlaceInv
  BY DEF FrameInv
<1>3. TypeInv'
  BY <1>1, <1>2 DEF TypeInv, Same, Labels, InGraphics, InVideo7
<1>4. PlaceInv'
  BY <1>1, <1>2 DEF PlaceInv, InGraphics, InVideo7, InText, LinesPerRow
<1>5. BaseInv' /\ RowAgrees'
  BY <1>1, RowsStay DEF BaseInv
<1>6. ~ Mixed => \E s \in Seen : Explains(s)'
  <2> HAVE ~ Mixed
  <2>1. PICK s \in Seen : Explains(s)
    BY Unmixed DEF Reading, InGraphics, InVideo7
  <2>2. ExplainsCopy(s)' /\ ExplainsGraphics(s)'
    BY <2>1 DEF Explains, ExplainsCopy, ExplainsGraphics, Gray, InGraphics, InVideo7, Same
  <2>3. ExplainsVideo7(s)'
    BY <2>1 DEF Explains, ExplainsVideo7, Same
  <2>4. ExplainsText(s)' /\ ExplainsVidex(s)'
    BY <1>1 DEF ExplainsText, ExplainsVidex, InText, InVidex
  <2> QED
    BY <2>2, <2>3, <2>4 DEF Explains
<1> QED
  BY <1>1, <1>3, <1>4, <1>5, <1>6, FrameStep

\* A test that matches draws the line.
LEMMA TestDraws ==
  ASSUME FrameInv, Same, pc \in InVideo7,
         NEW kind \in {"dhgr_fb", "dhgr_160", "dhgr_mixed", "dhgr"}, Drawn(kind, page2),
         renderer' = renderer, page2' = page2, mono_rendering' = mono_rendering,
         \A s \in Seen : ~ Mixed /\ Explains(s) => Video7Kind(s) = kind
  PROVE  FrameInv'
<1>1. page2 \in BOOLEAN /\ renderer.kind = "dhgr"
  BY DEF FrameInv, TypeInv, PlaceInv
<1>2. ~ Mixed => \E s \in Seen : Draws(s, kind, page2)
  <2> HAVE ~ Mixed
  <2>1. PICK s \in Seen : Explains(s)
    BY Unmixed DEF Reading, InGraphics, InVideo7
  <2>2. video7 /\ ~ renderer.mono /\ (page2 <=> PAGE2SEL(s))
    BY <2>1 DEF Explains, ExplainsVideo7
  <2> QED
    BY <1>1, <2>1, <2>2 DEF Draws, Explains
<1> QED
  BY <1>1, <1>2, LineDrawn DEF InGraphics, InVideo7

\* The mode of the card is the same in all settings that the frame may have seen.
LEMMA ModeSeen ==
  ASSUME FrameInv, pc \in InVideo7, ~ Mixed, NEW s \in Seen, Explains(s)
  PROVE  /\ "80STORE" \in s <=> "80STORE" \in soft_switches
         /\ "80COL" \in s <=> "80COL" \in soft_switches
         /\ "V7_MODE1" \in s <=> "V7_MODE1" \in soft_switches
         /\ "V7_MODE2" \in s <=> "V7_MODE2" \in soft_switches
         /\ "V7_MODE1" \in s \/ "V7_MODE2" \in s
<1>1. TypeInv /\ video7 /\ ~ renderer.mono
  BY DEF FrameInv, Explains, ExplainsVideo7
<1>2. ~ Gray(s) /\ renderer.kind = "dhgr"
  BY <1>1 DEF FrameInv, PlaceInv, Explains, ExplainsGraphics, InGraphics, InVideo7
<1> QED
  BY <1>1, <1>2, Video7Steady DEF Gray

LEMMA ModesAre ==
  ASSUME NEW s
  PROVE  /\ s \cap {"V7_MODE1", "V7_MODE2"} = {"V7_MODE2"}
              <=> "V7_MODE2" \in s /\ "V7_MODE1" \notin s
         /\ s \cap {"V7_MODE1", "V7_MODE2"} = {"V7_MODE1"}
              <=> "V7_MODE1" \in s /\ "V7_MODE2" \notin s
<1> DEFINE both == s \cap {"V7_MODE1", "V7_MODE2"}
<1>1. ("V7_MODE1" \in both <=> "V7_MODE1" \in s) /\ ("V7_MODE2" \in both <=> "V7_MODE2" \in s)
  OBVIOUS
<1>2. "V7_MODE2" \in s /\ "V7_MODE1" \notin s => both = {"V7_MODE2"}
  OBVIOUS
<1>3. "V7_MODE1" \in s /\ "V7_MODE2" \notin s => both = {"V7_MODE1"}
  OBVIOUS
<1>4. "V7_MODE1" \notin {"V7_MODE2"} /\ "V7_MODE2" \notin {"V7_MODE1"}
  OBVIOUS
<1> QED
  BY <1>1, <1>2, <1>3, <1>4

LEMMA TestSteps == ASSUME FrameInv, TestFB \/ Test160 \/ TestMix PROVE FrameInv'
<1> DEFINE sw == soft_switches
<1>1. Same /\ renderer' = renderer /\ page2' = page2 /\ mono_rendering' = mono_rendering
  BY DEF TestFB, Test160, TestMix, Video7Test, Same, shared
<1>2. CASE TestFB
  <2>1. pc = "fb" /\ pc \in InVideo7
    BY <1>2 DEF TestFB, Video7Test, InVideo7
  <2>2. CASE "80STORE" \in sw /\ "80COL" \notin sw
    <3>1. Drawn("dhgr_fb", page2)
      BY <1>2, <2>2 DEF TestFB, Video7Test
    <3>2. \A s \in Seen : ~ Mixed /\ Explains(s) => Video7Kind(s) = "dhgr_fb"
      BY <2>1, <2>2, ModeSeen DEF Video7Kind
    <3> QED
      BY <1>1, <2>1, <3>1, <3>2, TestDraws
  <2>3. CASE ~ ("80STORE" \in sw /\ "80COL" \notin sw)
    <3>1. Continue("160") /\ pc' # "mix"
      BY <1>2, <2>3 DEF TestFB, Video7Test, Continue
    <3>2. \A s \in Seen : ~ Mixed /\ Explains(s) => ~ ("80STORE" \in s /\ "80COL" \notin s)
      BY <2>1, <2>3, ModeSeen
    <3> QED
      BY <1>1, <2>1, <3>1, <3>2, TestContinues
  <2> QED
    BY <2>2, <2>3
<1>3. CASE Test160
  <2>1. pc = "160" /\ pc \in InVideo7
    BY <1>3 DEF Test160, Video7Test, InVideo7
  <2>2. \A s \in Seen : Explains(s) => ~ ("80STORE" \in s /\ "80COL" \notin s)
    BY <2>1 DEF Explains, ExplainsVideo7
  <2>3. CASE V7Mode({"V7_MODE2"})
    <3>1. Drawn("dhgr_160", page2)
      BY <1>3, <2>3 DEF Test160, Video7Test
    <3>2. "V7_MODE2" \in sw /\ "V7_MODE1" \notin sw
      BY <2>3, ModesAre DEF V7Mode
    <3>3. ASSUME NEW s \in Seen, ~ Mixed, Explains(s) PROVE Video7Kind(s) = "dhgr_160"
      <4>1. "V7_MODE2" \in s /\ "V7_MODE1" \notin s
        BY <2>1, <3>2, <3>3, ModeSeen
      <4> QED
        BY <2>2, <3>3, <4>1 DEF Video7Kind
    <3> QED
      BY <1>1, <2>1, <3>1, <3>3, TestDraws
  <2>4. CASE ~ V7Mode({"V7_MODE2"})
    <3>1. Continue("mix")
      BY <1>3, <2>4 DEF Test160, Video7Test
    <3>2. ~ ("V7_MODE2" \in sw /\ "V7_MODE1" \notin sw)
      BY <2>4, ModesAre DEF V7Mode
    <3>3. \A s \in Seen : ~ Mixed /\ Explains(s) => ~ ("V7_MODE2" \in s /\ "V7_MODE1" \notin s)
      BY <2>1, <3>2, ModeSeen
    <3> QED
      BY <1>1, <2>1, <2>2, <3>1, <3>3, TestContinues
  <2> QED
    BY <2>3, <2>4
<1>4. CASE TestMix
  <2>1. pc = "mix" /\ pc \in InVideo7
    BY <1>4 DEF TestMix, Video7Test, InVideo7
  <2>2. \A s \in Seen : Explains(s) => /\ ~ ("80STORE" \in s /\ "80COL" \notin s)
                                       /\ ~ ("V7_MODE2" \in s /\ "V7_MODE1" \notin s)
    BY <2>1 DEF Explains, ExplainsVideo7
  <2>3. CASE V7Mode({"V7_MODE1"})
    <3>1. Drawn("dhgr_mixed", page2)
      BY <1>4, <2>3 DEF TestMix, Video7Test
    <3>2. "V7_MODE1" \in sw /\ "V7_MODE2" \notin sw
      BY <2>3, ModesAre DEF V7Mode
    <3>3. ASSUME NEW s \in Seen, ~ Mixed, Explains(s) PROVE Video7Kind(s) = "dhgr_mixed"
      <4>1. "V7_MODE1" \in s /\ "V7_MODE2" \notin s
        BY <2>1, <3>2, <3>3, ModeSeen
      <4> QED
        BY <2>2, <3>3, <4>1 DEF Video7Kind
    <3> QED
      BY <1>1, <2>1, <3>1, <3>3, TestDraws
  <2>4. CASE ~ V7Mode({"V7_MODE1"})
    <3>1. Drawn("dhgr", page2)
      BY <1>4, <2>4 DEF TestMix, Video7Test
    <3>2. ~ ("V7_MODE1" \in sw /\ "V7_MODE2" \notin sw)
      BY <2>4, ModesAre DEF V7Mode
    <3>3. ASSUME NEW s \in Seen, ~ Mixed, Explains(s) PROVE Video7Kind(s) = "dhgr"
      <4>1. "V7_MODE1" \in s /\ "V7_MODE2" \in s
        BY <2>1, <2>2, <3>2, <3>3, ModeSeen
      <4> QED
        BY <2>2, <3>3, <4>1 DEF Video7Kind
    <3> QED
      BY <1>1, <2>1, <3>1, <3>3, TestDraws
  <2> QED
    BY <2>3, <2>4
<1> QED
  BY <1>2, <1>3, <1>4

\* A step of text that reads the switches `names'.
LEMMA TextStep ==
  ASSUME FrameInv, Same, TypeInv', PlaceInv', NEW names \in SUBSET {"PAGE_2", "80STORE", "80COL", "DGR"},
         pc \in InText, pc' \in InText, shown' = shown,
         mono_rendering' = mono_rendering,
         \A s, t \in Seen : /\ ~ Mixed /\ Explains(s) /\ t = Merge(s, names)
                            => ExplainsText(t)'
  PROVE  FrameInv'
<1>1. TypeInv
  BY DEF FrameInv
<1>2. BaseInv' /\ RowAgrees'
  BY RowsStay DEF BaseInv, InText
<1>3. ~ Mixed => \E s \in Seen : Explains(s)'
  <2> HAVE ~ Mixed
  <2>1. PICK s \in Seen : Explains(s)
    BY Unmixed DEF Reading
  <2>2. PICK t : t = Merge(s, names)
    OBVIOUS
  <2>3. t \in Seen
    BY <1>1, <2>2, MergeSeen
  <2>4. "MONOCHROME" \in t <=> "MONOCHROME" \in s
    BY <2>2 DEF Merge
  <2>5. ExplainsCopy(t)'
    BY <2>1, <2>4 DEF Explains, ExplainsCopy
  <2>6. ExplainsGraphics(t)' /\ ExplainsVideo7(t)' /\ ExplainsVidex(t)'
    BY DEF ExplainsGraphics, ExplainsVideo7, ExplainsVidex, InGraphics, InVideo7, InVidex, InText
  <2>7. ExplainsText(t)'
    BY <2>1, <2>2, <2>3
  <2> QED
    BY <2>3, <2>5, <2>6, <2>7 DEF Explains
<1> QED
  BY <1>2, <1>3, FrameStep

\* What is not read now is as it was; colored text depends on switches that are steady.
LEMMA MergedText ==
  ASSUME TypeInv, ~ Mixed, NEW s \in Seen, NEW names, NEW t, t = Merge(s, names)
  PROVE  /\ \A n : n \in t <=> IF n \in names THEN n \in soft_switches ELSE n \in s
         /\ "DGR" \notin names => (Colored(t) <=> Colored(s))
<1>1. \A n : n \in t <=> IF n \in names THEN n \in soft_switches ELSE n \in s
  BY DEF Merge
<1>2. ASSUME video7 PROVE /\ "80STORE" \in t <=> "80STORE" \in s
                          /\ "80COL" \in t <=> "80COL" \in s
  BY <1>1, <1>2, Video7Steady
<1>3. "DGR" \notin names => (Colored(t) <=> Colored(s))
  BY <1>1, <1>2 DEF Colored, ColorText
<1> QED
  BY <1>1, <1>3

LEMMA TextPageStep == ASSUME FrameInv, TextPage PROVE FrameInv'
<1>1. /\ pc = "page" /\ page2' = PAGE2SEL(soft_switches)
      /\ pc' = IF renderer.mixed THEN "columns" ELSE "video7"
      /\ renderer' = renderer /\ mono_rendering' = mono_rendering /\ line' = line
      /\ shown' = shown /\ Same
  BY DEF TextPage, Same, shared
<1>2. TypeInv /\ PlaceInv
  BY DEF FrameInv
<1>3. TypeInv'
  BY <1>1, <1>2 DEF TypeInv, Same, Labels, InText, PAGE2SEL
<1>4. PlaceInv'
  BY <1>1, <1>2 DEF PlaceInv, InGraphics, InVideo7, InText
<1>5. ASSUME NEW s \in Seen, NEW t \in Seen, ~ Mixed, Explains(s),
             t = Merge(s, {"PAGE_2", "80STORE"})
      PROVE  ExplainsText(t)'
  <2>1. /\ Colored(t) <=> Colored(s)
        /\ PAGE2SEL(t) <=> PAGE2SEL(soft_switches)
        /\ "TEXT" \in t <=> "TEXT" \in s
        /\ "MIX" \in t <=> "MIX" \in s
        /\ "VIDEX_80COL" \in t <=> "VIDEX_80COL" \in s
    BY <1>2, <1>5, MergedText DEF PAGE2SEL
  <2>2. /\ IF renderer.mixed THEN "TEXT" \notin s /\ "MIX" \in s
           ELSE "TEXT" \in s /\ "VIDEX_80COL" \notin s
        /\ renderer.mixed => ~ Colored(s)
    BY <1>1, <1>5 DEF Explains, ExplainsText, InText, Uncolored
  <2>3. Colored(t)' <=> Colored(t)
    BY <1>1 DEF Colored, ColorText, Same
  <2>4. PAGE2SEL(t)' = PAGE2SEL(t)
    BY DEF PAGE2SEL
  <2> QED
    BY <1>1, <2>1, <2>2, <2>3, <2>4 DEF ExplainsText, InText, PageRead, Uncolored
<1> QED
  BY <1>1, <1>3, <1>4, <1>5, TextStep DEF InText

LEMMA TextVideo7Step == ASSUME FrameInv, TextVideo7 PROVE FrameInv'
<1> DEFINE colors == ColorText(soft_switches) /\ ~ mono_rendering
<1>1. /\ pc = "video7" /\ page2' = page2 /\ mono_rendering' = mono_rendering /\ line' = line
      /\ shown' = shown /\ Same
      /\ colors => pc' = "rows" /\ renderer' = [renderer EXCEPT !.kind = "color_text40"]
      /\ ~ colors => /\ renderer' = renderer
                     /\ pc' = IF renderer.mixed THEN "page" ELSE "columns"
  BY DEF TextVideo7, TextKind, Same, shared
<1> HIDE DEF colors
<1>2. TypeInv /\ PlaceInv
  BY DEF FrameInv
<1>3. renderer \in [kind : Kinds, mono : BOOLEAN, mixed : BOOLEAN]
  BY <1>1, <1>2 DEF TypeInv
<1>4. /\ renderer' \in [kind : Kinds, mono : BOOLEAN, mixed : BOOLEAN]
      /\ renderer'.mixed = renderer.mixed
      /\ colors => renderer'.kind = "color_text40"
  BY <1>1, <1>3 DEF Kinds
<1>5. pc' \in InText
  BY <1>1 DEF InText
<1>6. TypeInv'
  BY <1>1, <1>2, <1>4, <1>5 DEF TypeInv, Same, Labels
<1>7. PlaceInv'
  BY <1>1, <1>2, <1>4 DEF PlaceInv, InGraphics, InVideo7, InText
<1>8. ASSUME NEW s \in Seen, NEW t \in Seen, ~ Mixed, Explains(s), t = Merge(s, {"DGR"})
      PROVE  ExplainsText(t)'
  <2>1. \A n : n \in t <=> IF n = "DGR" THEN n \in soft_switches ELSE n \in s
    BY <1>2, <1>8, MergedText
  <2>2. Colored(t) <=> colors
    <3>1. video7 => /\ "80STORE" \in s <=> "80STORE" \in soft_switches
                    /\ "80COL" \in s <=> "80COL" \in soft_switches
      BY <1>2, <1>8, Video7Steady
    <3> QED
      BY <2>1, <3>1 DEF Colored, ColorText, colors
  <2>3. /\ IF renderer.mixed THEN "TEXT" \notin t /\ "MIX" \in t
           ELSE "TEXT" \in t /\ "VIDEX_80COL" \notin t
        /\ ~ renderer.mixed => (page2 <=> PAGE2SEL(t))
    BY <1>1, <1>8, <2>1 DEF Explains, ExplainsText, InText, PageRead, PAGE2SEL
  <2>4. Colored(t)' <=> Colored(t)
    BY <1>1 DEF Colored, ColorText, Same
  <2>5. PAGE2SEL(t)' = PAGE2SEL(t)
    BY DEF PAGE2SEL
  <2>6. CASE colors
    BY <1>1, <1>4, <2>2, <2>3, <2>4, <2>6 DEF ExplainsText, InText, PageRead, Uncolored
  <2>7. CASE ~ colors
    BY <1>1, <1>4, <2>2, <2>3, <2>4, <2>5, <2>7 DEF ExplainsText, InText, PageRead, Uncolored
  <2> QED
    BY <2>6, <2>7
<1>9. pc \in InText
  BY <1>1 DEF InText
<1> QED
  BY <1>1, <1>5, <1>6, <1>7, <1>8, <1>9, TextStep

LEMMA TextColumnsStep == ASSUME FrameInv, TextColumns PROVE FrameInv'
<1> DEFINE kind == IF "80COL" \in soft_switches THEN "text80" ELSE "text40"
<1>1. /\ pc = "columns" /\ pc' = "rows" /\ page2' = page2 /\ line' = line
      /\ mono_rendering' = mono_rendering /\ shown' = shown /\ Same
      /\ renderer' = [renderer EXCEPT !.kind = kind]
  BY DEF TextColumns, TextKind, Same, shared
<1>2. TypeInv /\ PlaceInv
  BY DEF FrameInv
<1>3. kind \in {"text40", "text80"} /\ (kind = "text80" <=> "80COL" \in soft_switches)
  OBVIOUS
<1> HIDE DEF kind
<1>4. /\ renderer' \in [kind : Kinds, mono : BOOLEAN, mixed : BOOLEAN]
      /\ renderer'.mixed = renderer.mixed /\ renderer'.kind = kind
  BY <1>1, <1>2, <1>3 DEF TypeInv, Kinds
<1>5. TypeInv'
  BY <1>1, <1>2, <1>4 DEF TypeInv, Same, Labels, InText
<1>6. PlaceInv'
  BY <1>1, <1>2, <1>3, <1>4 DEF PlaceInv, InGraphics, InVideo7, InText
<1>7. ASSUME NEW s \in Seen, NEW t \in Seen, ~ Mixed, Explains(s), t = Merge(s, {"80COL"})
      PROVE  ExplainsText(t)'
  <2>1. /\ Colored(t) <=> Colored(s)
        /\ PAGE2SEL(t) <=> PAGE2SEL(s)
        /\ "80COL" \in t <=> "80COL" \in soft_switches
        /\ "TEXT" \in t <=> "TEXT" \in s
        /\ "MIX" \in t <=> "MIX" \in s
        /\ "VIDEX_80COL" \in t <=> "VIDEX_80COL" \in s
    BY <1>2, <1>7, MergedText DEF PAGE2SEL
  <2>2. /\ IF renderer.mixed THEN "TEXT" \notin s /\ "MIX" \in s
           ELSE "TEXT" \in s /\ "VIDEX_80COL" \notin s
        /\ ~ Colored(s)
        /\ page2 <=> PAGE2SEL(s)
    BY <1>1, <1>7 DEF Explains, ExplainsText, InText, PageRead, Uncolored
  <2>3. Colored(t)' <=> Colored(t)
    BY <1>1 DEF Colored, ColorText, Same
  <2>4. PAGE2SEL(t)' = PAGE2SEL(t)
    BY DEF PAGE2SEL
  <2> QED
    BY <1>1, <1>3, <1>4, <2>1, <2>2, <2>3, <2>4 DEF ExplainsText, InText, PageRead, Uncolored
<1> QED
  BY <1>1, <1>5, <1>6, <1>7, TextStep DEF InText

\* Arithmetic of the text base.
LEMMA Periodic ==
  ASSUME NEW x \in Nat, NEW q \in Nat
  PROVE  (x + 2048 * q) % 2048 = x % 2048
OBVIOUS

LEMMA FourAtATime ==
  ASSUME NEW a \in Nat, (a % 2048) % 4 = 0, NEW col \in Nat
  PROVE  ((a + 4 * (col \div 4)) % 2048) + (col % 4) = (a + col) % 2048
<1> DEFINE b == (a + 4 * (col \div 4)) % 2048
           q == (a + 4 * (col \div 4)) \div 2048
<1>1. col = 4 * (col \div 4) + (col % 4) /\ col % 4 \in 0 .. 3 /\ col \div 4 \in Nat
  OBVIOUS
<1>2. a % 4 = 0
  OBVIOUS
<1>3. a + 4 * (col \div 4) = 2048 * q + b /\ b \in 0 .. 2047 /\ q \in Nat
  BY <1>1
<1>4. b % 4 = 0
  BY <1>1, <1>2
<1> HIDE DEF b, q
<1>5. b <= 2044
  BY <1>3, <1>4
<1>6. a + col = (b + (col % 4)) + 2048 * q
  BY <1>1, <1>3
<1>7. b + (col % 4) \in 0 .. 2047
  BY <1>1, <1>3, <1>5
<1>8. (a + col) % 2048 = b + (col % 4)
  BY <1>3, <1>6, <1>7
<1> QED
  BY <1>8 DEF b

LEMMA HighByte ==
  ASSUME NEW high \in Nat, NEW x \in Nat
  PROVE  (256 * (high % 64) + x) % 2048 = (256 * high + x) % 2048
<1>1. high = 64 * (high \div 64) + (high % 64) /\ high \div 64 \in Nat /\ high % 64 \in Nat
  OBVIOUS
<1>2. 256 * high + x = (256 * (high % 64) + x) + 2048 * (8 * (high \div 64))
  BY <1>1
<1>3. 256 * (high % 64) + x \in Nat /\ 8 * (high \div 64) \in Nat
  BY <1>1
<1> QED
  BY <1>2, <1>3, Periodic

LEMMA TextRowStep == ASSUME FrameInv, TextRow PROVE FrameInv'
<1> DEFINE colored == renderer.kind = "color_text40"
           second  == renderer.kind # "color_text40" /\ page2
           mono    == IF renderer.mixed THEN mono_rendering
                      ELSE renderer.kind # "color_text40"
<1>1. /\ pc = "rows" /\ line' = line + 1 /\ pc' \in {"rows", "switch", "fonts"}
      /\ shown' = [row |-> line, picture |-> Picture(renderer.kind, second, mono)]
      /\ renderer' = renderer /\ page2' = page2 /\ mono_rendering' = mono_rendering /\ Same
  BY DEF TextRow, Same, shared
<1>2. TypeInv /\ PlaceInv
  BY DEF FrameInv
<1>3. /\ line \in Nat /\ page2 \in BOOLEAN /\ mono_rendering \in BOOLEAN
      /\ renderer.mixed \in BOOLEAN
      /\ renderer.mixed => line >= TopRows
      /\ renderer.kind \in {"text40", "text80", "color_text40"}
  BY <1>1, <1>2 DEF TypeInv, PlaceInv, InText
<1>4. second \in BOOLEAN /\ mono \in BOOLEAN
  BY <1>3
<1>5. TypeInv'
  BY <1>1, <1>2, <1>3 DEF TypeInv, Same, Labels, InText
<1>6. PlaceInv'
  BY <1>1, <1>3 DEF PlaceInv, InGraphics, InVideo7, InText
<1>7. BaseInv'
  BY <1>1 DEF BaseInv
<1>8. ASSUME NEW s \in Seen, Explains(s) PROVE shown'.picture = ApplePicture(s, shown'.row)
  <2>1. /\ IF renderer.mixed THEN "TEXT" \notin s /\ "MIX" \in s
           ELSE "TEXT" \in s /\ "VIDEX_80COL" \notin s
        /\ mono_rendering <=> "MONOCHROME" \in s
    BY <1>1, <1>8 DEF Explains, ExplainsText, ExplainsCopy, InText
  <2>2. /\ ~ ("TEXT" \in s /\ "VIDEX_80COL" \in s)
        /\ "TEXT" \in s \/ ("MIX" \in s /\ line >= TopRows)
    BY <1>3, <2>1
  <2>3. CASE colored
    <3>1. Colored(s)
      BY <1>1, <1>8, <2>3 DEF Explains, ExplainsText, InText
    <3>2. second = FALSE /\ mono = FALSE
      BY <1>3, <2>3, <3>1 DEF Colored
    <3>3. Picture("color_text40", FALSE, FALSE) = ApplePicture(s, line)
      BY <1>3, <2>1, <2>2, <3>1, ColoredPicture
    <3> QED
      BY <1>1, <2>3, <3>2, <3>3
  <2>4. CASE ~ colored
    <3>1. /\ ~ Colored(s) /\ (page2 <=> PAGE2SEL(s))
          /\ renderer.kind = "text80" <=> "80COL" \in s
      BY <1>1, <1>8, <2>4 DEF Explains, ExplainsText, InText
    <3>2. second <=> PAGE2SEL(s)
      BY <2>4, <3>1
    <3>3. mono <=> "MONOCHROME" \in s \/ "TEXT" \in s
      BY <1>3, <2>1, <2>4
    <3>4. renderer.kind = IF "80COL" \in s THEN "text80" ELSE "text40"
      BY <1>3, <2>4, <3>1
    <3> HIDE DEF second, mono
    <3>5. Picture(renderer.kind, second, mono) = ApplePicture(s, line)
      BY <1>3, <1>4, <2>1, <2>2, <3>1, <3>2, <3>3, <3>4, PlainTextPicture
    <3> QED
      BY <1>1, <3>5
  <2> QED
    BY <2>3, <2>4
<1>9. AppleRows'
  <2>1. \A s, r : ApplePicture(s, r)' = ApplePicture(s, r)
    BY <1>1 DEF ApplePicture, AppleText, AppleGraphics, Same
  <2>2. Seen' = Seen /\ (Mixed' <=> Mixed)
    BY <1>1 DEF Seen, Mixed, Same
  <2>3. ~ Mixed => \E s \in Seen : Explains(s)
    BY <1>1, Unmixed DEF Reading, InText
  <2> QED
    BY <1>8, <2>1, <2>2, <2>3 DEF AppleRows
<1>10. VidexRows'
  BY <1>1, <1>3 DEF VidexRows, Picture
<1>11. pc' \in Reading /\ ~ Mixed => \E s \in Seen : Explains(s)'
  <2> HAVE pc' \in Reading /\ ~ Mixed
  <2>1. pc' = "rows"
    BY <1>1 DEF Reading, InGraphics, InText, InVidex
  <2>2. PICK s \in Seen : Explains(s)
    BY <1>1, Unmixed DEF Reading, InText
  <2>3. ExplainsCopy(s)' /\ ExplainsGraphics(s)' /\ ExplainsVideo7(s)' /\ ExplainsVidex(s)'
    BY <1>1, <2>1, <2>2 DEF Explains, ExplainsCopy, ExplainsGraphics, ExplainsVideo7,
         ExplainsVidex, InGraphics, InVideo7, InVidex
  <2>4. ExplainsText(s)'
    BY <1>1, <2>1, <2>2 DEF Explains, ExplainsText, InText, PageRead, Uncolored, Colored,
         ColorText, PAGE2SEL, Same
  <2> QED
    BY <2>2, <2>3, <2>4 DEF Explains
<1> QED
  BY <1>1, <1>5, <1>6, <1>7, <1>9, <1>10, <1>11, FrameStep DEF RowAgrees

LEMMA VidexPicture ==
  ASSUME NEW s, NEW row, "TEXT" \in s, "VIDEX_80COL" \in s
  PROVE  ApplePicture(s, row) = Picture("videx", FALSE, TRUE)
BY DEF ApplePicture

LEMMA VidexReads ==
  ASSUME FrameInv, Same, pc \in InVidex, pc' \in InVidex,
         mono_rendering' = mono_rendering
  PROVE  ~ Mixed => \E s \in Seen : Explains(s)'
<1> HAVE ~ Mixed
<1>1. PICK s \in Seen : Explains(s)
  BY Unmixed DEF Reading
<1>2. ExplainsCopy(s)' /\ ExplainsVidex(s)'
  BY <1>1 DEF Explains, ExplainsCopy, ExplainsVidex
<1>3. ExplainsGraphics(s)' /\ ExplainsVideo7(s)' /\ ExplainsText(s)'
  BY DEF ExplainsGraphics, ExplainsVideo7, ExplainsText, InGraphics, InVideo7, InText, InVidex
<1> QED
  BY <1>1, <1>2, <1>3 DEF Explains

LEMMA BaseSteps == ASSUME FrameInv, BaseHigh \/ BaseLow PROVE FrameInv'
<1>1. /\ pc \in {"high", "low"} /\ pc' \in {"low", "videx"} /\ shown' = shown
      /\ renderer' = renderer /\ page2' = page2 /\ mono_rendering' = mono_rendering
      /\ line' = line /\ Same
  BY DEF BaseHigh, BaseLow, Same, shared
<1>2. TypeInv /\ PlaceInv /\ BaseInv
  BY DEF FrameInv
<1>3. TypeInv'
  BY <1>1, <1>2 DEF TypeInv, Same, Labels, InVidex
<1>4. PlaceInv'
  BY <1>1, <1>2 DEF PlaceInv, InGraphics, InVideo7, InText
<1>5. /\ \A w : Values("R12", w)' = Values("R12", w)
      /\ \A w : Values("R13", w)' = Values("R13", w)
  BY <1>1 DEF Values, Same
<1>6. /\ videx_crtc_regs["R12"] \in Values("R12", CrtcHigh)
      /\ videx_crtc_regs["R13"] \in Values("R13", CrtcLow)
  BY <1>2 DEF Values, TypeInv
<1>7. CASE BaseHigh
  <2>1. pc' = "low" /\ text_base_addr' = 256 * (videx_crtc_regs["R12"] % 64)
    BY <1>7 DEF BaseHigh
  <2> QED
    BY <1>1, <1>3, <1>4, <1>5, <1>6, <2>1, RowsStay, VidexReads, FrameStep DEF BaseInv, InVidex
<1>8. CASE BaseLow
  <2>1. /\ pc = "low" /\ pc' = "videx"
        /\ text_base_addr' = text_base_addr + videx_crtc_regs["R13"]
    BY <1>8 DEF BaseLow
  <2>2. PICK high \in Values("R12", CrtcHigh) : text_base_addr = 256 * (high % 64)
    BY <1>2, <2>1 DEF BaseInv
  <2>3. BaseInv'
    BY <1>5, <1>6, <2>1, <2>2 DEF BaseInv
  <2> QED
    BY <1>1, <1>3, <1>4, <2>3, RowsStay, VidexReads, FrameStep DEF InVidex
<1> QED
  BY <1>7, <1>8

LEMMA BytesAreNumbers ==
  ASSUME TypeInv
  PROVE  Values("R12", CrtcHigh) \subseteq Nat /\ Values("R13", CrtcLow) \subseteq Nat
<1>1. videx_crtc_regs["R12"] \in Nat /\ videx_crtc_regs["R13"] \in Nat
  <2>1. videx_crtc_regs \in [{"R12", "R13"} -> Nat]
    BY DEF TypeInv
  <2> QED
    BY <2>1
<1>2. CrtcHigh \cup {0} \subseteq Nat /\ CrtcLow \cup {0} \subseteq Nat
  OBVIOUS
<1> QED
  BY <1>1, <1>2 DEF Values

LEMMA VidexRowStep == ASSUME FrameInv, VidexRow PROVE FrameInv'
<1>1. /\ pc = "videx" /\ line' = line + 1 /\ pc' \in {"videx", "switch"}
      /\ shown' = [row |-> line, picture |-> Picture("videx", FALSE, TRUE),
                   cells |-> Cells(line)]
      /\ renderer' = renderer /\ page2' = page2 /\ mono_rendering' = mono_rendering
      /\ text_base_addr' = text_base_addr /\ Same
  BY DEF VidexRow, Same, shared
<1>2. TypeInv /\ PlaceInv /\ BaseInv
  BY DEF FrameInv
<1>3. line \in Nat
  BY <1>2 DEF TypeInv
<1>4. TypeInv'
  BY <1>1, <1>2, <1>3 DEF TypeInv, Same, Labels, InVidex
<1>5. PlaceInv'
  BY <1>1 DEF PlaceInv, InGraphics, InVideo7, InText
<1>6. /\ \A w : Values("R12", w)' = Values("R12", w)
      /\ \A w : Values("R13", w)' = Values("R13", w)
  BY <1>1 DEF Values, Same
<1>7. PICK high \in Values("R12", CrtcHigh), low \in Values("R13", CrtcLow) :
        text_base_addr = 256 * (high % 64) + low
  BY <1>1, <1>2 DEF BaseInv
<1>8. BaseInv'
  BY <1>1, <1>6, <1>7 DEF BaseInv
<1>9. VidexRows'
  <2> SUFFICES ASSUME shown'.cells[0] % 4 = 0
               PROVE  ShowsFrom(256 * high + low)'
    BY <1>1, <1>6, <1>7 DEF VidexRows
  <2> DEFINE start == text_base_addr + 80 * line
  <2>1. high \in Nat /\ low \in Nat
    BY <1>2, <1>7, BytesAreNumbers
  <2>2. start \in Nat /\ text_base_addr \in Nat
    BY <1>3, <1>7, <2>1
  <2>3. \A col \in 0 .. 79 :
          shown'.cells[col] = ((start + 4 * (col \div 4)) % 2048) + (col % 4)
    BY <1>1 DEF Cells
  <2>4. shown'.cells[0] = start % 2048
    BY <2>2, <2>3
  <2>5. ASSUME NEW col \in 0 .. 79
        PROVE  shown'.cells[col] = (256 * high + low + 80 * line + col) % 2048
    <3>1. shown'.cells[col] = (start + col) % 2048
      <4> HIDE DEF start
      <4>1. (start % 2048) % 4 = 0 /\ col \in Nat
        BY <2>4
      <4> DEFINE cell == ((start + 4 * (col \div 4)) % 2048) + (col % 4)
      <4>2. cell = (start + col) % 2048
        BY <2>2, <4>1, FourAtATime
      <4>3. shown'.cells[col] = cell
        BY <2>3
      <4> HIDE DEF cell
      <4> QED
        BY <4>2, <4>3
    <3>2. start + col = 256 * (high % 64) + (low + 80 * line + col)
      BY <1>3, <1>7, <2>1
    <3>3. low + 80 * line + col \in Nat
      BY <1>3, <2>1
    <3>4. (256 * (high % 64) + (low + 80 * line + col)) % 2048
            = (256 * high + (low + 80 * line + col)) % 2048
      BY <2>1, <3>3, HighByte
    <3>5. 256 * high + (low + 80 * line + col) = 256 * high + low + 80 * line + col
      BY <1>3, <2>1
    <3> QED
      BY <3>1, <3>2, <3>4, <3>5
  <2> QED
    BY <1>1, <2>5 DEF ShowsFrom
<1>10. AppleRows'
  <2>1. \A s, r : ApplePicture(s, r)' = ApplePicture(s, r)
    BY <1>1 DEF ApplePicture, AppleText, AppleGraphics, Same
  <2>2. Seen' = Seen /\ (Mixed' <=> Mixed)
    BY <1>1 DEF Seen, Mixed, Same
  <2>3. ~ Mixed => \E s \in Seen : Explains(s)
    BY <1>1, Unmixed DEF Reading, InVidex
  <2>4. \A s : Explains(s) => shown'.picture = ApplePicture(s, shown'.row)
    BY <1>1, VidexPicture DEF Explains, ExplainsVidex, InVidex
  <2> QED
    BY <2>1, <2>2, <2>3, <2>4 DEF AppleRows
<1>11. pc' \in Reading /\ ~ Mixed => \E s \in Seen : Explains(s)'
  <2>1. pc' \in Reading => pc' \in InVidex
    BY <1>1 DEF InVidex, Reading, InGraphics, InText
  <2> QED
    BY <1>1, <2>1, VidexReads DEF InVidex
<1> QED
  BY <1>1, <1>4, <1>5, <1>8, <1>9, <1>10, <1>11, FrameStep DEF RowAgrees

\* At the end of the frame nothing is left to read.
LEMMA EndSteps ==
  ASSUME FrameInv, LoadFonts \/ CopyFonts \/ ClearRequests \/ ToggleSwitch
  PROVE  FrameInv'
<1>1. /\ pc' \in InLoading \cup {"switch", "loop"} /\ pc # "loop"
      /\ shown' = shown /\ renderer' = renderer
      /\ page2' = page2 /\ mono_rendering' = mono_rendering /\ line' = line /\ Same
  BY DEF LoadFonts, CopyFonts, CopyFont, ClearRequests, ToggleSwitch, Same, shared, frame,
         InLoading, Charsets
<1>2. TypeInv' /\ PlaceInv' /\ BaseInv'
  BY <1>1 DEF FrameInv, TypeInv, PlaceInv, BaseInv, Same, Labels, InGraphics, InVideo7, InText,
              InLoading, Charsets
<1>3. pc' \notin Reading
  BY <1>1 DEF Reading, InGraphics, InText, InVidex, InLoading, Charsets
<1> QED
  BY <1>1, <1>2, <1>3, RowsStay, FrameStep

-----------------------------------------------------------------------------
(* All steps.                                                              *)

LEMMA OutsideSteps == ASSUME FrameInv, Core1 \/ User \/ UNCHANGED vars PROVE FrameInv'
<1>1. TypeInv
  BY DEF FrameInv
<1>2. ASSUME NEW name \in Switches, SoftSwitch(name) PROVE FrameInv'
  <2>1. /\ soft_switches' \in {soft_switches \cup {name}, soft_switches \ {name}}
        /\ changed' = changed \cup {name} /\ UNCHANGED <<pc, frame, video7>>
        /\ videx_crtc_regs' = videx_crtc_regs
    BY <1>2 DEF SoftSwitch
  <2>2. TypeInv'
    BY <1>1, <2>1 DEF TypeInv, frame
  <2> QED
    BY <2>1, <2>2, OutsideStep
<1>3. ASSUME NEW r \in {"R12", "R13"}, NEW value \in IF r = "R12" THEN CrtcHigh ELSE CrtcLow,
             VidexRegister(r, value)
      PROVE  FrameInv'
  <2>1. /\ videx_crtc_regs' = [videx_crtc_regs EXCEPT ![r] = value]
        /\ changed' = changed \cup {r} /\ UNCHANGED <<pc, frame, video7>>
        /\ soft_switches' = soft_switches
    BY <1>3 DEF VidexRegister
  <2>2. value \in Nat
    OBVIOUS
  <2>3. TypeInv'
    BY <1>1, <2>1, <2>2 DEF TypeInv, frame
  <2> QED
    BY <1>1, <2>1, <2>3, OutsideStep DEF TypeInv
<1>4. CASE (\E c \in Charsets : RequestFont(c)) \/ User \/ UNCHANGED vars
  <2>1. UNCHANGED <<soft_switches, videx_crtc_regs, video7, pc, frame, changed>>
    BY <1>4 DEF RequestFont, User, MoveSwitch, SelectMode, vars, shared
  <2>2. TypeInv'
    BY <1>1, <2>1 DEF TypeInv, frame
  <2> QED
    BY <2>1, <2>2, OutsideStep
<1> QED
  BY <1>2, <1>3, <1>4 DEF Core1

LEMMA InitFrame == Init => FrameInv
<1> SUFFICES ASSUME Init PROVE FrameInv
  OBVIOUS
<1>1. TypeInv
  <2>1. video7 \in BOOLEAN
    BY DEF Init
  <2>2. videx_crtc_regs \in [{"R12", "R13"} -> {0}]
    BY DEF Init
  <2>3. /\ videx_crtc_regs \in [{"R12", "R13"} -> Nat]
        /\ videx_crtc_regs["R12"] = 0 /\ videx_crtc_regs["R13"] = 0
    BY <2>2
  <2>4. soft_switches \subseteq Switches
    BY DEF Init
  <2>5. pc = "loop" /\ pc \in Labels
    BY DEF Init, Labels
  <2> QED
    BY <2>1, <2>3, <2>4, <2>5 DEF Init, TypeInv
<1>2. pc = "loop" /\ shown = None
  BY DEF Init
<1> QED
  BY <1>1, <1>2 DEF FrameInv, PlaceInv, ReadInv, BaseInv, RowAgrees, AppleRows, VidexRows,
       InGraphics, InVideo7, InText, InVidex

LEMMA StepFrame == FrameInv /\ [Next]_vars => FrameInv'
<1> SUFFICES ASSUME FrameInv, [Next]_vars PROVE FrameInv'
  OBVIOUS
<1>1. CASE Core1 \/ User \/ UNCHANGED vars
  BY <1>1, OutsideSteps
<1>2. CASE Core0
  BY <1>2, FrameStarts, StartDhgrStep, GraphicsLineStep, Video7LineStep, TestSteps,
     TextPageStep, TextVideo7Step, TextColumnsStep, TextRowStep, BaseSteps, VidexRowStep,
     EndSteps DEF Core0
<1> QED
  BY <1>1, <1>2 DEF Next

\* The invariant of the frames.
THEOREM FramesHold == Spec => []FrameInv
BY InitFrame, StepFrame, PTL DEF Spec

\* Whatever core 1 does to the switches while a frame is drawn, on a screen of any
\* number of rows: each row shows what the Apple shows by one setting of them, and the
\* memory of the Videx card from its text base on (render.c:266, videx_vterm.c:208).
THEOREM RowsAgree == Spec => []RowAgrees
<1>1. FrameInv => RowAgrees
  BY DEF FrameInv
<1> QED
  BY <1>1, FramesHold, PTL

\* However the switch bounces, and whatever the threshold, it acts at most once for a
\* change of its state, and not before it has been steady (render.c:165).
THEOREM SwitchActs == Spec => []SwitchActsOnce
<1>1. DebounceInv => SwitchActsOnce
  BY DEF DebounceInv, SwitchActsOnce
<1> QED
  BY <1>1, InitDebounce, StepDebounce, PTL DEF Spec

-----------------------------------------------------------------------------
(* The requests for character sets.                                        *)

LEMMA InitRequests == Init => RequestInv
  BY DEF Init, RequestInv, RequestsStand

LEMMA OtherRequests ==
  ASSUME RequestInv, UNCHANGED fonts, pc' = pc \/ pc' \notin InLoading \/ pc' = "local"
  PROVE  RequestInv'
  BY DEF RequestInv, RequestsStand, fonts, Tested, InLoading, Charsets

LEMMA RequestRequests ==
  ASSUME RequestInv, NEW c \in Charsets, RequestFont(c)
  PROVE  RequestInv'
<1>1. /\ reload_charsets' = reload_charsets \cup {c} /\ outdated' = outdated \cup {c}
      /\ overtaken' = IF pc \in Tested(c) THEN overtaken \cup {c} ELSE overtaken \ {c}
      /\ pc' = pc
  BY DEF RequestFont
<1>2. outdated' \subseteq Charsets /\ RequestsStand'
  BY <1>1 DEF RequestInv, RequestsStand
<1>3. ASSUME NEW d \in outdated', pc \in Tested(d) PROVE d \in overtaken'
  BY <1>1, <1>3 DEF RequestInv
<1> QED
  BY <1>1, <1>2, <1>3 DEF RequestInv

LEMMA CopyRequests ==
  ASSUME RequestInv, CopyFonts \/ ClearRequests
  PROVE  RequestInv'
<1>1. ASSUME NEW c \in Charsets, NEW next, CopyFont(c, next),
             \A d \in Charsets : next \in Tested(d) => d = c \/ pc \in Tested(d)
      PROVE  RequestInv'
  <2>1. /\ reload_charsets' = reload_charsets
        /\ outdated' = outdated \ ({c} \cap reload_charsets)
        /\ overtaken' = overtaken \ ({c} \cap reload_charsets) /\ pc' = next
    BY <1>1 DEF CopyFont
  <2> QED
    BY <1>1, <2>1 DEF RequestInv, RequestsStand
<1>2. CASE CopyFont("local", "alternate")
  BY <1>1, <1>2 DEF Charsets, Tested
<1>3. CASE CopyFont("alternate", "videx_font")
  BY <1>1, <1>3 DEF Charsets, Tested, CopyFont
<1>4. CASE CopyFont("videx_font", "clear")
  BY <1>1, <1>4 DEF Charsets, Tested, CopyFont
<1>5. CASE ClearRequests
  <2>1. outdated \subseteq overtaken
    BY <1>5 DEF ClearRequests, RequestInv, Charsets, Tested
  <2> QED
    BY <1>5, <2>1 DEF ClearRequests, RequestInv, RequestsStand, Tested, Charsets
<1> QED
  BY <1>2, <1>3, <1>4, <1>5 DEF CopyFonts

LEMMA StepRequests == RequestInv /\ [Next]_vars => RequestInv'
<1> SUFFICES ASSUME RequestInv, [Next]_vars PROVE RequestInv'
  OBVIOUS
<1>1. CASE User \/ UNCHANGED vars
  BY <1>1, OtherRequests DEF User, MoveSwitch, SelectMode, vars, shared
<1>2. CASE Core1
  BY <1>2, OtherRequests, RequestRequests DEF Core1, SoftSwitch, VidexRegister
<1>3. CASE Frame
  BY <1>3, OtherRequests DEF Frame, shared, InLoading, Charsets
<1>4. CASE StartDhgr \/ Video7Line \/ TextPage \/ TextVideo7 \/ TextColumns \/ TextRow
  BY <1>4, OtherRequests
  DEF StartDhgr, Video7Line, TextPage, TextVideo7, TextColumns, TextRow, shared, InLoading,
      Charsets
<1>5. CASE GraphicsLine \/ TestFB \/ Test160 \/ TestMix
  BY <1>5, OtherRequests
  DEF GraphicsLine, TestFB, Test160, TestMix, Video7Test, Drawn, Continue, shared, InLoading,
      Charsets
<1>6. CASE BaseHigh \/ BaseLow \/ VidexRow \/ ToggleSwitch \/ LoadFonts
  BY <1>6, OtherRequests
  DEF BaseHigh, BaseLow, VidexRow, ToggleSwitch, LoadFonts, shared, InLoading, Charsets
<1>7. CASE CopyFonts \/ ClearRequests
  BY <1>7, CopyRequests
<1> QED
  BY <1>1, <1>2, <1>3, <1>4, <1>5, <1>6, <1>7 DEF Next, Core0

\* Whenever fonts are selected, also while core 0 loads some: a selected font is on the
\* screen, or its request stands, unless it came after core 0 had tested its bit
\* (config.c:259-292).
THEOREM NoFontForgotten == Spec => []RequestsStand
<1>1. RequestInv => RequestsStand
  BY DEF RequestInv
<1> QED
  BY <1>1, InitRequests, StepRequests, PTL DEF Spec
=============================================================================
