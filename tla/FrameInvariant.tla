--------------------------- MODULE FrameInvariant ---------------------------
(***************************************************************************)
(* The inductive invariant of the frames, in named parts: what core 0 has  *)
(* read so far is, at every step, what one setting of the switches would   *)
(* have told it.                                                           *)
(***************************************************************************)
EXTENDS AppleFrames

InGraphics == {"line", "fb", "160", "mix"}
InVideo7   == {"fb", "160", "mix"}
InText     == {"page", "video7", "columns", "rows"}
InVidex    == {"high", "low", "videx"}
InLoading  == Charsets \cup {"clear"}
Labels     == InGraphics \cup InText \cup InVidex \cup InLoading
                \cup {"loop", "dhgr", "fonts", "switch"}
Kinds      == Graphics \cup {"text", "text40", "text80", "color_text40", "videx"}

TypeInv ==
  /\ soft_switches \subseteq Switches
  /\ videx_crtc_regs \in [{"R12", "R13"} -> Nat]
  /\ videx_crtc_regs["R12"] \in CrtcHigh \cup {0} /\ videx_crtc_regs["R13"] \in CrtcLow \cup {0}
  /\ video7 \in BOOLEAN /\ mono_rendering \in BOOLEAN /\ page2 \in BOOLEAN
  /\ pc \in Labels
  /\ line \in Nat
  /\ pc # "loop" => renderer \in [kind : Kinds, mono : BOOLEAN, mixed : BOOLEAN]

\* Graphics above a text keep above it, and the text below.
PlaceInv ==
  /\ pc \in InGraphics \cup {"dhgr"} => renderer.kind \in Graphics
  /\ pc \in InVideo7 \cup {"dhgr"} => renderer.kind = "dhgr"
  /\ pc = "dhgr" => line = 0
  /\ pc \in InGraphics /\ renderer.mixed => line < TopRows * LinesPerRow
  /\ pc \in InText /\ renderer.mixed => line >= TopRows
  /\ pc = "rows" => renderer.kind \in {"text40", "text80", "color_text40"}

GraphicsKind(s) ==
  LET double == "DGR" \in s /\ ("MIX" \in s => "80COL" \in s)
  IN  IF "HIRES" \in s THEN IF double THEN "dhgr" ELSE "hires"
      ELSE IF double THEN "dgr" ELSE "lores"

Gray(s) == video7 /\ renderer.kind = "dhgr" /\ "V7_MODE1" \notin s /\ "V7_MODE2" \notin s

\* What the frame has read is what it would have read, had the switches been s.
ExplainsCopy(s) == mono_rendering <=> "MONOCHROME" \in s

ExplainsGraphics(s) ==
  pc \in InGraphics \cup {"dhgr"} =>
    /\ "TEXT" \notin s
    /\ renderer.mixed <=> "MIX" \in s
    /\ renderer.kind = GraphicsKind(s)
    /\ pc # "dhgr" => (renderer.mono <=> mono_rendering \/ Gray(s))

ExplainsVideo7(s) ==
  pc \in InVideo7 =>
    /\ video7 /\ ~ renderer.mono
    /\ page2 <=> PAGE2SEL(s)
    /\ pc \in {"160", "mix"} => ~ ("80STORE" \in s /\ "80COL" \notin s)
    /\ pc = "mix" => ~ ("V7_MODE2" \in s /\ "V7_MODE1" \notin s)

PageRead   == pc = "columns" \/ (pc = "video7" /\ ~ renderer.mixed)
Uncolored  == pc = "columns" \/ (pc = "page" /\ renderer.mixed)
Colored(s) == ColorText(s) /\ ~ mono_rendering

ExplainsText(s) ==
  pc \in InText =>
    /\ IF renderer.mixed THEN "TEXT" \notin s /\ "MIX" \in s
       ELSE "TEXT" \in s /\ "VIDEX_80COL" \notin s
    /\ PageRead => (page2 <=> PAGE2SEL(s))
    /\ Uncolored => ~ Colored(s)
    /\ pc = "rows" =>
         IF renderer.kind = "color_text40" THEN Colored(s)
         ELSE /\ ~ Colored(s)
              /\ page2 <=> PAGE2SEL(s)
              /\ renderer.kind = "text80" <=> "80COL" \in s

ExplainsVidex(s) == pc \in InVidex => "TEXT" \in s /\ "VIDEX_80COL" \in s

Explains(s) ==
  /\ ExplainsCopy(s) /\ ExplainsGraphics(s) /\ ExplainsVideo7(s) /\ ExplainsText(s)
  /\ ExplainsVidex(s)

ReadInv == pc \in InGraphics \cup {"dhgr"} \cup InText \cup InVidex /\ ~ Mixed =>
             \E s \in Seen : Explains(s)

\* The same for the text base of the Videx card.
BaseInv ==
  /\ pc = "low" => \E high \in Values("R12", CrtcHigh) : text_base_addr = 256 * (high % 64)
  /\ pc = "videx" =>
       \E high \in Values("R12", CrtcHigh), low \in Values("R13", CrtcLow) :
         text_base_addr = 256 * (high % 64) + low

FrameInv == TypeInv /\ PlaceInv /\ ReadInv /\ BaseInv /\ RowAgrees

\* The switch acts when its counter passes the threshold, where it stays.
DebounceInv ==
  /\ debounce_counter \in 0 .. debounce_threshold + 1
  /\ steady = debounce_counter + 1
  /\ acts = IF debounce_counter >= debounce_threshold THEN 1 ELSE 0

\* While core 0 loads character sets, those whose bits it has tested are copied, or a
\* later request has overtaken it.
RequestInv ==
  /\ outdated \subseteq Charsets
  /\ RequestsStand
  /\ \A c \in outdated : pc \in Tested(c) => c \in overtaken
=============================================================================
