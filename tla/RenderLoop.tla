----------------------------- MODULE RenderLoop -----------------------------
(***************************************************************************)
(* The loop of core 0 that draws one frame after the other: which picture  *)
(* each row shows while core 1 changes the soft switches, what is done     *)
(* once per frame, and the debouncing of the toggle switch.                *)
(*                                                                         *)
(* Each step reads soft_switches, which is volatile, once. What the lines  *)
(* of a row consist of is in ScanlineRenderers, how many scanlines they    *)
(* send in DviScanout, what the switch does in ToggleSwitch.               *)
(***************************************************************************)
EXTENDS Integers, FiniteSets

CONSTANTS
  TopRows,             \* rows above the text of a mixed screen: 20
  TextRows,            \* rows of that text: 4
  RowLines,            \* lines of a row in hires: 8
  debounce_threshold,  \* 7
  CrtcHigh, CrtcLow,   \* what is written to the registers 12 and 13 of the Videx
  Scenes,              \* bound: sets of what changes during a behaviour
  MaxChanged,          \* bound: how many of it while a frame is drawn
  None

ASSUME RenderLoopAssumption ==
  /\ {TopRows, TextRows, RowLines, debounce_threshold} \subseteq Nat \ {0}
  /\ MaxChanged \in Nat
  /\ CrtcHigh \subseteq 0 .. 255 /\ CrtcLow \subseteq 0 .. 255

Switches == {"TEXT", "MIX", "HIRES", "PAGE_2", "80STORE", "80COL", "DGR",
             "MONOCHROME", "VIDEX_80COL", "V7_MODE1", "V7_MODE2"}
SwitchModes == {"Disabled", "Language", "CycleVideo"}
Rows == TopRows + TextRows

\* The bits of reload_charsets, in the order in which config_load_charsets tests them.
Charsets == {"local", "alternate", "videx_font"}

VARIABLES
  soft_switches, videx_crtc_regs, video7, reload_charsets,    \* written by core 1
  outdated,            \* the character sets whose selection has not been copied yet
  overtaken,           \* those of which the last request came between test and clear
  pc, renderer, line, page2, text_base_addr, mono_rendering,  \* of the frame
  shown,               \* the row that was drawn last
  input,               \* the switch
  input_switch_mode, debounce_counter, debounce_state, language_switch,
  scene,               \* bound: what changes in this behaviour
  changed,             \* what has changed since the frame began
  steady, acts,        \* equal samples in a row, and how often the switch acted
  kept                 \* whether it has the mode that it had when it last changed

fonts   == <<reload_charsets, outdated, overtaken>>
shared  == <<soft_switches, videx_crtc_regs, video7, fonts>>
frame   == <<renderer, line, page2, text_base_addr, mono_rendering, shown>>
switch  == <<debounce_counter, debounce_state, language_switch, steady, acts, kept>>
outside == <<input, input_switch_mode, scene>>
vars    == <<shared, pc, frame, switch, outside, changed>>

Init ==
  /\ scene \in Scenes
  /\ soft_switches \in SUBSET (scene \cap Switches)
  /\ video7 \in {card \in BOOLEAN : card => "VIDEO7" \in scene}
  /\ videx_crtc_regs \in [{"R12", "R13"} -> {0}]
  /\ reload_charsets = {} /\ outdated = {} /\ overtaken = {}
  /\ pc = "loop" /\ renderer = None /\ line = 0 /\ page2 = FALSE
  /\ text_base_addr = 0 /\ mono_rendering = FALSE /\ shown = None
  /\ IF "INPUT" \in scene THEN input \in BOOLEAN /\ input_switch_mode \in SwitchModes
                            ELSE input = FALSE /\ input_switch_mode = "Disabled"
  /\ debounce_counter = 0 /\ debounce_state = FALSE /\ language_switch = FALSE
  /\ changed = {} /\ steady = 1 /\ acts = 0 /\ kept = TRUE

-----------------------------------------------------------------------------
(* Core 1 and the user.                                                    *)

SoftSwitch(name) ==
  /\ name \in scene
  /\ soft_switches' \in {soft_switches \cup {name}, soft_switches \ {name}} \ {soft_switches}
  /\ changed' = changed \cup {name} /\ Cardinality(changed') <= MaxChanged
  /\ UNCHANGED <<videx_crtc_regs, video7, fonts, pc, frame, switch, outside>>

VidexRegister(r, value) ==
  /\ "CRTC" \in scene /\ value # videx_crtc_regs[r]
  /\ videx_crtc_regs' = [videx_crtc_regs EXCEPT ![r] = value]
  /\ changed' = changed \cup {r}
  /\ UNCHANGED <<soft_switches, video7, fonts, pc, frame, switch, outside>>

\* Where core 0 has tested the bit of a character set and not yet cleared all bits.
Tested(c) ==
  CASE c = "local"      -> {"alternate", "videx_font", "clear"}
    [] c = "alternate"  -> {"videx_font", "clear"}
    [] c = "videx_font" -> {"clear"}

\* A font is selected or uploaded, and its bit set. The Videx card is in use when one
\* of its fonts is selected.
RequestFont(c) ==
  /\ "FONT" \in scene
  /\ reload_charsets' = reload_charsets \cup {c}
  /\ outdated' = outdated \cup {c}
  /\ overtaken' = IF pc \in Tested(c) THEN overtaken \cup {c} ELSE overtaken \ {c}
  /\ UNCHANGED <<soft_switches, videx_crtc_regs, video7, pc, frame, switch, outside, changed>>

\* A switch that bounces changes at any time.
MoveSwitch ==
  /\ "INPUT" \in scene
  /\ input' = ~ input
  /\ UNCHANGED <<shared, pc, frame, switch, input_switch_mode, scene, changed>>

SelectMode(mode) ==
  /\ "INPUT" \in scene /\ mode # input_switch_mode
  /\ input_switch_mode' = mode
  /\ kept' = FALSE
  /\ UNCHANGED <<shared, pc, frame, debounce_counter, debounce_state, language_switch,
                 steady, acts, input, scene, changed>>

-----------------------------------------------------------------------------
(* The beginning of a frame.                                               *)

Double(s) == {"80COL", "DGR"} \subseteq s

\* A mutant of Dispatch: mixed screens need no 80 columns for double resolution.
DispatchEasyMix(s) ==
  CASE {"TEXT", "VIDEX_80COL"} \subseteq s -> "videx"
    [] "TEXT" \in s /\ "VIDEX_80COL" \notin s -> "text"
    [] s \cap {"TEXT", "HIRES"} = {} -> IF "DGR" \in s THEN "dgr" ELSE "lores"
    [] OTHER -> IF "DGR" \in s THEN "dhgr" ELSE "hires"

\* The renderer for the copy of the soft switches.
Dispatch(s) ==
  LET double == IF "MIX" \in s THEN Double(s) ELSE "DGR" \in s
  IN  CASE {"TEXT", "VIDEX_80COL"} \subseteq s -> "videx"
        [] "TEXT" \in s /\ "VIDEX_80COL" \notin s -> "text"
        [] s \cap {"TEXT", "HIRES"} = {} -> IF double THEN "dgr" ELSE "lores"
        [] OTHER -> IF double THEN "dhgr" ELSE "hires"

\* `mixed': the frame has text below; `mono': dhgr without colors.
Frame ==
  /\ pc = "loop"
  /\ LET kind == Dispatch(soft_switches)
     IN  /\ renderer' = [kind |-> kind, mono |-> "MONOCHROME" \in soft_switches,
                         mixed |-> soft_switches \cap {"TEXT", "MIX"} = {"MIX"}]
         /\ pc' = CASE kind = "videx" -> "high" [] kind = "text" -> "page"
                    [] kind = "dhgr" -> "dhgr" [] OTHER -> "line"
  /\ mono_rendering' = ("MONOCHROME" \in soft_switches)
  /\ line' = 0 /\ shown' = None /\ changed' = {}
  /\ UNCHANGED <<shared, page2, text_base_addr, switch, outside>>

\* A Video7 card that shows double hires without colors.
StartDhgr ==
  /\ pc = "dhgr"
  /\ renderer' = [renderer EXCEPT !.mono =
       mono_rendering \/ (video7 /\ soft_switches \cap {"V7_MODE1", "V7_MODE2"} = {})]
  /\ pc' = "line"
  /\ UNCHANGED <<shared, line, page2, text_base_addr, mono_rendering, shown,
                 switch, outside, changed>>

-----------------------------------------------------------------------------
(* Rows of graphics.                                                       *)

\* A mutant of PAGE2SEL: 80STORE is forgotten.
PageBitOnly(s) == "PAGE_2" \in s
PAGE2SEL(s) == "PAGE_2" \in s /\ "80STORE" \notin s

Picture(kind, second, mono) ==
  [kind |-> kind, page2 |-> second, mono |-> mono]

LinesPerRow == IF renderer.kind \in {"hires", "dhgr"} THEN RowLines ELSE 1

\* The line is drawn; after the last one comes the text of a mixed screen.
Drawn(kind, second) ==
  /\ shown' = [row |-> line \div LinesPerRow,
               picture |-> Picture(kind, second, renderer.mono)]
  /\ LET rows == IF renderer.mixed THEN TopRows ELSE Rows
         done == line + 1 = rows * LinesPerRow
     IN  /\ line' = IF done THEN TopRows ELSE line + 1
         /\ pc' = IF ~ done THEN "line" ELSE IF renderer.mixed THEN "video7" ELSE "switch"

GraphicsLine ==
  /\ pc = "line" /\ ~ (renderer.kind = "dhgr" /\ video7 /\ ~ renderer.mono)
  /\ Drawn(renderer.kind, PAGE2SEL(soft_switches))
  /\ page2' = PAGE2SEL(soft_switches)
  /\ UNCHANGED <<shared, renderer, text_base_addr, mono_rendering, switch, outside, changed>>

\* With a Video7 card the line reads the switches again for each of three modes.
Video7Line ==
  /\ pc = "line" /\ renderer.kind = "dhgr" /\ video7 /\ ~ renderer.mono
  /\ page2' = PAGE2SEL(soft_switches)
  /\ pc' = "fb"
  /\ UNCHANGED <<shared, renderer, line, text_base_addr, mono_rendering, shown,
                 switch, outside, changed>>

Video7Test(label, match, kind, otherwise) ==
  /\ pc = label
  /\ IF match THEN Drawn(kind, page2) ELSE otherwise
  /\ UNCHANGED <<shared, renderer, page2, text_base_addr, mono_rendering,
                 switch, outside, changed>>

Continue(label) == pc' = label /\ UNCHANGED <<line, shown>>
V7Mode(modes) == soft_switches \cap {"V7_MODE1", "V7_MODE2"} = modes

TestFB == Video7Test("fb", "80STORE" \in soft_switches /\ "80COL" \notin soft_switches,
                     "dhgr_fb", Continue("160"))
Test160 == Video7Test("160", V7Mode({"V7_MODE2"}), "dhgr_160", Continue("mix"))
TestMix == Video7Test("mix", V7Mode({"V7_MODE1"}), "dhgr_mixed", Drawn("dhgr", page2))

-----------------------------------------------------------------------------
(* Text: render_text, and render_mixed_text below graphics.                *)

ColorText(s) == video7 /\ {"80STORE", "DGR"} \subseteq s /\ "80COL" \notin s

TextKind(kind) == renderer' = [renderer EXCEPT !.kind = kind]

\* render_text tests for the page first, render_mixed_text for the Video7 card.
TextPage ==
  /\ pc = "page"
  /\ page2' = PAGE2SEL(soft_switches)
  /\ pc' = IF renderer.mixed THEN "columns" ELSE "video7"
  /\ UNCHANGED <<shared, renderer, line, text_base_addr, mono_rendering, shown,
                 switch, outside, changed>>

TextVideo7 ==
  /\ pc = "video7"
  /\ IF ColorText(soft_switches) /\ ~ mono_rendering
     THEN TextKind("color_text40") /\ pc' = "rows"
     ELSE UNCHANGED renderer /\ pc' = IF renderer.mixed THEN "page" ELSE "columns"
  /\ UNCHANGED <<shared, line, page2, text_base_addr, mono_rendering, shown,
                 switch, outside, changed>>

TextColumns ==
  /\ pc = "columns"
  /\ TextKind(IF "80COL" \in soft_switches THEN "text80" ELSE "text40")
  /\ pc' = "rows"
  /\ UNCHANGED <<shared, line, page2, text_base_addr, mono_rendering, shown,
                 switch, outside, changed>>

\* Text alone has the tint of a monochrome screen; below colors it is white. The
\* colored text of the Video7 card returns early.
TextRow ==
  /\ pc = "rows"
  /\ shown' = [row |-> line,
               picture |-> Picture(renderer.kind,
                                   renderer.kind # "color_text40" /\ page2,
                                   IF renderer.mixed THEN mono_rendering
                                   ELSE renderer.kind # "color_text40")]
  /\ line' = line + 1
  /\ pc' = IF line + 1 < Rows THEN "rows"
           ELSE IF renderer.mixed \/ renderer.kind = "color_text40" THEN "switch" ELSE "fonts"
  /\ UNCHANGED <<shared, renderer, page2, text_base_addr, mono_rendering,
                 switch, outside, changed>>

\* A mutant of LoadFonts: only the local character set is considered.
LoadFontsLocal ==
  /\ pc = "fonts"
  /\ pc' = IF "local" \notin reload_charsets THEN "switch" ELSE "local"
  /\ UNCHANGED <<shared, frame, switch, outside, changed>>

\* render_text ends with config_load_charsets, where something has requested it.
LoadFonts ==
  /\ pc = "fonts"
  /\ pc' = IF reload_charsets = {} THEN "switch" ELSE "local"
  /\ UNCHANGED <<shared, frame, switch, outside, changed>>

\* config_load_charsets tests one bit after the other; core 1 runs while it copies.
CopyFont(c, next) ==
  /\ pc = c
  /\ pc' = next
  /\ LET copied == {c} \cap reload_charsets
     IN  /\ outdated' = outdated \ copied
         /\ overtaken' = overtaken \ copied
  /\ UNCHANGED <<reload_charsets, soft_switches, videx_crtc_regs, video7,
                 frame, switch, outside, changed>>

CopyFonts ==
  \/ CopyFont("local", "alternate") \/ CopyFont("alternate", "videx_font")
  \/ CopyFont("videx_font", "clear")

\* Then it clears all bits, those that core 1 has set since the test included.
ClearRequests ==
  /\ pc = "clear"
  /\ pc' = "switch"
  /\ reload_charsets' = {}
  /\ UNCHANGED <<outdated, overtaken, soft_switches, videx_crtc_regs, video7,
                 frame, switch, outside, changed>>

-----------------------------------------------------------------------------
(* The text of the Videx card: its text base is read once, in two bytes.   *)

BaseHigh ==
  /\ pc = "high"
  /\ text_base_addr' = 256 * (videx_crtc_regs["R12"] % 64)
  /\ pc' = "low"
  /\ UNCHANGED <<shared, renderer, line, page2, mono_rendering, shown, switch, outside, changed>>

BaseLow ==
  /\ pc = "low"
  /\ text_base_addr' = text_base_addr + videx_crtc_regs["R13"]
  /\ pc' = "videx"
  /\ UNCHANGED <<shared, renderer, line, page2, mono_rendering, shown, switch, outside, changed>>

\* A mutant of Cells: the offset does not wrap.
CellsUnmasked(row) ==
  [col \in 0 .. 79 |-> text_base_addr + 80 * row + col]

\* Four characters at a time, from an offset that wraps at 2 KB.
Cells(row) ==
  [col \in 0 .. 79 |-> ((text_base_addr + 80 * row + 4 * (col \div 4)) % 2048) + (col % 4)]

VidexRow ==
  /\ pc = "videx"
  /\ shown' = [row |-> line, picture |-> Picture("videx", FALSE, TRUE), cells |-> Cells(line)]
  /\ line' = line + 1
  /\ pc' = IF line + 1 < Rows THEN "videx" ELSE "switch"
  /\ UNCHANGED <<shared, renderer, page2, text_base_addr, mono_rendering,
                 switch, outside, changed>>

-----------------------------------------------------------------------------
(* The end of a frame.                                                     *)

\* The next value of the counter for a sample that is equal to the last.
Sampled(counter) ==
  IF counter + 1 > debounce_threshold THEN debounce_threshold + 1 ELSE counter + 1

Least(a, b) == IF a < b THEN a ELSE b

\* A mutant of Restarted: a bounce does not restart the count.
RestartedNever(counter) == counter
Restarted(counter) == 0

\* A mutant of Bounced: only switching off is noticed.
BouncedOn == input_switch_mode = "Disabled"

Bounced == input # debounce_state \/ input_switch_mode = "Disabled"

\* The switch is sampled once per frame, and acts when it has been steady.
ToggleSwitch ==
  /\ pc = "switch"
  /\ pc' = "loop"
  /\ IF Bounced
     THEN /\ debounce_counter' = Restarted(debounce_counter) /\ debounce_state' = input
          /\ steady' = 1 /\ acts' = 0 /\ kept' = TRUE
          /\ UNCHANGED language_switch
     ELSE LET acting == Sampled(debounce_counter) = debounce_threshold
          IN  /\ debounce_counter' = Sampled(debounce_counter)
              /\ steady' = Least(steady + 1, debounce_threshold + 2)
              /\ acts' = IF acting THEN Least(acts + 1, 2) ELSE acts
              /\ language_switch' = IF acting /\ input_switch_mode = "Language" THEN input
                                    ELSE language_switch
              /\ UNCHANGED <<debounce_state, kept>>
  /\ UNCHANGED <<shared, frame, outside, changed>>

Core1 ==
  \/ \E name \in Switches : SoftSwitch(name)
  \/ \E value \in CrtcHigh : VidexRegister("R12", value)
  \/ \E value \in CrtcLow : VidexRegister("R13", value)
  \/ \E c \in Charsets : RequestFont(c)

User == MoveSwitch \/ \E mode \in SwitchModes : SelectMode(mode)

Core0 ==
  \/ Frame \/ StartDhgr \/ GraphicsLine \/ Video7Line \/ TestFB \/ Test160 \/ TestMix
  \/ TextPage \/ TextVideo7 \/ TextColumns \/ TextRow
  \/ LoadFonts \/ CopyFonts \/ ClearRequests
  \/ BaseHigh \/ BaseLow \/ VidexRow \/ ToggleSwitch

Next == Core1 \/ User \/ Core0

\* Core 0 never stops; nothing outside has to happen.
Spec == Init /\ [][Next]_vars /\ WF_vars(Core0)
=============================================================================
