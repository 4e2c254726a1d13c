-------------------------------- MODULE Menu --------------------------------
(***************************************************************************)
(* The menu that the card draws over the Apple's text page: menu.c.        *)
(*                                                                         *)
(* What is on the screen is a record: `page' says which screen was drawn   *)
(* last and `shown' the values of the settings that the menu displays.     *)
(***************************************************************************)
EXTENDS Config

MENU_ENTRY_COUNT == 17
MENU_OFS_NONCFG  == 11

\* Menu entries; the last six have no value.
EntryMachine == 0
EntryLocal   == 1
EntrySwitch  == 2
EntryAlt     == 3
EntryDebug   == 10
EntryRestore == MENU_OFS_NONCFG
EntryLoad    == MENU_OFS_NONCFG + 1
EntrySave    == MENU_OFS_NONCFG + 2
EntryAbout   == MENU_OFS_NONCFG + 3
EntryTest    == MENU_OFS_NONCFG + 5

\* Keys by their meaning (ASCII codes, upper and lower case).
Upper(key)  == IF key \in 97 .. 122 THEN key - 32 ELSE key
Digits      == 48 .. 57
Jump        == [key \in {68, 82, 76, 83, 65, 66, 84} |->     \* D R L S A B T
                  CASE key = 68 -> EntryDebug   [] key = 82 -> EntryRestore
                    [] key = 76 -> EntryLoad    [] key = 83 -> EntrySave
                    [] key = 65 -> EntryAbout   [] key = 66 -> EntryAbout + 1
                    [] key = 84 -> EntryTest]
UpKeys      == {73, 11}
DownKeys    == {77, 9, 10}
LeftKeys    == {74, 127, 8}
RightKeys   == {75, 21}
EnterKeys   == {13, 32}
Escape      == 27
Bang        == 33
KeyOpen     == 0        \* not keys: the first draws the menu anew, the second
KeyRefresh  == 1        \* is what core 0 sends after a change by the switch

-----------------------------------------------------------------------------
(* Drawing.                                                                *)

\* The values that the menu displays; the line of the alternate character set
\* is left out while the switch does not select character sets.
Values(s) ==
  [machine |-> s.cfg_machine, local |-> s.cfg_local_charset,
   switch |-> s.input_switch_mode, color |-> s.color_mode,
   fx |-> s.rendering_fx, videx |-> s.cfg_videx_selection,
   flags |-> s.internal_flags \cap (StoredFlags \ {"TEST"}),
   alt |-> IF LANGUAGE_SWITCH_ENABLED(s) THEN <<s.cfg_alt_charset>> ELSE << >>]

menuShowFrame(s, page) ==
  [s EXCEPT
     !.soft_switches =
        (@ \cup {"TEXT"}) \ {"MIX", "80COL", "PAGE_2", "DGR", "HIRES"},
     !.screen = [page |-> page, shown |-> << >>]]

menuShowTest(s) ==
  [s EXCEPT !.soft_switches = (@ \cup {"MIX", "80COL"}) \ {"TEXT", "PAGE_2"},
            !.screen = [page |-> "test", shown |-> << >>]]

DrawMenu(s) ==
  LET frame == IF s.MenuNeedsRedraw
               THEN [menuShowFrame(s, "menu") EXCEPT !.MenuNeedsRedraw = FALSE]
               ELSE s
      drawn == [Values(s) EXCEPT !.alt =
                  IF @ = << >> /\ frame.screen.shown # << >>
                  THEN frame.screen.shown[1].alt ELSE @]
  IN  [frame EXCEPT !.screen.shown = <<drawn>>]

-----------------------------------------------------------------------------
(* Changing settings.                                                      *)

\* One step up or down, between bounds.
Stepped(n, increase, low, high) ==
  CASE increase /\ n < high -> n + 1
    [] ~ increase /\ n > low -> n - 1
    [] OTHER -> n

\* Mutant of NextMachine: one machine too many.
NextMachineTooFar(m, increase) ==
  IF increase /\ m = MACHINE_AUTO THEN MACHINE_II
  ELSE Stepped(m, increase, 0, MACHINE_MAX_CFG + 1)

NextMachine(m, increase) ==
  CASE increase /\ m = MACHINE_AUTO -> MACHINE_II
    [] ~ increase /\ m = MACHINE_II -> MACHINE_AUTO
    [] ~ increase /\ m = MACHINE_AUTO -> m
    [] OTHER -> Stepped(m, increase, 0, MACHINE_MAX_CFG)

\* The machine that the setting stands for.
Effective(s) == IF s.cfg_machine = MACHINE_AUTO THEN s.detected_machine
                ELSE s.cfg_machine

\* The alternate character set is a US one or a custom one.
AltFonts == {0} \cup 9 .. 11 \cup FirstCustom .. MAX_FONT_COUNT - 1

NextAlt(font, increase) ==
  LET others == IF increase THEN {f \in AltFonts : f > font}
                ELSE {f \in AltFonts : f < font}
  IN  IF font \notin AltFonts \/ others = {} THEN font
      ELSE CHOOSE f \in others :
             \A g \in others : IF increase THEN f <= g ELSE f >= g

Toggle(s, flag) == Flag(s, flag \notin s.internal_flags, flag)

Reload(s, change, bit) ==
  IF change THEN [s EXCEPT !.reload_charsets = @ \cup {bit}] ELSE s

\* menuDoSelection for the entries that have a value.
SetEntry(s, increase) ==
  CASE s.CurrentMenu = EntryMachine ->
         LET chosen == [s EXCEPT !.cfg_machine = NextMachine(@, increase)]
         IN  set_machine(chosen, Effective(chosen))
    [] s.CurrentMenu = EntryLocal ->
         LET font == Stepped(s.cfg_local_charset, increase, 0, MAX_FONT_COUNT - 1)
         IN  Reload([s EXCEPT !.cfg_local_charset = font],
                    font # s.cfg_local_charset, Local)
    [] s.CurrentMenu = EntrySwitch ->
         LET mode == [s EXCEPT !.input_switch_mode =
                        Stepped(@, increase, ModeSwitchDisabled, ModeSwitchLangCycle)]
         IN  IF LANGUAGE_SWITCH_ENABLED(mode) THEN mode
             ELSE [mode EXCEPT !.language_switch = FALSE]
    [] s.CurrentMenu = EntryAlt /\ LANGUAGE_SWITCH_ENABLED(s) ->
         LET font == NextAlt(s.cfg_alt_charset, increase)
         IN  Reload([s EXCEPT !.cfg_alt_charset = font],
                    font # s.cfg_alt_charset, Alternate)
    [] s.CurrentMenu = 4 ->
         [s EXCEPT !.color_mode = Stepped(@, increase, 0, 2)]
    [] s.CurrentMenu = 5 -> Toggle(s, "FORCED_MONO")
    [] s.CurrentMenu = 6 -> Toggle(s, "SCANLINEEMU")
    [] s.CurrentMenu = 7 ->
         config_setflags([s EXCEPT !.rendering_fx = Stepped(@, increase, 0, FX_DGR_ONLY)])
    [] s.CurrentMenu = 8 ->
         LET v7 == Toggle(s, "VIDEO7")
         IN  IF "VIDEO7" \in v7.internal_flags
             THEN [v7 EXCEPT !.soft_switches = @ \cup {"V7_MODE1", "V7_MODE2"}]
             ELSE v7
    [] s.CurrentMenu = 9 ->
         LET n == Stepped(s.cfg_videx_selection, increase, 0, VIDEX_FONT_COUNT)
         IN  Flag(Reload([s EXCEPT !.cfg_videx_selection = n],
                         n # s.cfg_videx_selection /\ n > 0, Videx),
                  n > 0, "VIDEX")
    [] s.CurrentMenu = EntryDebug -> Flag(Toggle(s, "DEBUG_LINES"), FALSE, "TEST")
    [] OTHER -> s

\* Mutants of RunEntry: the machine stays what was loaded, although another one
\* was detected, or the key after "SAVED!" goes to the hidden menu.
RunEntryForgetsMachine(s) ==
  CASE s.CurrentMenu = EntryRestore -> config_load_defaults(s)
    [] s.CurrentMenu = EntryLoad -> config_load(s)
    [] s.CurrentMenu = EntrySave -> config_save(s)
    [] OTHER -> [menuShowFrame(s, "info") EXCEPT !.IgnoreNextKeypress = TRUE]

RunEntryKeepsKeys(s) ==
  CASE s.CurrentMenu = EntryRestore ->
         LET d == config_load_defaults(s) IN set_machine(d, Effective(d))
    [] s.CurrentMenu = EntrySave -> menuShowFrame(config_save(s), "saved")
    [] OTHER -> [menuShowFrame(s, "info") EXCEPT !.IgnoreNextKeypress = TRUE]

\* menuDoSelection for the others, which only the "increase" commands select.
RunEntry(s) ==
  CASE s.CurrentMenu = EntryRestore ->
         LET d == config_load_defaults(s) IN set_machine(d, Effective(d))
    [] s.CurrentMenu = EntryLoad ->
         LET d == config_load(s) IN set_machine(d, Effective(d))
    [] s.CurrentMenu = EntrySave ->
         [menuShowFrame(config_save(s), "saved") EXCEPT !.IgnoreNextKeypress = TRUE]
    [] s.CurrentMenu = EntryTest ->
         [menuShowTest(s) EXCEPT !.IgnoreNextKeypress = TRUE]
    [] OTHER ->                                         \* About and Debug
         [menuShowFrame(s, "info") EXCEPT !.IgnoreNextKeypress = TRUE]

menuDoSelection(s, increase) ==
  CASE s.CurrentMenu < MENU_OFS_NONCFG -> SetEntry(s, increase)
    [] increase /\ s.CurrentMenu >= MENU_OFS_NONCFG -> RunEntry(s)
    [] OTHER -> s

\* menuDoSelection returns TRUE: another page is on the screen.
LeavesMenu(s, increase) == increase /\ s.CurrentMenu >= EntrySave

-----------------------------------------------------------------------------
(* Keys.                                                                   *)

\* Mutant of Skip: the hidden entry can be reached.
SkipNothing(s, entry, other) == entry

\* The entry after a key; entry 3 is passed over while it is not shown.
Skip(s, entry, other) ==
  IF entry = EntryAlt /\ ~ LANGUAGE_SWITCH_ENABLED(s) THEN other ELSE entry

Entry(s, key) ==
  LET c == s.CurrentMenu
  IN  CASE key \in Digits -> Skip(s, key - 48, EntrySwitch)
        [] key \in DOMAIN Jump -> Jump[key]
        [] key \in UpKeys ->
             IF c > 0 THEN Skip(s, c - 1, EntrySwitch) ELSE MENU_ENTRY_COUNT - 1
        [] key \in DownKeys ->
             IF c < MENU_ENTRY_COUNT - 1 THEN Skip(s, c + 1, EntryAlt + 1) ELSE 0
        [] key \in LeftKeys /\ c >= EntryAbout -> c - 3
        [] key \in RightKeys /\ c >= MENU_OFS_NONCFG /\ c + 3 < MENU_ENTRY_COUNT ->
             c + 3
        [] OTHER -> c

Increases(s, key) ==
  \/ key \in DOMAIN Jump \ {68}
  \/ key \in EnterKeys
  \/ key \in RightKeys /\ s.CurrentMenu < MENU_OFS_NONCFG

Decreases(s, key) == key \in LeftKeys /\ s.CurrentMenu < MENU_OFS_NONCFG

\* menuCheckKeys, and whether it returns TRUE.
menuCheckKeys(s, char) ==
  LET key   == Upper(char)
      moved == [s EXCEPT !.CurrentMenu = Entry(s, key)]
      cmd   == [moved EXCEPT !.MenuNeedsRedraw = TRUE]
  IN  CASE key = Escape -> Flag(s, FALSE, "MENU_ENABLE")
        [] key = Bang -> IF "DEBUG_LINES" \in s.internal_flags
                         THEN Toggle(s, "TEST") ELSE s
        [] Increases(s, key) -> menuDoSelection(cmd, TRUE)
        [] Decreases(s, key) -> menuDoSelection(cmd, FALSE)
        [] OTHER -> moved

NoRedraw(s, char) ==
  LET key == Upper(char)
  IN  \/ key = Escape
      \/ Increases(s, key)
           /\ LeavesMenu([s EXCEPT !.CurrentMenu = Entry(s, key)], TRUE)

\* Mutant of menuShow: ESC only takes the information page away.
MenuShowSwallowsEscape(s, key) ==
  LET begun == IF key = KeyOpen
               THEN [s EXCEPT !.CurrentMenu = 0, !.MenuNeedsRedraw = TRUE,
                              !.IgnoreNextKeypress = FALSE] ELSE s
  IN  IF begun.IgnoreNextKeypress
      THEN DrawMenu([begun EXCEPT !.IgnoreNextKeypress = FALSE])
      ELSE IF NoRedraw(begun, key) THEN menuCheckKeys(begun, key)
           ELSE DrawMenu(menuCheckKeys(begun, key))

\* Any key takes an information page away, but ESC leaves the menu from there.
menuShow(s, key) ==
  LET begun == CASE key = KeyOpen ->
                      [s EXCEPT !.CurrentMenu = 0, !.MenuNeedsRedraw = TRUE,
                                !.IgnoreNextKeypress = FALSE]
                 [] key = KeyRefresh -> [s EXCEPT !.MenuNeedsRedraw = TRUE]
                 [] OTHER -> s
  IN  IF begun.IgnoreNextKeypress /\ key # Escape
      THEN DrawMenu([begun EXCEPT !.IgnoreNextKeypress = FALSE])
      ELSE IF NoRedraw(begun, key) THEN menuCheckKeys(begun, key)
           ELSE DrawMenu(menuCheckKeys(begun, key))
=============================================================================
