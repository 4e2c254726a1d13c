---------------------------- MODULE ToggleSwitch ----------------------------
(***************************************************************************)
(* What the language switch or push button does once its state has settled:*)
(* update_toggle_switch and cycle_display_modes of render.c, on core 0.    *)
(***************************************************************************)
EXTENDS Menu

\* Next display mode; `color' says whether the Apple's screen may have colors.
cycle_display_modes(s, color) ==
  LET mono  == "FORCED_MONO" \in s.internal_flags
      last  == s.color_mode >= COLOR_MODE_AMBER
      tint  == [s EXCEPT !.color_mode = IF last THEN COLOR_MODE_BW ELSE @ + 1]
  IN  CASE color /\ mono      -> IF last THEN Flag(tint, FALSE, "FORCED_MONO") ELSE tint
        [] color /\ ~ mono    -> Flag(Toggle(s, "SCANLINEEMU"), TRUE, "FORCED_MONO")
        [] ~ color            -> IF last THEN Toggle(tint, "SCANLINEEMU") ELSE tint

\* The switch is in the state `on'; `quick' says whether its last change was
\* less than a second ago.
switched(s, on, quick, color) ==
  LET changed  == on # s.debounce_last
      language == [s EXCEPT !.language_switch = on]
      mode     == s.input_switch_mode
  IN  CASE mode = ModeSwitchLanguage -> language
        [] mode = ModeSwitchMonochrome -> Flag(s, on, "FORCED_MONO")
        [] mode = ModeSwitchCycleVideo ->
             IF on /\ changed THEN cycle_display_modes(s, color) ELSE s
        [] mode = ModeSwitchLangMonochrome ->
             IF changed /\ quick THEN Toggle(language, "FORCED_MONO") ELSE language
        [] mode = ModeSwitchLangCycle ->
             IF changed /\ quick THEN cycle_display_modes(language, color) ELSE language
        [] OTHER -> s

\* Mutant of update_toggle_switch: in the combined modes the menu is not redrawn.
SwitchWithoutRedraw(s, on, quick, color) ==
  LET done == [switched(s, on, quick, color) EXCEPT !.debounce_last = on]
  IN  IF "MENU_ENABLE" \in done.internal_flags
         /\ done.input_switch_mode \in {ModeSwitchMonochrome, ModeSwitchCycleVideo}
      THEN menuShow(done, KeyRefresh) ELSE done

\* The rest of update_toggle_switch: a menu on the screen is drawn anew.
update_toggle_switch(s, on, quick, color) ==
  LET done == [switched(s, on, quick, color) EXCEPT !.debounce_last = on]
  IN  IF "MENU_ENABLE" \in done.internal_flags
         /\ done.input_switch_mode # ModeSwitchLanguage
      THEN menuShow(done, KeyRefresh) ELSE done
=============================================================================
