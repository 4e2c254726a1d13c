----------------------------- MODULE BusProofs ------------------------------
(***************************************************************************)
(* Proofs about the bus interface, for every set of bus cycles: what each  *)
(* handler leaves alone, what one bus cycle does to the locks, the         *)
(* recognisers and the shadow memories, and that the shadow memories are   *)
(* the memory that the Apple displays.                                     *)
(***************************************************************************)
EXTENDS BusHistory, TLAPS

-----------------------------------------------------------------------------
\* What is known of an address; no page of 256 bytes is the 256th.
LEMMA Addresses ==
  \A a \in Address : a \in Nat /\ a \div 256 # 256
<1>1. ASSUME NEW a \in Nat, a < 65536
      PROVE  a \div 256 # 256
  BY <1>1, SMTT(30)
<1> TAKE a \in Address
<1>2. a \in Nat /\ a < 65536
  BY SMTT(30) DEF Address
<1> QED
  BY <1>1, <1>2, SMTT(30)

LEMMA DeviceAddresses ==
  \A a \in DeviceSelect : a >= 49280
BY SMTT(30) DEF DeviceSelect

-----------------------------------------------------------------------------
(* What the handlers of the bus leave alone.  A register write, a key of   *)
(* the menu, a switch: each changes a few variables and no others.         *)

\* The variables that these lemmas speak of are there.
Ready(s) ==
  {"dev_config_lock", "romx_unlocked", "reset_state", "apple_memory",
   "private_memory", "internal_flags", "soft_switches", "screen", "flash"} \subseteq DOMAIN s

\* From s to t, the locks, the recognisers and the shadow memories stay.
Same(s, t) ==
  /\ DOMAIN t = DOMAIN s
  /\ t.dev_config_lock = s.dev_config_lock
  /\ t.romx_unlocked = s.romx_unlocked
  /\ t.reset_state = s.reset_state
  /\ t.apple_memory = s.apple_memory
  /\ t.private_memory = s.private_memory

\* The menu is closed, and no saved configuration would open it.
Closed(s) ==
  /\ "MENU_ENABLE" \notin s.internal_flags
  /\ s.flash.config = Erased \/ "MENU_ENABLE" \notin s.flash.config.flags

\* From s to t, a closed menu stays closed, and nothing is drawn.
StaysClosed(s, t) == Closed(s) => Closed(t) /\ t.screen = s.screen

Untouched(s, t) == Same(s, t) /\ StaysClosed(s, t)

\* Handlers run one after the other.
LEMMA UntouchedTwice ==
  ASSUME NEW s, NEW t, NEW u, Untouched(s, t), Untouched(t, u)
  PROVE  Untouched(s, u)
  BY DEF Untouched, Same, StaysClosed

LEMMA SameTwice ==
  ASSUME NEW s, NEW t, NEW u, Same(s, t), Same(t, u)
  PROVE  Same(s, u)
  BY DEF Same

LEMMA SameItself ==
  ASSUME NEW s
  PROVE  Same(s, s)
  BY DEF Same

LEMMA StillReady ==
  ASSUME NEW s, NEW t, Ready(s), Same(s, t)
  PROVE  Ready(t)
  BY DEF Ready, Same

-----------------------------------------------------------------------------
(* Configuration and flash.                                                *)

LEMMA FlagSame ==
  ASSUME NEW s, Ready(s), NEW condition, NEW name
  PROVE  Same(s, Flag(s, condition, name))
  BY DEF Ready, Same, Flag

LEMMA FlagUntouched ==
  ASSUME NEW s, Ready(s), NEW condition, NEW name, name # "MENU_ENABLE"
  PROVE  Untouched(s, Flag(s, condition, name))
<1>1. StaysClosed(s, Flag(s, condition, name))
  BY DEF Ready, StaysClosed, Closed, Flag
<1> QED
  BY <1>1, FlagSame DEF Untouched

LEMMA SetMachineUntouched ==
  ASSUME NEW s, Ready(s), NEW machine
  PROVE  Untouched(s, set_machine(s, machine))
<1> DEFINE regs == Flag(s, IIeFont(machine), "IIE_REGS")
<1>1. Untouched(s, regs)
  BY FlagUntouched
<1>2. Ready(regs)
  BY <1>1, StillReady DEF Untouched
<1> HIDE DEF regs
<1>3. Untouched(regs, set_machine(s, machine))
  BY <1>2 DEF regs, Ready, Untouched, Same, StaysClosed, Closed, set_machine,
     check_machine_font
<1> QED
  BY <1>1, <1>3, UntouchedTwice

LEMMA SetFlagsUntouched ==
  ASSUME NEW s, Ready(s)
  PROVE  Untouched(s, config_setflags(s))
<1> DEFINE dgr == Flag(s, s.rendering_fx \in {FX_ENABLED, FX_DGR_ONLY}, "INTERP_DGR")
<1>1. Untouched(s, dgr)
  BY FlagUntouched
<1>2. Ready(dgr)
  BY <1>1, StillReady DEF Untouched
<1> HIDE DEF dgr
<1>3. Untouched(dgr, Flag(dgr, s.rendering_fx \in {FX_ENABLED, FX_DHGR_ONLY}, "INTERP_DHGR"))
  BY <1>2, FlagUntouched
<1>4. Untouched(s, Flag(dgr, s.rendering_fx \in {FX_ENABLED, FX_DHGR_ONLY}, "INTERP_DHGR"))
  BY <1>1, <1>3, UntouchedTwice
<1> QED
  BY <1>4 DEF config_setflags, dgr

LEMMA StoredFlagsUntouched ==
  ASSUME NEW s, Ready(s), NEW names
  PROVE  /\ Same(s, WithStoredFlags(s, names))
         /\ "MENU_ENABLE" \notin names => StaysClosed(s, WithStoredFlags(s, names))
  BY DEF Ready, Untouched, Same, StaysClosed, Closed, WithStoredFlags, StoredFlags

LEMMA DefaultsUntouched ==
  ASSUME NEW s, Ready(s)
  PROVE  Untouched(s, config_load_defaults(s))
<1> DEFINE stored  == [WithStoredFlags(s, {"SCANLINEEMU", "VIDEO7"})
                         EXCEPT !.rendering_fx = FX_ENABLED]
           flags   == config_setflags(stored)
           auto    == [flags EXCEPT !.color_mode = COLOR_MODE_BW,
                                    !.cfg_machine = MACHINE_AUTO]
           machine == set_machine(auto, s.detected_machine)
           result  == [machine EXCEPT
                         !.input_switch_mode = ModeSwitchLangCycle,
                         !.unenhance_font = FALSE,
                         !.cfg_local_charset = 0, !.cfg_alt_charset = 0,
                         !.cfg_videx_selection = 0,
                         !.reload_charsets = @ \cup {Local, Alternate}]
<1>1. Untouched(s, stored)
  BY StoredFlagsUntouched DEF Ready, Untouched, Same, StaysClosed, Closed
<1>2. Ready(stored)
  BY <1>1, StillReady DEF Untouched
<1>3. Untouched(stored, flags) /\ Ready(flags)
  BY <1>2, SetFlagsUntouched, StillReady DEF Untouched
<1>4. Untouched(flags, auto) /\ Ready(auto)
  BY <1>3 DEF Ready, Untouched, Same, StaysClosed, Closed
<1>5. Untouched(auto, machine) /\ Ready(machine)
  BY <1>4, SetMachineUntouched, StillReady DEF Untouched
<1>6. Untouched(machine, result) /\ Ready(result)
  BY <1>5 DEF Ready, Untouched, Same, StaysClosed, Closed
<1>7. Untouched(result, Flag(result, FALSE, "VIDEX"))
  BY <1>6, FlagUntouched
<1> HIDE DEF stored, flags, auto, machine, result
<1>8. Untouched(s, Flag(result, FALSE, "VIDEX"))
  BY <1>1, <1>3, <1>4, <1>5, <1>6, <1>7, UntouchedTwice
<1> QED
  BY <1>8 DEF config_load_defaults, stored, flags, auto, machine, result

LEMMA LoadStoredUntouched ==
  ASSUME NEW s, Ready(s), NEW cfg, Closed(s) => "MENU_ENABLE" \notin cfg.flags
  PROVE  Untouched(s, load_stored(s, cfg))
<1> DEFINE type    == stored_machine(cfg)
           chosen  == [s EXCEPT !.cfg_machine = type]
           machine == set_machine(chosen, type)
           flags   == WithStoredFlags(machine, cfg.flags)
           select  == [flags EXCEPT !.cfg_videx_selection = cfg.videx_selection]
           videx   == IF cfg.size = "full"
                      THEN Flag(select, cfg.videx_selection > 0, "VIDEX") ELSE flags
           fx      == IF cfg.size # "without rendering_fx"
                      THEN [videx EXCEPT !.rendering_fx = cfg.rendering_fx] ELSE videx
           effects == config_setflags(fx)
<1>1. Untouched(s, chosen) /\ Ready(chosen)
  BY DEF Ready, Untouched, Same, StaysClosed, Closed
<1>2. Untouched(chosen, machine) /\ Ready(machine)
  BY <1>1, SetMachineUntouched, StillReady DEF Untouched
<1>m. Untouched(s, machine)
  BY <1>1, <1>2, UntouchedTwice
<1>3. Untouched(s, flags) /\ Ready(flags)
  <2>1. Same(machine, flags) /\ Ready(flags)
    BY <1>2, StoredFlagsUntouched, StillReady
  <2>2. Same(s, flags)
    BY <1>m, <2>1, SameTwice DEF Untouched
  <2>3. "MENU_ENABLE" \notin cfg.flags => StaysClosed(machine, flags)
    BY <1>2, StoredFlagsUntouched
  <2> QED
    BY <1>m, <2>1, <2>2, <2>3 DEF Untouched, StaysClosed
<1>4. Untouched(flags, select) /\ Ready(select)
  BY <1>3 DEF Ready, Untouched, Same, StaysClosed, Closed
<1>5. Untouched(flags, Flag(select, cfg.videx_selection > 0, "VIDEX"))
  BY <1>4, FlagUntouched, UntouchedTwice
<1>6. Untouched(flags, flags)
  BY DEF Untouched, Same, StaysClosed
<1>7. Untouched(flags, videx) /\ Ready(videx)
  BY <1>3, <1>5, <1>6, StillReady DEF Untouched
<1> HIDE DEF type, chosen, machine, flags, select, videx
<1>8. Untouched(videx, fx) /\ Ready(fx)
  BY <1>7, SMTT(30) DEF Ready, Untouched, Same, StaysClosed, Closed
<1>9. Untouched(fx, effects) /\ Ready(effects)
  BY <1>8, SetFlagsUntouched, StillReady, ZenonT(60) DEF Untouched
<1>10. Untouched(s, effects)
  BY <1>3, <1>7, <1>8, <1>9, UntouchedTwice
<1> HIDE DEF fx, effects
<1>11. Untouched(effects, load_stored(s, cfg))
  BY <1>9, ZenonT(60) DEF Ready, Untouched, Same, StaysClosed, Closed, load_stored,
     type, chosen, machine, flags, select, videx, fx, effects
<1> QED
  BY <1>10, <1>11, UntouchedTwice

\* A configuration with the menu open is never saved, so none is loaded.
LEMMA LoadUntouched ==
  ASSUME NEW s, Ready(s)
  PROVE  Untouched(s, config_load(s))
<1> DEFINE fonts == IF s.flash.fontdir = Erased THEN s
                    ELSE [s EXCEPT !.invalid_fonts = s.flash.fontdir]
<1>1. Untouched(s, fonts) /\ Ready(fonts) /\ fonts.flash = s.flash
  BY DEF Ready, Untouched, Same, StaysClosed, Closed
<1> HIDE DEF fonts
<1>2. CASE s.flash.config = Erased
  <2>1. Untouched(fonts, config_load_defaults(fonts))
    BY <1>1, DefaultsUntouched
  <2>2. Untouched(s, config_load_defaults(fonts))
    BY <1>1, <2>1, UntouchedTwice
  <2> QED
    BY <1>2, <2>2 DEF config_load, fonts
<1>3. CASE s.flash.config # Erased
  <2>1. Closed(fonts) => "MENU_ENABLE" \notin s.flash.config.flags
    BY <1>1, <1>3 DEF Closed
  <2>2. Untouched(fonts, load_stored(fonts, s.flash.config))
    BY <1>1, <2>1, LoadStoredUntouched
  <2>3. Untouched(s, load_stored(fonts, s.flash.config))
    BY <1>1, <2>2, UntouchedTwice
  <2> QED
    BY <1>3, <2>3 DEF config_load, fonts
<1> QED
  BY <1>2, <1>3

\* A new image of the flash whose configuration is clean.
LEMMA FlashedUntouched ==
  ASSUME NEW s, Ready(s), NEW image,
         Closed(s) => image.config = Erased \/ "MENU_ENABLE" \notin image.config.flags
  PROVE  Untouched(s, Flashed(s, image)) /\ Flashed(s, image).flash = image
  BY DEF Ready, Untouched, Same, StaysClosed, Closed, Flashed

LEMMA SaveUntouched ==
  ASSUME NEW s, Ready(s)
  PROVE  Untouched(s, config_save(s))
<1> DEFINE empty  == [s.flash EXCEPT !.config = Erased]
           erased == Flashed(s, empty)
           full   == [erased.flash EXCEPT !.config = Stored(s)]
<1>1. Closed(s) => empty.config = Erased \/ "MENU_ENABLE" \notin empty.config.flags
  BY DEF Closed
<1>2. Closed(erased) => full.config = Erased \/ "MENU_ENABLE" \notin full.config.flags
  BY DEF Closed, Stored, StoredFlags
<1> HIDE DEF empty
<1>3. Untouched(s, erased) /\ Ready(erased)
  BY <1>1, FlashedUntouched, StillReady DEF Untouched
<1> HIDE DEF erased, full
<1>4. Untouched(erased, Flashed(erased, full))
  BY <1>2, <1>3, FlashedUntouched
<1>5. Untouched(s, Flashed(erased, full))
  BY <1>3, <1>4, UntouchedTwice
<1> QED
  BY <1>5 DEF config_save, config_write, empty, erased, full

\* An image whose configuration is the one of the present image.
LEMMA SameConfigUntouched ==
  ASSUME NEW s, Ready(s), NEW image, image.config = s.flash.config
  PROVE  Untouched(s, Flashed(s, image)) /\ Flashed(s, image).flash = image
<1>1. Closed(s) => image.config = Erased \/ "MENU_ENABLE" \notin image.config.flags
  BY DEF Closed
<1> QED
  BY <1>1, FlashedUntouched

LEMMA WithFontsConfig ==
  ASSUME NEW flash, NEW new
  PROVE  WithFonts(flash, new).config = flash.config
  BY DEF WithFonts

LEMMA FontWriteUntouched ==
  ASSUME NEW s, Ready(s), NEW slot, NEW buffer
  PROVE  Untouched(s, font_write(s, slot, buffer))
<1> DEFINE even   == 2 * (slot \div 2)
           empty  == WithFonts(s.flash, [x \in Pair(slot) |-> NoBytes])
           erased == Flashed(s, empty)
           first  == WithFonts(erased.flash, [x \in {even} |-> buffer[0]])
           half   == Flashed(erased, first)
           second == WithFonts(half.flash, [x \in {even + 1} |-> buffer[1]])
<1>1. empty.config = s.flash.config /\ first.config = erased.flash.config
      /\ second.config = half.flash.config
  BY WithFontsConfig
<1> HIDE DEF even, empty
<1>2. Untouched(s, erased) /\ Ready(erased)
  BY <1>1, SameConfigUntouched, StillReady DEF Untouched
<1> HIDE DEF erased, first
<1>3. Untouched(erased, half) /\ Ready(half)
  BY <1>1, <1>2, SameConfigUntouched, StillReady DEF Untouched
<1> HIDE DEF half, second
<1>4. Untouched(half, Flashed(half, second))
  BY <1>1, <1>3, SameConfigUntouched
<1>5. Untouched(s, Flashed(half, second))
  BY <1>2, <1>3, <1>4, UntouchedTwice
<1> QED
  BY <1>5 DEF font_write, even, empty, erased, first, half, second

LEMMA FontUpdateUntouched ==
  ASSUME NEW s, Ready(s)
  PROVE  Untouched(s, config_font_update(s))
<1> DEFINE empty  == [s.flash EXCEPT !.fontdir = Erased]
           erased == Flashed(s, empty)
           full   == [erased.flash EXCEPT !.fontdir = s.invalid_fonts]
<1>1. empty.config = s.flash.config /\ full.config = erased.flash.config
  OBVIOUS
<1> HIDE DEF empty
<1>2. Untouched(s, erased) /\ Ready(erased)
  BY <1>1, SameConfigUntouched, StillReady DEF Untouched
<1> HIDE DEF erased, full
<1>3. Untouched(erased, Flashed(erased, full))
  BY <1>1, <1>2, SameConfigUntouched
<1>4. Untouched(s, Flashed(erased, full))
  BY <1>2, <1>3, UntouchedTwice
<1> QED
  BY <1>4 DEF config_font_update, empty, erased, full

-----------------------------------------------------------------------------
(* The menu, which draws, and which ESC closes: the locks, the recognisers *)
(* and the contents of the shadow memories stay.                           *)

LEMMA ShowFrameSame ==
  ASSUME NEW s, Ready(s), NEW page
  PROVE  Same(s, menuShowFrame(s, page))
  BY DEF Ready, Same, menuShowFrame

LEMMA DrawMenuSame ==
  ASSUME NEW s, Ready(s)
  PROVE  Same(s, DrawMenu(s))
<1> DEFINE frame == IF s.MenuNeedsRedraw
                    THEN [menuShowFrame(s, "menu") EXCEPT !.MenuNeedsRedraw = FALSE]
                    ELSE s
<1>1. Same(s, frame) /\ Ready(frame)
  BY ShowFrameSame DEF Ready, Same
<1> HIDE DEF frame
<1>2. \A lines : Same(frame, [frame EXCEPT !.screen.shown = lines])
  BY <1>1 DEF Ready, Same
<1> QED
  BY <1>1, <1>2, SameTwice DEF DrawMenu, frame

LEMMA ReloadSame ==
  ASSUME NEW s, Ready(s), NEW change, NEW bit
  PROVE  Same(s, Reload(s, change, bit))
  BY DEF Ready, Same, Reload

LEMMA ToggleSame ==
  ASSUME NEW s, Ready(s), NEW flag
  PROVE  Same(s, Toggle(s, flag))
  BY FlagSame DEF Toggle

\* One step per entry of the menu.
LEMMA SetEntrySame ==
  ASSUME NEW s, Ready(s), NEW increase
  PROVE  Same(s, SetEntry(s, increase))
<1> DEFINE c == s.CurrentMenu
<1>1. CASE c = EntryMachine
  <2>g. /\ c # EntryLocal /\ c # EntrySwitch /\ c # EntryAlt
        /\ c # 4 /\ c # 5 /\ c # 6 /\ c # 7
        /\ c # 8 /\ c # 9 /\ c # EntryDebug
    BY <1>1 DEF EntryMachine, EntryLocal, EntrySwitch, EntryAlt, EntryDebug
  <2> DEFINE chosen == [s EXCEPT !.cfg_machine = NextMachine(@, increase)]
  <2>1. Same(s, chosen) /\ Ready(chosen)
    BY DEF Ready, Same
  <2> HIDE DEF chosen
  <2>2. Same(s, set_machine(chosen, Effective(chosen)))
    BY <2>1, SetMachineUntouched, SameTwice DEF Untouched
  <2> QED
    BY <1>1, <2>g, <2>2, Zenon DEF SetEntry, chosen
<1>2. CASE c = EntryLocal
  <2>g. /\ c # EntryMachine /\ c # EntrySwitch /\ c # EntryAlt
        /\ c # 4 /\ c # 5 /\ c # 6 /\ c # 7
        /\ c # 8 /\ c # 9 /\ c # EntryDebug
    BY <1>2 DEF EntryMachine, EntryLocal, EntrySwitch, EntryAlt, EntryDebug
  <2> DEFINE font   == Stepped(s.cfg_local_charset, increase, 0, MAX_FONT_COUNT - 1)
             chosen == [s EXCEPT !.cfg_local_charset = font]
  <2>1. Same(s, chosen) /\ Ready(chosen)
    BY DEF Ready, Same
  <2> HIDE DEF chosen, font
  <2>2. Same(s, Reload(chosen, font # s.cfg_local_charset, Local))
    BY <2>1, ReloadSame, SameTwice
  <2> QED
    BY <1>2, <2>g, <2>2, Zenon DEF SetEntry, chosen, font
<1>3. CASE c = EntrySwitch
  <2>g. /\ c # EntryMachine /\ c # EntryLocal /\ c # EntryAlt
        /\ c # 4 /\ c # 5 /\ c # 6 /\ c # 7
        /\ c # 8 /\ c # 9 /\ c # EntryDebug
    BY <1>3 DEF EntryMachine, EntryLocal, EntrySwitch, EntryAlt, EntryDebug
  <2> DEFINE mode == [s EXCEPT !.input_switch_mode =
                        Stepped(@, increase, ModeSwitchDisabled, ModeSwitchLangCycle)]
  <2>1. Same(s, mode) /\ Ready(mode)
    BY DEF Ready, Same
  <2> HIDE DEF mode
  <2>2. Same(s, [mode EXCEPT !.language_switch = FALSE])
    BY <2>1 DEF Ready, Same
  <2> QED
    BY <1>3, <2>g, <2>1, <2>2, Zenon DEF SetEntry, mode
<1>4. CASE c = EntryAlt /\ LANGUAGE_SWITCH_ENABLED(s)
  <2>g. /\ c # EntryMachine /\ c # EntryLocal /\ c # EntrySwitch
        /\ c # 4 /\ c # 5 /\ c # 6 /\ c # 7
        /\ c # 8 /\ c # 9 /\ c # EntryDebug
    BY <1>4 DEF EntryMachine, EntryLocal, EntrySwitch, EntryAlt, EntryDebug
  <2> DEFINE font   == NextAlt(s.cfg_alt_charset, increase)
             chosen == [s EXCEPT !.cfg_alt_charset = font]
  <2>1. Same(s, chosen) /\ Ready(chosen)
    BY DEF Ready, Same
  <2> HIDE DEF chosen, font
  <2>2. Same(s, Reload(chosen, font # s.cfg_alt_charset, Alternate))
    BY <2>1, ReloadSame, SameTwice
  <2> QED
    BY <1>4, <2>g, <2>2, Zenon DEF SetEntry, chosen, font
<1>5. CASE c = 4
  <2>g. /\ c # EntryMachine /\ c # EntryLocal /\ c # EntrySwitch /\ c # EntryAlt
        /\ c # 5 /\ c # 6 /\ c # 7
        /\ c # 8 /\ c # 9 /\ c # EntryDebug
    BY <1>5 DEF EntryMachine, EntryLocal, EntrySwitch, EntryAlt, EntryDebug
  <2>1. Same(s, [s EXCEPT !.color_mode = Stepped(@, increase, 0, 2)])
    BY DEF Ready, Same
  <2> QED
    BY <1>5, <2>g, <2>1, Zenon DEF SetEntry
<1>6. CASE c = 5
  <2>g. /\ c # EntryMachine /\ c # EntryLocal /\ c # EntrySwitch /\ c # EntryAlt
        /\ c # 4 /\ c # 6 /\ c # 7
        /\ c # 8 /\ c # 9 /\ c # EntryDebug
    BY <1>6 DEF EntryMachine, EntryLocal, EntrySwitch, EntryAlt, EntryDebug
  <2> QED
    BY <1>6, <2>g, ToggleSame, Zenon DEF SetEntry
<1>7. CASE c = 6
  <2>g. /\ c # EntryMachine /\ c # EntryLocal /\ c # EntrySwitch /\ c # EntryAlt
        /\ c # 4 /\ c # 5 /\ c # 7
        /\ c # 8 /\ c # 9 /\ c # EntryDebug
    BY <1>7 DEF EntryMachine, EntryLocal, EntrySwitch, EntryAlt, EntryDebug
  <2> QED
    BY <1>7, <2>g, ToggleSame, Zenon DEF SetEntry
<1>8. CASE c = 7
  <2>g. /\ c # EntryMachine /\ c # EntryLocal /\ c # EntrySwitch /\ c # EntryAlt
        /\ c # 4 /\ c # 5 /\ c # 6
        /\ c # 8 /\ c # 9 /\ c # EntryDebug
    BY <1>8 DEF EntryMachine, EntryLocal, EntrySwitch, EntryAlt, EntryDebug
  <2> DEFINE chosen == [s EXCEPT !.rendering_fx = Stepped(@, increase, 0, FX_DGR_ONLY)]
  <2>1. Same(s, chosen) /\ Ready(chosen)
    BY DEF Ready, Same
  <2> HIDE DEF chosen
  <2>2. Same(s, config_setflags(chosen))
    BY <2>1, SetFlagsUntouched, SameTwice DEF Untouched
  <2> QED
    BY <1>8, <2>g, <2>2, Zenon DEF SetEntry, chosen
<1>9. CASE c = 8
  <2>g. /\ c # EntryMachine /\ c # EntryLocal /\ c # EntrySwitch /\ c # EntryAlt
        /\ c # 4 /\ c # 5 /\ c # 6 /\ c # 7
        /\ c # 9 /\ c # EntryDebug
    BY <1>9 DEF EntryMachine, EntryLocal, EntrySwitch, EntryAlt, EntryDebug
  <2> DEFINE v7 == Toggle(s, "VIDEO7")
  <2>1. Same(s, v7) /\ Ready(v7)
    BY ToggleSame, StillReady
  <2> HIDE DEF v7
  <2>2. Same(s, [v7 EXCEPT !.soft_switches = @ \cup {"V7_MODE1", "V7_MODE2"}])
    BY <2>1 DEF Ready, Same
  <2> QED
    BY <1>9, <2>g, <2>1, <2>2, Zenon DEF SetEntry, v7
<1>10. CASE c = 9
  <2>g. /\ c # EntryMachine /\ c # EntryLocal /\ c # EntrySwitch /\ c # EntryAlt
        /\ c # 4 /\ c # 5 /\ c # 6 /\ c # 7
        /\ c # 8 /\ c # EntryDebug
    BY <1>10 DEF EntryMachine, EntryLocal, EntrySwitch, EntryAlt, EntryDebug
  <2> DEFINE n        == Stepped(s.cfg_videx_selection, increase, 0, VIDEX_FONT_COUNT)
             chosen   == [s EXCEPT !.cfg_videx_selection = n]
             reloaded == Reload(chosen, n # s.cfg_videx_selection /\ n > 0, Videx)
  <2>1. Same(s, chosen) /\ Ready(chosen)
    BY DEF Ready, Same
  <2> HIDE DEF chosen, n
  <2>2. Same(s, reloaded) /\ Ready(reloaded)
    BY <2>1, ReloadSame, SameTwice, StillReady
  <2> HIDE DEF reloaded
  <2>3. Same(s, Flag(reloaded, n > 0, "VIDEX"))
    BY <2>2, FlagSame, SameTwice
  <2> QED
    BY <1>10, <2>g, <2>3, Zenon DEF SetEntry, chosen, n, reloaded
<1>11. CASE c = EntryDebug
  <2>g. /\ c # EntryMachine /\ c # EntryLocal /\ c # EntrySwitch /\ c # EntryAlt
        /\ c # 4 /\ c # 5 /\ c # 6 /\ c # 7
        /\ c # 8 /\ c # 9
    BY <1>11 DEF EntryMachine, EntryLocal, EntrySwitch, EntryAlt, EntryDebug
  <2>1. Same(s, Flag(Toggle(s, "DEBUG_LINES"), FALSE, "TEST"))
    BY ToggleSame, FlagSame, StillReady, SameTwice
  <2> QED
    BY <1>11, <2>g, <2>1, Zenon DEF SetEntry
<1>12. CASE /\ c # EntryMachine /\ c # EntryLocal /\ c # EntrySwitch /\ c # EntryDebug
            /\ ~ (c = EntryAlt /\ LANGUAGE_SWITCH_ENABLED(s))
            /\ c # 4 /\ c # 5 /\ c # 6 /\ c # 7 /\ c # 8 /\ c # 9
  BY <1>12, SameItself, Zenon DEF SetEntry
<1> QED
  BY <1>1, <1>2, <1>3, <1>4, <1>5, <1>6, <1>7, <1>8, <1>9, <1>10, <1>11, <1>12

LEMMA RunEntrySame ==
  ASSUME NEW s, Ready(s)
  PROVE  Same(s, RunEntry(s))
<1>1. Same(s, config_load_defaults(s)) /\ Ready(config_load_defaults(s))
  BY DefaultsUntouched, StillReady DEF Untouched
<1>2. Same(s, config_load(s)) /\ Ready(config_load(s))
  BY LoadUntouched, StillReady DEF Untouched
<1>3. Same(s, config_save(s)) /\ Ready(config_save(s))
  BY SaveUntouched, StillReady DEF Untouched
<1>4. \A d : Ready(d) /\ Same(s, d) => Same(s, set_machine(d, Effective(d)))
  BY SetMachineUntouched, SameTwice DEF Untouched
<1>5. \A d, page : Ready(d) /\ Same(s, d) =>
        Same(s, [menuShowFrame(d, page) EXCEPT !.IgnoreNextKeypress = TRUE])
  <2> SUFFICES ASSUME NEW d, NEW page, Ready(d), Same(s, d)
               PROVE  Same(s, [menuShowFrame(d, page) EXCEPT !.IgnoreNextKeypress = TRUE])
    OBVIOUS
  <2>1. Same(s, menuShowFrame(d, page)) /\ Ready(menuShowFrame(d, page))
    BY ShowFrameSame, SameTwice, StillReady
  <2> QED
    BY <2>1 DEF Ready, Same
<1>6. Same(s, [menuShowTest(s) EXCEPT !.IgnoreNextKeypress = TRUE])
  BY DEF Ready, Same, menuShowTest
<1>7. Same(s, s)
  BY DEF Same
<1> QED
  BY <1>1, <1>2, <1>3, <1>4, <1>5, <1>6, <1>7 DEF RunEntry, EntryRestore, EntryLoad,
     EntrySave, EntryTest, MENU_OFS_NONCFG

LEMMA CheckKeysSame ==
  ASSUME NEW s, Ready(s), NEW char
  PROVE  Same(s, menuCheckKeys(s, char))
<1> DEFINE key   == Upper(char)
           moved == [s EXCEPT !.CurrentMenu = Entry(s, key)]
           cmd   == [moved EXCEPT !.MenuNeedsRedraw = TRUE]
<1>1. Same(s, moved) /\ Same(s, cmd) /\ Ready(cmd)
  BY DEF Ready, Same
<1> HIDE DEF cmd
<1>2. \A increase : Same(cmd, menuDoSelection(cmd, increase))
  <2>1. Same(cmd, cmd)
    BY DEF Same
  <2> QED
    BY <1>1, <2>1, SetEntrySame, RunEntrySame DEF menuDoSelection
<1>3. \A increase : Same(s, menuDoSelection(cmd, increase))
  BY <1>1, <1>2, SameTwice
<1>4. Same(s, Flag(s, FALSE, "MENU_ENABLE")) /\ Same(s, Toggle(s, "TEST")) /\ Same(s, s)
  BY FlagSame, ToggleSame, SameItself
<1> HIDE DEF moved, key
<1> QED
  BY <1>1, <1>3, <1>4 DEF menuCheckKeys, key, moved, cmd

LEMMA MenuShowSame ==
  ASSUME NEW s, Ready(s), NEW key
  PROVE  Same(s, menuShow(s, key))
<1> DEFINE begun == CASE key = KeyOpen ->
                           [s EXCEPT !.CurrentMenu = 0, !.MenuNeedsRedraw = TRUE,
                                     !.IgnoreNextKeypress = FALSE]
                      [] key = KeyRefresh -> [s EXCEPT !.MenuNeedsRedraw = TRUE]
                      [] OTHER -> s
           back  == [begun EXCEPT !.IgnoreNextKeypress = FALSE]
<1>1. Same(s, begun) /\ Ready(begun)
  BY DEF Ready, Same, KeyOpen, KeyRefresh
<1> HIDE DEF begun
<1>2. Same(s, back) /\ Ready(back)
  BY <1>1 DEF Ready, Same
<1> HIDE DEF back
<1>3. Same(s, menuCheckKeys(begun, key)) /\ Ready(menuCheckKeys(begun, key))
  BY <1>1, CheckKeysSame, SameTwice, StillReady
<1>4. Same(s, DrawMenu(back)) /\ Same(s, DrawMenu(menuCheckKeys(begun, key)))
  BY <1>2, <1>3, DrawMenuSame, SameTwice
<1> QED
  BY <1>3, <1>4 DEF menuShow, begun, back

-----------------------------------------------------------------------------
(* The registers.                                                          *)

\* The cycle can make the firmware draw: a key of the menu, or a font was saved.
Draws(reg, data) == reg = 9 \/ (reg = 2 /\ data = 255)

LEMMA LockChanges ==
  ASSUME NEW s, Ready(s), NEW data
  PROVE  /\ Ready(lock(s, data))
         /\ lock(s, data).dev_config_lock =
              CASE data = 11 -> 1
                [] data = 22 -> IF s.dev_config_lock = 1 THEN Unlocked
                                ELSE s.dev_config_lock
                [] OTHER -> Locked
         /\ lock(s, data).romx_unlocked = s.romx_unlocked
         /\ lock(s, data).reset_state = s.reset_state
         /\ lock(s, data).apple_memory = s.apple_memory
         /\ lock(s, data).private_memory = s.private_memory
         /\ DOMAIN lock(s, data) = DOMAIN s
         /\ StaysClosed(s, lock(s, data))
  BY DEF Ready, lock, StaysClosed, Closed

LEMMA SetOrClearUntouched ==
  ASSUME NEW s, Ready(s), NEW data, NEW set, NEW clear, NEW flag, flag # "MENU_ENABLE"
  PROVE  Untouched(s, SetOrClear(s, data, set, clear, flag))
<1> DEFINE on == IF Bit(data, set) THEN Flag(s, TRUE, flag) ELSE s
<1>1. Untouched(s, s)
  BY SameItself DEF Untouched, StaysClosed
<1>2. Untouched(s, on) /\ Ready(on)
  BY <1>1, FlagUntouched, StillReady DEF Untouched
<1> HIDE DEF on
<1>3. Untouched(s, Flag(on, FALSE, flag))
  BY <1>2, FlagUntouched, UntouchedTwice
<1> QED
  BY <1>2, <1>3 DEF SetOrClear, on

LEMMA ColorUntouched ==
  ASSUME NEW s, Ready(s), NEW data
  PROVE  Untouched(s, color_reg(s, data))
<1> DEFINE color == IF data % 4 # 0 THEN [s EXCEPT !.color_mode = (data % 4) - 1] ELSE s
<1>1. Untouched(s, color) /\ Ready(color)
  BY DEF Ready, Untouched, Same, StaysClosed, Closed
<1> HIDE DEF color
<1>2. Untouched(s, SetOrClear(color, data, 64, 128, "FORCED_MONO"))
  BY <1>1, SetOrClearUntouched, UntouchedTwice
<1> QED
  BY <1>2 DEF color_reg, color

LEMMA FontSelectUntouched ==
  ASSUME NEW s, Ready(s), NEW data
  PROVE  Untouched(s, font_select(s, data))
  BY DEF Ready, Untouched, Same, StaysClosed, Closed, font_select

\* Only the lock, the recognisers and the memories: "saved" is drawn.
LEMMA FontCommitSame ==
  ASSUME NEW s, Ready(s)
  PROVE  Same(s, font_commit(s))
<1> DEFINE slot    == s.custom_rom_font_nr
           written == font_write(s, slot, s.custom_font_buffer)
           valid   == [written EXCEPT !.invalid_fonts = @ \ {slot}]
           updated == config_font_update(valid)
           shown   == menuShowFrame(updated, "saved")
<1>1. Same(s, written) /\ Ready(written)
  BY FontWriteUntouched, StillReady DEF Untouched
<1> HIDE DEF slot, written
<1>2. Same(s, valid) /\ Ready(valid)
  BY <1>1 DEF Ready, Same
<1> HIDE DEF valid
<1>3. Same(s, updated) /\ Ready(updated)
  BY <1>2, FontUpdateUntouched, SameTwice, StillReady DEF Untouched
<1> HIDE DEF updated
<1>4. Same(s, shown) /\ Ready(shown)
  BY <1>3, ShowFrameSame, SameTwice, StillReady
<1> HIDE DEF shown
<1>5. Same(s, [shown EXCEPT !.reload_charsets = @ \cup {Local, Alternate}])
  BY <1>4 DEF Ready, Same
<1>6. CASE s.custom_rom_write_count # CHARACTER_ROM_SIZE
  BY <1>6, SameItself DEF font_commit
<1>7. CASE s.custom_rom_write_count = CHARACTER_ROM_SIZE
  BY <1>5, <1>7, Zenon DEF font_commit, slot, written, valid, updated, shown
<1> QED
  BY <1>6, <1>7

LEMMA FontDataUntouched ==
  ASSUME NEW s, Ready(s), NEW data
  PROVE  Untouched(s, font_data(s, data))
  BY DEF Ready, Untouched, Same, StaysClosed, Closed, font_data

LEMMA CommandUntouched ==
  ASSUME NEW s, Ready(s), NEW cmd
  PROVE  Untouched(s, device_command(s, cmd))
<1>1. Untouched(s, [s EXCEPT !.cfg_local_charset = cmd - 16,
                             !.reload_charsets = @ \cup {Local}])
  BY DEF Ready, Untouched, Same, StaysClosed, Closed
<1>2. Untouched(s, s)
  BY SameItself DEF Untouched, StaysClosed
<1> QED
  BY <1>1, <1>2, DefaultsUntouched, LoadUntouched, SaveUntouched, Zenon DEF device_command

LEMMA CharsetUntouched ==
  ASSUME NEW s, Ready(s), NEW data, NEW bit,
         NEW field \in {"cfg_local_charset", "cfg_alt_charset"}
  PROVE  Untouched(s, charset_reg(s, data, field, bit))
  BY DEF Ready, Untouched, Same, StaysClosed, Closed, charset_reg

LEMMA MachineUntouched ==
  ASSUME NEW s, Ready(s), NEW data
  PROVE  Untouched(s, machine_reg(s, data))
  BY DEF Ready, Untouched, Same, StaysClosed, Closed, machine_reg

LEMMA MenuRegSame ==
  ASSUME NEW s, Ready(s), NEW data
  PROVE  Same(s, menu_reg(s, data))
<1> DEFINE on == IF data = 0 THEN Flag(s, TRUE, "MENU_ENABLE") ELSE s
<1>1. Same(s, on) /\ Ready(on)
  BY FlagSame, SameItself, StillReady
<1> HIDE DEF on
<1>2. Same(s, menuShow(on, data))
  BY <1>1, MenuShowSame, SameTwice
<1> QED
  BY <1>1, <1>2 DEF menu_reg, on

LEMMA FontRegSame ==
  ASSUME NEW s, Ready(s), NEW data
  PROVE  Same(s, font_reg(s, data)) /\ (data # 255 => StaysClosed(s, font_reg(s, data)))
<1>1. StaysClosed(s, s)
  BY DEF StaysClosed
<1> QED
  BY <1>1, SameItself, FontCommitSame, FontSelectUntouched, Zenon DEF font_reg, Untouched

\* A register write beyond the lock.
LEMMA RegisterSame ==
  ASSUME NEW s, Ready(s), NEW reg, NEW data, reg # 15
  PROVE  /\ Same(s, device_write(s, reg, data))
         /\ ~ Draws(reg, data) => StaysClosed(s, device_write(s, reg, data))
<1>1. CASE s.dev_config_lock # Unlocked
  BY <1>1, SameItself DEF device_write, StaysClosed
<1>2. CASE s.dev_config_lock = Unlocked
  <2>1. Untouched(s, SetOrClear(s, data, 1, 2, "SCANLINEEMU"))
        /\ Untouched(s, SetOrClear(s, data, 1, 2, "VIDEO7"))
    BY SetOrClearUntouched
  <2>2. Untouched(s, charset_reg(s, data, "cfg_local_charset", Local))
        /\ Untouched(s, charset_reg(s, data, "cfg_alt_charset", Alternate))
    BY CharsetUntouched
  <2>3. Untouched(s, s)
    BY SameItself DEF Untouched, StaysClosed
  <2>4. \/ Untouched(s, device_write(s, reg, data))
        \/ reg = 2 /\ device_write(s, reg, data) = font_reg(s, data)
        \/ reg = 9 /\ device_write(s, reg, data) = menu_reg(s, data)
    BY <1>2, <2>1, <2>2, <2>3, ColorUntouched, FontDataUntouched, CommandUntouched,
       MachineUntouched DEF device_write
  <2> QED
    BY <2>4, FontRegSame, MenuRegSame DEF Untouched, Draws
<1> QED
  BY <1>1, <1>2

\* A write to register 15 does nothing else.
LEMMA KeyWrite ==
  ASSUME NEW s, Ready(s), NEW data
  PROVE  device_write(s, 15, data) = lock(s, data)
<1>1. 15 # 0 /\ 15 # 1 /\ 15 # 2 /\ 15 # 3 /\ 15 # 4 /\ 15 # 5 /\ 15 # 6 /\ 15 # 7
      /\ 15 # 8 /\ 15 # 9
  OBVIOUS
<1> QED
  BY <1>1, Zenon DEF device_write

-----------------------------------------------------------------------------
(* Switches, detection and the Videx card.                                 *)

LEMMA SwitchedUntouched ==
  ASSUME NEW s, Ready(s), NEW on, NEW name
  PROVE  Untouched(s, Switched(s, on, name))
  BY DEF Ready, Untouched, Same, StaysClosed, Closed, Switched

LEMMA V7Untouched ==
  ASSUME NEW s, Ready(s)
  PROVE  Untouched(s, v7_shift(s))
  BY DEF Ready, Untouched, Same, StaysClosed, Closed, v7_shift

LEMMA SoftswitchesUntouched ==
  ASSUME NEW s, Ready(s), NEW mode, NEW address, NEW data
  PROVE  Untouched(s, apple2_softswitches(s, mode, address, data))
<1>1. Untouched(s, s)
  BY SameItself DEF Untouched, StaysClosed
<1>2. Untouched(s, v7_shift(s)) /\ Ready(v7_shift(s))
  BY V7Untouched, StillReady DEF Untouched
<1>3. Untouched(s, Switched(v7_shift(s), FALSE, "DGR"))
  BY <1>2, SwitchedUntouched, UntouchedTwice
<1> QED
  BY <1>1, <1>2, <1>3, SwitchedUntouched, ZenonT(60) DEF apple2_softswitches

LEMMA DetectionUntouched ==
  ASSUME NEW s, Ready(s)
  PROVE  Untouched(s, machine_auto_detection(s))
<1> DEFINE found == [s EXCEPT !.detected_machine = Recognised(s)]
<1>1. Untouched(s, found) /\ Ready(found)
  BY DEF Ready, Untouched, Same, StaysClosed, Closed
<1> HIDE DEF found
<1>2. Untouched(s, set_machine(found, Recognised(s)))
  BY <1>1, SetMachineUntouched, UntouchedTwice
<1>3. Untouched(s, s)
  BY SameItself DEF Untouched, StaysClosed
<1> QED
  BY <1>2, <1>3 DEF machine_auto_detection, found

\* The detection switches nothing.
LEMMA DetectionSwitches ==
  ASSUME NEW s, Ready(s)
  PROVE  machine_auto_detection(s).soft_switches = s.soft_switches
<1> DEFINE found == [s EXCEPT !.detected_machine = Recognised(s)]
           regs  == Flag(found, IIeFont(Recognised(s)), "IIE_REGS")
<1>1. found.soft_switches = s.soft_switches /\ DOMAIN found = DOMAIN s
  BY DEF Ready
<1> HIDE DEF found
<1>2. regs.soft_switches = s.soft_switches /\ DOMAIN regs = DOMAIN s
  BY <1>1 DEF Ready, Flag
<1> HIDE DEF regs
<1>3. set_machine(found, Recognised(s)).soft_switches = s.soft_switches
  BY <1>2 DEF Ready, set_machine, check_machine_font, regs
<1> QED
  BY <1>3 DEF machine_auto_detection, found

LEMMA VidexUntouched ==
  ASSUME NEW s, Ready(s), NEW mode, NEW address, NEW data
  PROVE  Untouched(s, videx_access(s, mode, address, data))
<1>1. Untouched(s, s)
  BY SameItself DEF Untouched, StaysClosed
<1>2. Untouched(s, videx_reg_read(s, address))
  BY DEF Ready, Untouched, Same, StaysClosed, Closed, videx_reg_read
<1>3. Untouched(s, videx_reg_write(s, address, data))
  <2> DEFINE bank == [s EXCEPT !.videx_banknum = Bank(address)]
  <2>1. Untouched(s, bank) /\ Ready(bank)
    BY DEF Ready, Untouched, Same, StaysClosed, Closed
  <2> HIDE DEF bank
  <2>2. Untouched(bank, [bank EXCEPT !.videx_crtc_idx = data])
        /\ Untouched(bank, [bank EXCEPT !.videx_crtc_regs[s.videx_crtc_idx] = data])
    BY <2>1 DEF Ready, Untouched, Same, StaysClosed, Closed
  <2> QED
    BY <2>1, <2>2, UntouchedTwice, Zenon DEF videx_reg_write, bank
<1>4. Untouched(s, videx_c8xx(s, mode, address, data))
  <2>1. Untouched(s, [s EXCEPT !.videx_vterm_mem_selected = FALSE])
        /\ Untouched(s, [s EXCEPT !.videx_vram[Window(s, address)] = data])
    BY DEF Ready, Untouched, Same, StaysClosed, Closed
  <2> QED
    BY <1>1, <2>1 DEF videx_c8xx
<1>5. Untouched(s, [s EXCEPT !.videx_vterm_mem_selected = TRUE])
  BY DEF Ready, Untouched, Same, StaysClosed, Closed
<1> QED
  BY <1>1, <1>2, <1>3, <1>4, <1>5 DEF videx_access

-----------------------------------------------------------------------------
(* The locks.                                                              *)

\* Register 15 from this value of the lock.
NextLock(old, data) ==
  CASE data = 11 -> 1
    [] data = 22 -> IF old = 1 THEN Unlocked ELSE old
    [] OTHER -> Locked

\* The recogniser of the ROMX after a read of the key page.
NextRomx(old, low) ==
  CASE low = KeyLow  -> IF old = 1 THEN 2 ELSE 1
    [] low = KeyHigh -> IF old = 2 THEN 3 ELSE 0
    [] OTHER         -> IF old = 3 THEN 3 ELSE 0

LockWritten(mode, address) == mode = "WriteDev" /\ address % 16 = 15
KeyRead(mode, address, machine) ==
  mode = "ReadMem" /\ address \div 256 = RomxPage(machine)

\* No key was read: the font selection, if it is open, may be used up.
RomxKept(s, t) ==
  \/ t.romx_unlocked = s.romx_unlocked
  \/ s.romx_unlocked = 3 /\ t.romx_unlocked = 0

\* Before the detection of a reset.
Emulated(s, t, mode, address, data) ==
  /\ DOMAIN t = DOMAIN s
  /\ t.reset_state = s.reset_state
  /\ t.dev_config_lock = IF LockWritten(mode, address)
                         THEN NextLock(s.dev_config_lock, data) ELSE s.dev_config_lock
  /\ IF KeyRead(mode, address, s.current_machine)
     THEN t.romx_unlocked = NextRomx(s.romx_unlocked, address % 256)
     ELSE RomxKept(s, t)

LEMMA RomxRead ==
  ASSUME NEW s, Ready(s), NEW address \in Address
  PROVE  LET t == check_romx_read(s, address)
         IN  /\ Ready(t) /\ DOMAIN t = DOMAIN s
             /\ t.reset_state = s.reset_state /\ t.dev_config_lock = s.dev_config_lock
             /\ t.apple_memory = s.apple_memory /\ t.private_memory = s.private_memory
             /\ StaysClosed(s, t)
             /\ IF KeyRead("ReadMem", address, s.current_machine)
                THEN t.romx_unlocked = NextRomx(s.romx_unlocked, address % 256)
                ELSE RomxKept(s, t)
<1> DEFINE m == s.current_machine
           t == check_romx_read(s, address)
           key == romx_key(s, address % 256)
           others(u) == /\ Ready(u) /\ DOMAIN u = DOMAIN s
                        /\ u.reset_state = s.reset_state
                        /\ u.dev_config_lock = s.dev_config_lock
                        /\ u.apple_memory = s.apple_memory
                        /\ u.private_memory = s.private_memory
                        /\ StaysClosed(s, u)
<1>1. others(key) /\ key.romx_unlocked = NextRomx(s.romx_unlocked, address % 256)
  BY DEF Ready, StaysClosed, Closed, romx_key, NextRomx
<1>2. others(romx_bank(s, address)) /\ romx_bank(s, address).romx_unlocked = s.romx_unlocked
  BY DEF Ready, StaysClosed, Closed, romx_bank
<1>3. others(romx_commit(s)) /\ romx_commit(s).romx_unlocked = 0
  BY DEF Ready, StaysClosed, Closed, romx_commit
<1>4. others(s)
  BY DEF StaysClosed
<1>5. CASE m \in {MACHINE_II, MACHINE_IIE} /\ address \div 256 = RomxPage(m)
  <2>1. t = key
    BY <1>5 DEF check_romx_read
  <2> QED
    BY <1>1, <1>5, <2>1 DEF KeyRead
<1>6. CASE m \in {MACHINE_II, MACHINE_IIE} /\ address \div 256 # RomxPage(m)
  <2>1. \/ t \in {romx_bank(s, address), s}
        \/ t = romx_commit(s) /\ s.romx_unlocked = 3
    BY <1>6 DEF check_romx_read
  <2>2. ~ KeyRead("ReadMem", address, m)
    BY <1>6 DEF KeyRead
  <2> HIDE DEF t
  <2> QED
    BY <1>2, <1>3, <1>4, <2>1, <2>2 DEF t, RomxKept
<1>7. CASE m \notin {MACHINE_II, MACHINE_IIE}
  <2>1. t = s
    BY <1>7 DEF check_romx_read
  <2>2. address \div 256 # 256
    BY Addresses
  <2>3. ~ KeyRead("ReadMem", address, m)
    BY <1>7, <2>2 DEF KeyRead, RomxPage
  <2> QED
    BY <1>4, <2>1, <2>3 DEF RomxKept
<1> QED
  BY <1>5, <1>6, <1>7

\* A write that the menu does not hold back goes to one cell of one bank.
Auxiliary(s, address) ==
  IF Paged(s, address) THEN "PAGE_2" \in s.soft_switches
  ELSE "AUX_WRITE" \in s.soft_switches

Stored1(s, t, address, data) ==
  IF address \notin Shadowed
  THEN t.apple_memory = s.apple_memory /\ t.private_memory = s.private_memory
  ELSE IF Auxiliary(s, address)
  THEN /\ t.apple_memory = s.apple_memory
       /\ t.private_memory = [s.private_memory EXCEPT ![address] = data]
  ELSE /\ t.apple_memory = [s.apple_memory EXCEPT ![address] = data]
       /\ t.private_memory = s.private_memory

\* Everything but the memories.
SameLocks(s, t) ==
  /\ DOMAIN t = DOMAIN s
  /\ t.reset_state = s.reset_state
  /\ t.dev_config_lock = s.dev_config_lock
  /\ t.romx_unlocked = s.romx_unlocked

LEMMA StoreKeeps ==
  ASSUME NEW s, Ready(s), NEW address, NEW data,
         NEW memory \in {"apple_memory", "private_memory"}
  PROVE  /\ SameLocks(s, Store(s, memory, address, data))
         /\ StaysClosed(s, Store(s, memory, address, data))
         /\ Store(s, memory, address, data).soft_switches = s.soft_switches
  BY DEF Ready, SameLocks, StaysClosed, Closed, Store

LEMMA StoreChanges ==
  ASSUME NEW s, Ready(s), NEW address \in Shadow, NEW data
  PROVE  LET main == Store(s, "apple_memory", address, data)
             aux  == Store(s, "private_memory", address, data)
         IN  /\ main.apple_memory = [s.apple_memory EXCEPT ![address] = data]
             /\ main.private_memory = s.private_memory
             /\ aux.apple_memory = s.apple_memory
             /\ aux.private_memory = [s.private_memory EXCEPT ![address] = data]
  BY DEF Ready, Store

LEMMA InShadowed ==
  ASSUME NEW address
  PROVE  address \in Shadowed <=> address \in Shadow /\ ~ (address \in 0 .. 511)
  BY ZenonT(60) DEF Shadowed

LEMMA RamWrite ==
  ASSUME NEW s, Ready(s), NEW address \in Nat, NEW data
  PROVE  LET t == ram_write(s, address, data)
         IN  /\ SameLocks(s, t) /\ StaysClosed(s, t)
             /\ t.soft_switches = s.soft_switches
             /\ Closed(s) => Stored1(s, t, address, data)
<1> DEFINE main  == Store(s, "apple_memory", address, data)
           aux   == Store(s, "private_memory", address, data)
           found == machine_auto_detection(main)
           t     == ram_write(s, address, data)
           Good(u) == SameLocks(s, u) /\ StaysClosed(s, u) /\ u.soft_switches = s.soft_switches
<1> HIDE DEF main, aux, found, t
<1>1. Good(main) /\ Good(aux)
  BY StoreKeeps DEF main, aux
<1>2. Good(s)
  BY DEF SameLocks, StaysClosed
<1>3. Ready(main)
  BY <1>1 DEF SameLocks, Ready
<1>4. Untouched(main, found) /\ found.soft_switches = main.soft_switches
  BY <1>3, DetectionUntouched, DetectionSwitches DEF found
<1>5. Good(found) /\ found.apple_memory = main.apple_memory
      /\ found.private_memory = main.private_memory
  BY <1>1, <1>4 DEF SameLocks, StaysClosed, Untouched, Same
<1>6. address \in Shadow =>
        /\ main.apple_memory = [s.apple_memory EXCEPT ![address] = data]
        /\ main.private_memory = s.private_memory
        /\ aux.apple_memory = s.apple_memory
        /\ aux.private_memory = [s.private_memory EXCEPT ![address] = data]
  BY StoreChanges DEF main, aux
<1>7. address \notin Shadow => main = s /\ aux = s
  BY DEF Store, main, aux
<1> HIDE DEF Good
<1>8. CASE Paged(s, address)
  <2>1. t = IF "PAGE_2" \in s.soft_switches THEN aux ELSE main
    BY <1>8 DEF ram_write, t, main, aux
  <2>2. ~ (address \in 0 .. 511)
    BY <1>8, SMTT(30) DEF Paged, TextPage, HiresPage
  <2>3. Stored1(s, t, address, data)
    BY <1>6, <1>7, <1>8, <2>1, <2>2, InShadowed DEF Stored1, Auxiliary
  <2>4. Good(t)
    BY <1>1, <2>1
  <2> QED
    BY <2>3, <2>4 DEF t, Good
<1>9. CASE ~ Paged(s, address) /\ address < 512
  <2>1. t = s
    <3>1. ~ (address >= 512)
      BY <1>9
    <3> QED
      BY <1>9, <3>1, Zenon DEF ram_write, t
  <2>0. address < 512
    BY <1>9
  <2>3. address \in 0 .. 511
    BY <2>0
  <2>2. address \notin Shadowed
    BY <2>3, InShadowed
  <2> QED
    BY <1>2, <2>1, <2>2 DEF Stored1, t, Good
<1>10. CASE ~ Paged(s, address) /\ ~ (address < 512)
  <2>0. ~ (address < 512)
    BY <1>10
  <2>1. address >= 512 /\ ~ (address \in 0 .. 511)
    BY <2>0
  <2>2. t = IF "AUX_WRITE" \in s.soft_switches THEN aux
            ELSE IF "MENU_ENABLE" \in s.internal_flags THEN s
            ELSE IF address < 2048 THEN found ELSE main
    BY <1>10, <2>1 DEF ram_write, t, main, aux, found
  <2>3. Closed(s) => Stored1(s, t, address, data)
    BY <1>5, <1>6, <1>7, <1>10, <2>1, <2>2, InShadowed DEF Stored1, Auxiliary, Closed
  <2>4. Good(t)
    BY <1>1, <1>2, <1>5, <2>2
  <2> QED
    BY <2>3, <2>4 DEF t, Good
<1> QED
  BY <1>8, <1>9, <1>10

\* A register write, with what it draws.
LEMMA RegisterWrite ==
  ASSUME NEW s, Ready(s), NEW reg, NEW data
  PROVE  LET t == registers(s, reg, data)
         IN  /\ DOMAIN t = DOMAIN s
             /\ t.reset_state = s.reset_state /\ t.romx_unlocked = s.romx_unlocked
             /\ t.dev_config_lock = IF reg = 15 THEN NextLock(s.dev_config_lock, data)
                                    ELSE s.dev_config_lock
             /\ Closed(s) /\ ~ Draws(reg, data) =>
                  /\ Closed(t)
                  /\ t.apple_memory = s.apple_memory
                  /\ t.private_memory = s.private_memory
<1> DEFINE after == device_write(s, reg, data)
           drawn == [after EXCEPT
                       !.apple_memory = [a \in Shadow |->
                                           IF a \in Cleared THEN Drawn ELSE @[a]],
                       !.private_memory = [a \in Shadow |->
                                             IF a \in Cleared THEN Blank ELSE @[a]]]
           t == registers(s, reg, data)
           Locks(u) == /\ DOMAIN u = DOMAIN s
                       /\ u.reset_state = s.reset_state /\ u.romx_unlocked = s.romx_unlocked
                       /\ u.dev_config_lock = IF reg = 15
                                              THEN NextLock(s.dev_config_lock, data)
                                              ELSE s.dev_config_lock
<1>1. Locks(after) /\ after.apple_memory = s.apple_memory
      /\ after.private_memory = s.private_memory
      /\ (~ Draws(reg, data) => StaysClosed(s, after))
  <2>1. CASE reg = 15
    <3>1. after = lock(s, data)
      BY <2>1, KeyWrite
    <3> HIDE DEF after
    <3> QED
      BY <2>1, <3>1, LockChanges DEF NextLock
  <2>2. CASE reg # 15
    <3>1. Same(s, after) /\ (~ Draws(reg, data) => StaysClosed(s, after))
      BY <2>2, RegisterSame
    <3> HIDE DEF after
    <3> QED
      BY <2>2, <3>1 DEF Same
  <2> QED
    BY <2>1, <2>2
<1>2. t = IF DrawsScreen(s, reg, data, after) THEN drawn ELSE after
  BY DEF registers
<1>3. ~ Draws(reg, data) /\ StaysClosed(s, after) /\ Closed(s)
        => ~ DrawsScreen(s, reg, data, after)
  BY DEF Draws, StaysClosed, DrawsScreen
<1> HIDE DEF after
<1>4. Locks(drawn)
  BY <1>1 DEF Ready
<1> HIDE DEF drawn, t
<1> QED
  BY <1>1, <1>2, <1>3, <1>4 DEF t, StaysClosed

\* An access to C000 to CFFF.
LEMMA RegisterAccess ==
  ASSUME NEW s, Ready(s), NEW mode, NEW address \in Nat, NEW data,
         mode \in {"WriteDev", "ReadDev"} => address >= 49280
  PROVE  LET t == register_access(s, mode, address, data)
         IN  /\ DOMAIN t = DOMAIN s
             /\ t.reset_state = s.reset_state /\ t.romx_unlocked = s.romx_unlocked
             /\ t.dev_config_lock = IF LockWritten(mode, address)
                                    THEN NextLock(s.dev_config_lock, data)
                                    ELSE s.dev_config_lock
             /\ Closed(s) /\ ~ (mode = "WriteDev" /\ Draws(address % 16, data)) =>
                  /\ Closed(t)
                  /\ t.apple_memory = s.apple_memory
                  /\ t.private_memory = s.private_memory
<1> DEFINE t == register_access(s, mode, address, data)
<1> HIDE DEF t
<1>1. CASE mode = "WriteDev"
  <2>1. t = registers(s, address % 16, data)
    BY <1>1 DEF register_access, t
  <2> DEFINE reg == address % 16
  <2> HIDE DEF reg
  <2>2. t = registers(s, reg, data) /\ (LockWritten(mode, address) <=> reg = 15)
    BY <1>1, <2>1 DEF reg, LockWritten
  <2>3. /\ DOMAIN t = DOMAIN s
        /\ t.reset_state = s.reset_state /\ t.romx_unlocked = s.romx_unlocked
        /\ t.dev_config_lock = IF reg = 15 THEN NextLock(s.dev_config_lock, data)
                               ELSE s.dev_config_lock
        /\ Closed(s) /\ ~ Draws(reg, data) =>
             /\ Closed(t)
             /\ t.apple_memory = s.apple_memory
             /\ t.private_memory = s.private_memory
    BY <2>2, RegisterWrite
  <2> QED
    BY <1>1, <2>2, <2>3 DEF reg, t
<1>2. CASE mode # "WriteDev"
  <2>1. Untouched(s, s)
    BY SameItself DEF Untouched, StaysClosed
  <2>2. Untouched(s, apple2_softswitches(s, mode, address, data))
        /\ Untouched(s, videx_access(s, mode, address, data))
    BY SoftswitchesUntouched, VidexUntouched
  <2>3. Untouched(s, t)
    BY <1>2, <2>1, <2>2 DEF register_access, t
  <2> QED
    BY <1>2, <2>3 DEF Untouched, Same, StaysClosed, LockWritten, t
<1> QED
  BY <1>1, <1>2

\* The cycle makes the firmware draw.
DrawsCycle(mode, address, data) == mode = "WriteDev" /\ Draws(address % 16, data)

MemoryWrite(mode, address) == mode = "WriteMem" /\ address < 24576

\* What a cycle that draws nothing does to the memories.
Remembered(s, t, mode, address, data) ==
  Closed(s) /\ ~ DrawsCycle(mode, address, data) =>
    /\ Closed(t)
    /\ IF MemoryWrite(mode, address)
       THEN Stored1(s, t, address, data) /\ t.soft_switches = s.soft_switches
       ELSE t.apple_memory = s.apple_memory /\ t.private_memory = s.private_memory

LEMMA WriteEmulated ==
  ASSUME NEW s, NEW address \in Nat, NEW data, address < 24576
  PROVE  apple2emulation(s, "WriteMem", address, data) = ram_write(s, address, data)
<1>1. ASSUME address \in 49152 .. 53247
      PROVE  FALSE
  BY <1>1
<1> QED
  BY <1>1 DEF apple2emulation

LEMMA EmulatedCycle ==
  ASSUME NEW s, Ready(s), NEW mode, NEW address \in Address, NEW data,
         mode \in {"WriteDev", "ReadDev"} => address \in DeviceSelect
  PROVE  LET t == apple2emulation(s, mode, address, data)
         IN  Emulated(s, t, mode, address, data) /\ Remembered(s, t, mode, address, data)
<1> DEFINE seen == IF mode = "ReadMem" THEN check_romx_read(s, address) ELSE s
           t    == apple2emulation(s, mode, address, data)
           Seen(u) == /\ DOMAIN u = DOMAIN s /\ u.reset_state = s.reset_state
                      /\ u.dev_config_lock = s.dev_config_lock
                      /\ u.apple_memory = s.apple_memory
                      /\ u.private_memory = s.private_memory
                      /\ StaysClosed(s, u)
                      /\ IF KeyRead(mode, address, s.current_machine)
                         THEN u.romx_unlocked = NextRomx(s.romx_unlocked, address % 256)
                         ELSE RomxKept(s, u)
<1> HIDE DEF seen, t, Seen
<1>0. address \in Nat
  BY Addresses
<1>1. Seen(seen) /\ Ready(seen)
  <2>1. CASE mode = "ReadMem"
    BY <2>1, RomxRead DEF seen, Seen, KeyRead
  <2>2. CASE mode # "ReadMem"
    BY <2>2 DEF seen, Seen, KeyRead, StaysClosed, RomxKept
  <2> QED
    BY <2>1, <2>2
<1>2. CASE MemoryWrite(mode, address)
  <2>1. t = ram_write(s, address, data)
    BY <1>0, <1>2, WriteEmulated DEF MemoryWrite, t
  <2>2. /\ SameLocks(s, t) /\ StaysClosed(s, t)
        /\ t.soft_switches = s.soft_switches
        /\ Closed(s) => Stored1(s, t, address, data)
    BY <1>0, <2>1, RamWrite
  <2>3. ~ LockWritten(mode, address) /\ ~ KeyRead(mode, address, s.current_machine)
    BY <1>2 DEF MemoryWrite, LockWritten, KeyRead
  <2> QED
    BY <1>2, <2>2, <2>3 DEF Emulated, Remembered, SameLocks, StaysClosed, RomxKept, t
<1>3. CASE ~ MemoryWrite(mode, address) /\ address \in 49152 .. 53247
  <2>1. t = register_access(seen, mode, address, data)
    BY <1>3 DEF apple2emulation, MemoryWrite, t, seen
  <2>2. mode \in {"WriteDev", "ReadDev"} => address >= 49280
    BY DeviceAddresses
  <2>3. /\ DOMAIN t = DOMAIN seen
        /\ t.reset_state = seen.reset_state /\ t.romx_unlocked = seen.romx_unlocked
        /\ t.dev_config_lock = IF LockWritten(mode, address)
                               THEN NextLock(seen.dev_config_lock, data)
                               ELSE seen.dev_config_lock
        /\ Closed(seen) /\ ~ DrawsCycle(mode, address, data) =>
             /\ Closed(t)
             /\ t.apple_memory = seen.apple_memory
             /\ t.private_memory = seen.private_memory
    BY <1>0, <1>1, <2>1, <2>2, RegisterAccess DEF DrawsCycle
  <2> QED
    BY <1>1, <1>3, <2>3 DEF Emulated, Remembered, Seen, StaysClosed, RomxKept, t
<1>4. CASE ~ MemoryWrite(mode, address) /\ ~ (address \in 49152 .. 53247)
  <2>1. t = seen
    BY <1>4 DEF apple2emulation, MemoryWrite, t, seen
  <2>2. ~ LockWritten(mode, address)
    BY <1>0, <1>4 DEF LockWritten, DeviceSelect
  <2> QED
    BY <1>1, <1>4, <2>1, <2>2 DEF Emulated, Remembered, Seen, StaysClosed, RomxKept, t
<1> QED
  BY <1>2, <1>3, <1>4

\* The cycle ends a reset.
ResetCycle(s, mode, address) == mode = "ReadMem" /\ s.reset_state = 2 /\ address = 64098

LEMMA ResetChanges ==
  ASSUME NEW s, Ready(s), NEW mode, NEW address
  PROVE  LET t == reset_detection(s, mode, address)
         IN  /\ DOMAIN t = DOMAIN s
             /\ t.apple_memory = s.apple_memory /\ t.private_memory = s.private_memory
             /\ Closed(s) => Closed(t)
             /\ IF ResetCycle(s, mode, address)
                THEN t.dev_config_lock = Locked /\ t.romx_unlocked = 0
                ELSE /\ t.dev_config_lock = s.dev_config_lock
                     /\ t.romx_unlocked = s.romx_unlocked
                     /\ t.soft_switches = s.soft_switches
<1> DEFINE t == reset_detection(s, mode, address)
           Kept(u) == /\ DOMAIN u = DOMAIN s
                      /\ u.apple_memory = s.apple_memory
                      /\ u.private_memory = s.private_memory
                      /\ Closed(s) => Closed(u)
<1>1. Kept(Reset(s)) /\ Reset(s).dev_config_lock = Locked /\ Reset(s).romx_unlocked = 0
  BY DEF Ready, Closed, Reset, Flag
<1>2. \A n : LET u == [s EXCEPT !.reset_state = n]
             IN  /\ Kept(u)
                 /\ u.dev_config_lock = s.dev_config_lock
                 /\ u.romx_unlocked = s.romx_unlocked
                 /\ u.soft_switches = s.soft_switches
  BY DEF Ready, Closed
<1>3. CASE ResetCycle(s, mode, address)
  <2>1. t = Reset(s)
    BY <1>3 DEF ResetCycle, reset_detection
  <2> QED
    BY <1>1, <1>3, <2>1
<1>4. CASE ~ ResetCycle(s, mode, address)
  <2>1. \E n \in 0 .. 2 : t = [s EXCEPT !.reset_state = n]
    BY <1>4 DEF ResetCycle, reset_detection
  <2> QED
    BY <1>2, <1>4, <2>1
<1> QED
  BY <1>3, <1>4

\* A whole cycle.
AfterCycle(s, mode, address, data) ==
  [businterface(s, mode, address, data) EXCEPT !.trail = << >>]

Locks(s, t, mode, address, data) ==
  IF ResetCycle(s, mode, address)
  THEN t.dev_config_lock = Locked /\ t.romx_unlocked = 0
  ELSE /\ t.dev_config_lock = IF LockWritten(mode, address)
                              THEN NextLock(s.dev_config_lock, data) ELSE s.dev_config_lock
       /\ IF KeyRead(mode, address, s.current_machine)
          THEN t.romx_unlocked = NextRomx(s.romx_unlocked, address % 256)
          ELSE RomxKept(s, t)

LEMMA WholeCycle ==
  ASSUME NEW s, Ready(s), NEW mode, NEW address \in Address, NEW data,
         mode \in {"WriteDev", "ReadDev"} => address \in DeviceSelect
  PROVE  LET t == AfterCycle(s, mode, address, data)
         IN  /\ Ready(t)
             /\ Locks(s, t, mode, address, data)
             /\ Remembered(s, t, mode, address, data)
<1> DEFINE e == apple2emulation(s, mode, address, data)
           r == reset_detection(e, mode, address)
           t == AfterCycle(s, mode, address, data)
<1> HIDE DEF e, r, t
<1>1. Emulated(s, e, mode, address, data) /\ Remembered(s, e, mode, address, data)
  BY EmulatedCycle DEF e
<1>2. Ready(e)
  BY <1>1 DEF Emulated, Ready
<1>3. /\ DOMAIN r = DOMAIN e
      /\ r.apple_memory = e.apple_memory /\ r.private_memory = e.private_memory
      /\ Closed(e) => Closed(r)
      /\ IF ResetCycle(e, mode, address)
         THEN r.dev_config_lock = Locked /\ r.romx_unlocked = 0
         ELSE /\ r.dev_config_lock = e.dev_config_lock
              /\ r.romx_unlocked = e.romx_unlocked
              /\ r.soft_switches = e.soft_switches
  BY <1>2, ResetChanges DEF r
<1>4. /\ DOMAIN t = DOMAIN r
      /\ t.apple_memory = r.apple_memory /\ t.private_memory = r.private_memory
      /\ Closed(r) => Closed(t)
      /\ t.dev_config_lock = r.dev_config_lock /\ t.romx_unlocked = r.romx_unlocked
      /\ t.soft_switches = r.soft_switches
  BY <1>2, <1>3 DEF Ready, Closed, AfterCycle, businterface, e, r, t
<1>5. ResetCycle(e, mode, address) <=> ResetCycle(s, mode, address)
  BY <1>1 DEF Emulated, ResetCycle
<1>6. Ready(t)
  BY <1>2, <1>3, <1>4 DEF Ready
<1>7. Locks(s, t, mode, address, data)
  BY <1>1, <1>3, <1>4, <1>5 DEF Emulated, Locks, RomxKept
<1>8. MemoryWrite(mode, address) => ~ ResetCycle(s, mode, address)
  BY DEF MemoryWrite, ResetCycle
<1>9. Remembered(s, t, mode, address, data)
  BY <1>1, <1>3, <1>4, <1>5, <1>8 DEF Remembered, Stored1
<1> QED
  BY <1>6, <1>7, <1>9 DEF t

\* The state after power-on.
LEMMA PowerOnState ==
  ASSUME NEW c \in Saved
  PROVE  LET s == BusPowerOn([FreshFlash EXCEPT !.config = c])
         IN  /\ Ready(s) /\ Closed(s)
             /\ {"romx_textbank", "cfg_local_charset"} \subseteq DOMAIN s
             /\ s.dev_config_lock = Locked /\ s.romx_unlocked = 0 /\ s.reset_state = 0
             /\ s.apple_memory \in [Shadow -> 0 .. 255]
             /\ s.private_memory \in [Shadow -> 0 .. 255]
<1> DEFINE flash  == [FreshFlash EXCEPT !.config = c]
           others == PowerOn(flash)
           bus ==
             [apple_memory |-> [a \in Shadow |-> IF a \in DOMAIN Title THEN Title[a]
                                                 ELSE IF a \in Cleared THEN Blank ELSE 0],
              private_memory |-> [a \in Shadow |-> IF a \in Cleared THEN Blank ELSE 0],
              romx_unlocked |-> 0, romx_textbank |-> 0, reset_state |-> 0,
              videx_vterm_mem_selected |-> FALSE, videx_banknum |-> 0, videx_crtc_idx |-> 0,
              videx_crtc_regs |-> [r \in 0 .. 17 |-> CrtcDefaults[r + 1]],
              videx_vram |-> [v \in VideoRam |-> 0]]
           both == [f \in DOMAIN others \cup DOMAIN bus |->
                      IF f \in DOMAIN bus THEN bus[f] ELSE others[f]]
<1> HIDE DEF flash, others, bus, both
<1>1. flash.config = c
  BY DEF flash, FreshFlash
<1>2. /\ {"dev_config_lock", "internal_flags", "soft_switches", "screen", "flash",
            "cfg_local_charset"}
            \subseteq DOMAIN others
      /\ others.dev_config_lock = Locked
      /\ others.internal_flags = {"INTERP_DGR", "INTERP_DHGR"}
      /\ others.flash = flash
  BY DEF others, PowerOn
<1>3. /\ DOMAIN bus = {"apple_memory", "private_memory", "romx_unlocked", "romx_textbank",
                       "reset_state", "videx_vterm_mem_selected", "videx_banknum",
                       "videx_crtc_idx", "videx_crtc_regs", "videx_vram"}
      /\ bus.romx_unlocked = 0 /\ bus.reset_state = 0
  BY DEF bus
<1>4. bus.apple_memory \in [Shadow -> 0 .. 255] /\ bus.private_memory \in [Shadow -> 0 .. 255]
  <2>1. \A a \in DOMAIN Title : Title[a] \in 0 .. 255
    BY DEF Title
  <2>2. Blank \in 0 .. 255 /\ 0 \in 0 .. 255
    BY DEF Blank
  <2>3. bus.apple_memory = [a \in Shadow |-> IF a \in DOMAIN Title THEN Title[a]
                                             ELSE IF a \in Cleared THEN Blank ELSE 0]
    BY DEF bus
  <2>4. bus.private_memory = [a \in Shadow |-> IF a \in Cleared THEN Blank ELSE 0]
    BY DEF bus
  <2> QED
    BY <2>1, <2>2, <2>3, <2>4, ZenonT(60)
<1>5. /\ Ready(both) /\ {"romx_textbank", "cfg_local_charset"} \subseteq DOMAIN both
      /\ both.dev_config_lock = Locked /\ both.romx_unlocked = 0 /\ both.reset_state = 0
      /\ both.apple_memory = bus.apple_memory /\ both.private_memory = bus.private_memory
      /\ both.internal_flags = {"INTERP_DGR", "INTERP_DHGR"} /\ both.flash = flash
  BY <1>2, <1>3 DEF Ready, both
<1>6. Closed(both)
  BY <1>1, <1>5, SavedAssumption DEF Closed, StoredFlags
<1>7. Untouched(both, config_load(both))
  BY <1>5, LoadUntouched
<1>8. Ready(config_load(both))
  BY <1>5, <1>7, StillReady DEF Untouched
<1>9. config_load(both) = BusPowerOn(flash)
  BY DEF BusPowerOn, both, bus, others
<1> QED
  BY <1>4, <1>5, <1>6, <1>7, <1>8, <1>9 DEF Untouched, Same, StaysClosed, flash

-----------------------------------------------------------------------------
(* The shadow memories are the memory that the Apple displays, for every   *)
(* program on the Apple that lets the firmware draw nothing.               *)

\* No cycle of the program makes the firmware draw into these memories.
NothingDrawn == \A w \in Words : ~ DrawsCycle(w[1], w[2], w[3])

\* The menu stays closed, and every cell holds a byte.
MemoryInv ==
  /\ Ready(dev) /\ Closed(dev)
  /\ dev.apple_memory \in [Shadow -> 0 .. 255]
  /\ dev.private_memory \in [Shadow -> 0 .. 255]

LEMMA SwitchesBoolean == \A x : On(x) \in BOOLEAN /\ On(x)' \in BOOLEAN
  BY DEF On

LEMMA AllBoolean ==
  /\ {On("80STORE"), On("PAGE_2"), On("HIRES"), On("AUX_WRITE")} \subseteq BOOLEAN
  /\ {On("80STORE")', On("PAGE_2")', On("HIRES")', On("AUX_WRITE")'} \subseteq BOOLEAN
  BY SwitchesBoolean, Zenon

LEMMA MemoryInvInit == Init => MemoryInv /\ Display!Init
<1> SUFFICES ASSUME Init
             PROVE  MemoryInv /\ Display!Init
  OBVIOUS
<1>1. PICK c \in Saved : dev = BusPowerOn([FreshFlash EXCEPT !.config = c])
  BY DEF Init, PoweredOn
<1>2. MemoryInv
  BY <1>1, PowerOnState, ZenonT(60) DEF MemoryInv
<1>3. MainBank \in [Shadowed -> 0 .. 255] /\ AuxBank \in [Shadowed -> 0 .. 255]
  BY <1>2 DEF MemoryInv, MainBank, AuxBank, Shadowed
<1> QED
  BY <1>2, <1>3, AllBoolean, Zenon DEF Display!Init

\* The source's nested tests choose the bank that the rules of the Apple choose.
LEMMA SameBank ==
  ASSUME NEW address
  PROVE  Display!Auxiliary(address) <=> Auxiliary(dev, address)
<1>1. Display!TextPage1 = TextPage /\ Display!HiresPage1 = HiresPage
  BY DEF Display!TextPage1, Display!HiresPage1, TextPage, HiresPage
<1> QED
  BY <1>1, Zenon DEF Display!Auxiliary, Auxiliary, Paged, On

LEMMA WriteReachesBank ==
  ASSUME MemoryInv, NEW address \in Shadowed, NEW data \in 0 .. 255,
         Stored1(dev, dev', address, data), dev'.soft_switches = dev.soft_switches
  PROVE  Display!Write(address, data)
<1>1. \A x : On(x)' = On(x)
  BY DEF On
<1>2. /\ DOMAIN dev.apple_memory = Shadow /\ DOMAIN dev.private_memory = Shadow
      /\ Shadowed \subseteq Shadow
  BY DEF MemoryInv, Shadowed
<1>3. CASE Auxiliary(dev, address)
  <2>1. /\ dev'.apple_memory = dev.apple_memory
        /\ dev'.private_memory = [dev.private_memory EXCEPT ![address] = data]
    BY <1>3 DEF Stored1
  <2>2. MainBank' = MainBank /\ AuxBank' = [AuxBank EXCEPT ![address] = data]
    BY <1>2, <2>1 DEF MainBank, AuxBank
  <2> QED
    BY <1>1, <1>3, <2>2, SameBank, Zenon DEF Display!Write, Display!switches
<1>4. CASE ~ Auxiliary(dev, address)
  <2>1. /\ dev'.apple_memory = [dev.apple_memory EXCEPT ![address] = data]
        /\ dev'.private_memory = dev.private_memory
    BY <1>4 DEF Stored1
  <2>2. MainBank' = [MainBank EXCEPT ![address] = data] /\ AuxBank' = AuxBank
    BY <1>2, <2>1 DEF MainBank, AuxBank
  <2> QED
    BY <1>1, <1>4, <2>2, SameBank, Zenon DEF Display!Write, Display!switches
<1> QED
  BY <1>3, <1>4

LEMMA CycleRefines ==
  ASSUME NothingDrawn, MemoryInv, NEW w \in Words, BusCycle(w[1], w[2], w[3])
  PROVE  MemoryInv' /\ (Display!Next \/ UNCHANGED <<MainBank, AuxBank, Display!switches>>)
<1> DEFINE mode == w[1]
           address == w[2]
           data == w[3]
<1>1. OnTheBus(mode, address, data) /\ ~ DrawsCycle(mode, address, data)
  BY WordsAssumption DEF NothingDrawn
<1>2. dev' = AfterCycle(dev, mode, address, data)
  BY DEF BusCycle, AfterCycle
<1> HIDE DEF mode, address, data
<1>3. address \in Address /\ (mode \in {"WriteDev", "ReadDev"} => address \in DeviceSelect)
  BY <1>1, Zenon DEF OnTheBus
<1>4. Ready(dev') /\ Remembered(dev, dev', mode, address, data)
  BY <1>2, <1>3, WholeCycle DEF MemoryInv
<1>5. /\ Closed(dev')
      /\ IF MemoryWrite(mode, address)
         THEN Stored1(dev, dev', address, data) /\ dev'.soft_switches = dev.soft_switches
         ELSE dev'.apple_memory = dev.apple_memory /\ dev'.private_memory = dev.private_memory
  BY <1>1, <1>4 DEF MemoryInv, Remembered
<1>6. data \in 0 .. 255
  BY <1>1, Zenon DEF OnTheBus
<1>7. CASE MemoryWrite(mode, address) /\ address \in Shadowed
  <2>1. Display!Write(address, data)
    BY <1>5, <1>6, <1>7, WriteReachesBank
  <2>2. /\ dev'.apple_memory \in [Shadow -> 0 .. 255]
        /\ dev'.private_memory \in [Shadow -> 0 .. 255]
    BY <1>5, <1>6, <1>7, SMTT(30) DEF MemoryInv, Stored1
  <2> QED
    BY <1>4, <1>5, <1>6, <1>7, <2>1, <2>2 DEF MemoryInv, Display!Next
<1>8. CASE ~ (MemoryWrite(mode, address) /\ address \in Shadowed)
  <2>1. dev'.apple_memory = dev.apple_memory /\ dev'.private_memory = dev.private_memory
    BY <1>5, <1>8 DEF Stored1
  <2>2. MainBank' = MainBank /\ AuxBank' = AuxBank
    BY <2>1 DEF MainBank, AuxBank
  <2>3. Display!SetSwitch
    BY <2>2, AllBoolean, Zenon DEF Display!SetSwitch, Display!memory
  <2> QED
    BY <1>4, <1>5, <2>1, <2>3 DEF MemoryInv, Display!Next
<1> QED
  BY <1>7, <1>8

\* While the menu stays closed and no program asks for the self-test, core 0 displays
\* what the Apple would: each write arrives in the bank that the switches select at
\* that time, whatever the order of switching and writing (businterface.c:354-391).
THEOREM ShadowIsDisplayMemory ==
  ASSUME NothingDrawn
  PROVE  Spec => ImplementsDisplayMemory
<1> DEFINE dvars == <<MainBank, AuxBank, On("80STORE"), On("PAGE_2"), On("HIRES"),
                      On("AUX_WRITE")>>
<1>1. MemoryInv /\ [Next]_dev => MemoryInv' /\ [Display!Next]_dvars
  <2> SUFFICES ASSUME MemoryInv, [Next]_dev
               PROVE  MemoryInv' /\ [Display!Next]_dvars
    OBVIOUS
  <2>1. CASE UNCHANGED dev
    BY <2>1 DEF MemoryInv, MainBank, AuxBank, On
  <2>2. CASE Next
    <3>1. PICK w \in Words : BusCycle(w[1], w[2], w[3])
      BY <2>2 DEF Next
    <3>2. MemoryInv' /\ (Display!Next \/ UNCHANGED <<MainBank, AuxBank, Display!switches>>)
      BY <3>1, CycleRefines
    <3> QED
      BY <3>2, Zenon DEF Display!switches
  <2> QED
    BY <2>1, <2>2
<1>2. Init => MemoryInv /\ Display!Init
  BY MemoryInvInit
<1> QED
  BY <1>1, <1>2, PTL DEF Spec, ImplementsDisplayMemory, Display!Spec
=============================================================================
