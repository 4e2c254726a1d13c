------------------------------ MODULE Settings ------------------------------
(***************************************************************************)
(* The settings of the card at run time: the Apple II writes registers     *)
(* (core 1), a detected machine and the ROMX font selection arrive from the*)
(* bus (core 1), the renderer loads character sets and polls the switch    *)
(* (core 0), and the power may go at any time, also between two flash      *)
(* operations.                                                             *)
(*                                                                         *)
(* A handler of core 1 is one step; config_load_charsets of core 0 is one  *)
(* step for each of its tests, because core 1 runs while it copies.        *)
(***************************************************************************)
EXTENDS PowerUp, ToggleSwitch

CONSTANTS
  Writes,        \* the register writes <<register, value>> that occur
  Detected,      \* the machines that the detection may find
  RomxBanks,     \* the fonts (0..15) that a ROMX selects
  SwitchMoves,   \* whether the switch is used
  OldConfigs,    \* the configurations that an older firmware left in flash
  PowerFails     \* whether the power goes in the middle of a handler

VARIABLES
  dev,           \* the global variables of the firmware, and the flash
  loading,       \* the part of config_load_charsets that core 0 runs next
  kept,          \* the settings that the next power-on has to bring back
  sent           \* the bytes written to register 3 since the last font select

ASSUME WritesAssumption     == Writes \subseteq (0 .. 15) \X Byte
ASSUME DetectedAssumption   == Detected \subseteq Machine
ASSUME RomxBanksAssumption  == RomxBanks \subseteq 0 .. CUSTOM_FONT_COUNT - 1
ASSUME OldConfigsAssumption == \A config \in OldConfigs : WellStored(config)

vars == <<dev, loading, kept, sent>>

-----------------------------------------------------------------------------
\* What the user has chosen.
UserSettings(s) ==
  [machine |-> s.cfg_machine,
   fonts |-> <<s.cfg_local_charset, s.cfg_alt_charset, s.cfg_videx_selection>>,
   switch |-> s.input_switch_mode, color |-> s.color_mode, fx |-> s.rendering_fx,
   flags |-> s.internal_flags
              \ {"MENU_ENABLE", "IIE_REGS", "INTERP_DGR", "INTERP_DHGR", "VIDEX"}]

Init ==
  /\ \E config \in OldConfigs \cup {Erased} :
       dev = Boot([FreshFlash EXCEPT !.config = config])
  /\ loading = "local"             \* render_init loads the character sets
  /\ kept = UserSettings(dev)
  /\ sent = << >>

-----------------------------------------------------------------------------
(* Core 1: the handlers that the bus triggers.                             *)

\* The handler has written the configuration to flash.
Saves(after) ==
  \E i \in DOMAIN after.trail : after.trail[i].config # dev.flash.config

Settle(s) == [s EXCEPT !.trail = << >>]

Sent(reg, data) ==
  CASE dev.dev_config_lock # Unlocked -> sent
    [] dev.dev_config_lock = Unlocked /\ reg = 2 /\ data % 128 < 32 -> << >>
    [] dev.dev_config_lock = Unlocked /\ reg = 3 /\ Len(sent) <= CHARACTER_ROM_SIZE ->
         Append(sent, data)
    [] OTHER -> sent

DeviceWrite(reg, data) ==
  LET after == device_write(dev, reg, data)
  IN  /\ dev' = Settle(after)
      /\ kept' = IF Saves(after) THEN UserSettings(after) ELSE kept
      /\ sent' = Sent(reg, data)
      /\ UNCHANGED loading

\* The first screen that the machine draws gives it away.
machine_auto_detection(machine) ==
  /\ dev.current_machine = MACHINE_AUTO
  /\ "MENU_ENABLE" \notin dev.internal_flags
  /\ dev' = set_machine([dev EXCEPT !.detected_machine = machine], machine)
  /\ UNCHANGED <<loading, kept, sent>>

\* check_romx_read has seen the whole sequence.
RomxSelect(bank) ==
  /\ dev.current_machine \in {MACHINE_II, MACHINE_IIE}
  /\ dev' = [dev EXCEPT !.cfg_local_charset = FirstCustom + bank,
                        !.reload_charsets = @ \cup {Local}]
  /\ UNCHANGED <<loading, kept, sent>>

\* The 6502 fetched its reset vector.
Reset ==
  /\ dev' = [Flag(dev, FALSE, "MENU_ENABLE") EXCEPT
               !.soft_switches = {"TEXT", "V7_MODE1", "V7_MODE2"},
               !.dev_config_lock = Locked]
  /\ UNCHANGED <<loading, kept, sent>>

-----------------------------------------------------------------------------
(* Core 0.                                                                 *)

\* render_text found reload_charsets set, or render_init calls it.
StartLoading ==
  /\ loading = "no" /\ dev.reload_charsets # {}
  /\ loading' = "local"
  /\ UNCHANGED <<dev, kept, sent>>

Load(part, next, after) ==
  /\ loading = part
  /\ dev' = after
  /\ loading' = next
  /\ UNCHANGED <<kept, sent>>

LoadLocal     == Load("local", "alternate", load_local(dev))
LoadAlternate == Load("alternate", "videx", load_alternate(dev))
LoadVidex     == Load("videx", "clear", load_videx(dev))
ClearReload   == Load("clear", "no", [dev EXCEPT !.reload_charsets = {}])

\* All of config_load_charsets while core 1 does nothing.
LoadUndisturbed ==
  /\ loading \in {"no", "local"} /\ dev.reload_charsets # {}
  /\ dev' = config_load_charsets(dev)
  /\ loading' = "no"
  /\ UNCHANGED <<kept, sent>>

\* The switch has been in one state for long enough (debounce_threshold).
Switch ==
  /\ SwitchMoves
  /\ loading = "no"
  /\ dev.input_switch_mode # ModeSwitchDisabled
  /\ \E on, quick, color \in BOOLEAN :
       dev' = update_toggle_switch(dev, on, quick, color)
  /\ UNCHANGED <<loading, kept, sent>>

-----------------------------------------------------------------------------
(* The power.                                                              *)

Restart(flash) ==
  /\ dev' = Boot(flash)
  /\ loading' = "local"
  /\ sent' = << >>

PowerCycle == Restart(dev.flash) /\ UNCHANGED kept

\* ... goes during a register write, after one of its flash operations.
PowerLoss(reg, data) ==
  /\ PowerFails
  /\ LET trail == device_write(dev, reg, data).trail
     IN  \E i \in DOMAIN trail : Restart(trail[i])
  /\ kept' = UserSettings(dev')

Core1 ==
  \/ \E w \in Writes : DeviceWrite(w[1], w[2])
  \/ \E m \in Detected : machine_auto_detection(m)
  \/ \E b \in RomxBanks : RomxSelect(b)
  \/ Reset

Core0 == StartLoading \/ LoadLocal \/ LoadAlternate \/ LoadVidex \/ ClearReload \/ Switch

Power == PowerCycle \/ \E w \in Writes : PowerLoss(w[1], w[2])

Next == Core1 \/ Core0 \/ Power

Spec == Init /\ [][Next]_vars

\* Core 1 leaves the settings alone while core 0 loads character sets.
QuietNext == Core1 \/ LoadUndisturbed \/ Switch \/ Power

QuietSpec == Init /\ [][QuietNext]_vars

\* As A2DVICONFIG.BAS does (lines 1110-1170), the program writes nothing but keys and
\* the lock while the menu is open, and no ROMX selects a font then.
PatientNext ==
  \/ "MENU_ENABLE" \notin dev.internal_flags /\ Core1
  \/ \E w \in Writes : w[1] \in {9, 15} /\ DeviceWrite(w[1], w[2])
  \/ Reset \/ Core0 \/ LoadUndisturbed \/ Power

PatientSpec == Init /\ [][PatientNext]_vars

-----------------------------------------------------------------------------
(* Properties of every program that writes registers in any order.         *)

Font == [1 .. CHARACTER_ROM_SIZE -> Byte \cup {Erased}]

FlashOK(flash) ==
  /\ DOMAIN flash = {"config", "fontdir", "fonts"}
  /\ flash.config = Erased \/ WellStored(flash.config)
  /\ flash.fontdir = Erased \/ flash.fontdir \subseteq Slots
  /\ flash.fonts \in [Slots -> Font]

SettingsOK(s) ==
  /\ {s.detected_machine, s.cfg_machine, s.current_machine} \subseteq Machine
  /\ s.reload_charsets \subseteq {Local, Alternate, Videx}
  /\ s.cfg_videx_selection \in 0 .. VIDEX_FONT_COUNT
  /\ s.cfg_local_charset \in 0 .. MAX_FONT_COUNT     \* 32 by command 0x30
  /\ s.cfg_alt_charset \in 0 .. MAX_FONT_COUNT - 1
  /\ s.invalid_fonts \subseteq Slots
  /\ s.color_mode \in 0 .. 2 /\ s.rendering_fx \in FX_NONE .. FX_DGR_ONLY
  /\ s.input_switch_mode \in ModeSwitchDisabled .. ModeSwitchLangCycle
  /\ s.internal_flags \subseteq Flags
  /\ s.CurrentMenu \in 0 .. MENU_ENTRY_COUNT - 1
  /\ {s.done, s.language_switch, s.unenhance_font, s.IgnoreNextKeypress,
      s.MenuNeedsRedraw, s.debounce_last} \subseteq BOOLEAN

UploadOK(s) ==
  /\ s.custom_rom_font_nr \in Slots /\ s.custom_rom_font_type \in {0, 1}
  /\ s.custom_rom_write_offset \in 0 .. 2 * CHARACTER_ROM_SIZE
  /\ s.custom_rom_write_count \in 0 .. CHARACTER_ROM_SIZE + 1
  /\ s.custom_font_buffer \in [{0, 1} -> Font]

TypeOK ==
  /\ SettingsOK(dev) /\ UploadOK(dev) /\ FlashOK(dev.flash)
  /\ dev.dev_config_lock \in {Locked, 1, Unlocked}
  /\ dev.trail = << >>
  /\ loading \in {"no", "local", "alternate", "videx", "clear"}

\* The flags that derive from a setting follow it, whichever of the menu, a
\* register, a load, the defaults or the detection changed it last.
FlagsFollow ==
  /\ "IIE_REGS" \in dev.internal_flags <=> IIeFont(dev.current_machine)
  /\ "VIDEX" \in dev.internal_flags <=> dev.cfg_videx_selection > 0
  /\ "INTERP_DGR" \in dev.internal_flags
       <=> dev.rendering_fx \in {FX_ENABLED, FX_DGR_ONLY}
  /\ "INTERP_DHGR" \in dev.internal_flags
       <=> dev.rendering_fx \in {FX_ENABLED, FX_DHGR_ONLY}

\* What was saved last comes back when the power is switched on again, each
\* setting of it, and nothing that was not saved.
PowerOnRestores == [][PowerCycle => UserSettings(dev') = kept]_vars

\* When the power fails during a save, the old settings, the new ones or the
\* defaults come up: never a mixture of them.
DefaultSettings == UserSettings(Boot(FreshFlash))
TornSaveSafe ==
  [][kept' # kept /\ (\E w \in Writes : PowerLoss(w[1], w[2]))
       => UserSettings(dev') \in {UserSettings(dev), DefaultSettings}]_vars

\* No power loss spoils more than one sector of the flash: the configuration,
\* the font directory, or the two fonts of one sector.
Sectors == 0 .. 17
Sector(flash, k) ==
  CASE k = 16 -> flash.config
    [] k = 17 -> flash.fontdir
    [] OTHER  -> <<flash.fonts[2 * k], flash.fonts[2 * k + 1]>>
TornSectors(before, after, complete) ==
  {k \in Sectors : Sector(after, k) \notin {Sector(before, k), Sector(complete, k)}}
OneSectorTorn ==
  [][\A w \in Writes :
       dev'.flash # dev.flash /\ PowerLoss(w[1], w[2]) =>
         Cardinality(TornSectors(dev.flash, dev'.flash,
                                 device_write(dev, w[1], w[2]).flash)) <= 1]_vars

\* The directory in flash, while it is there, is the one the firmware works with.
DirectoryAgrees == dev.flash.fontdir \in {Erased, dev.invalid_fonts}

\* A font is written to flash only as a whole: it consists of the bytes sent
\* since it was selected, no more and no fewer, and no other font changes, the
\* one in the same sector included.
UploadExact ==
  [][\A w \in Writes :
       w[1] = 2 /\ dev'.flash # dev.flash /\ DeviceWrite(2, w[2]) =>
         LET slot == dev.custom_rom_font_nr
         IN  /\ Len(sent) = CHARACTER_ROM_SIZE
             /\ dev'.flash.fonts =
                  [dev.flash.fonts EXCEPT ![slot] =
                     [i \in 1 .. CHARACTER_ROM_SIZE |->
                        FontByte(dev.custom_rom_font_type, sent[i])]]
             /\ dev'.invalid_fonts = dev.invalid_fonts \ {slot}]_vars

\* While no reload is pending the screen shows the selected character sets, with
\* their present contents and in the variant of the machine.
RomFresh ==
  loading = "no" =>
    \A x \in {<<Local, dev.cfg_local_charset>>, <<Alternate, dev.cfg_alt_charset>>} :
      x[1] \notin dev.reload_charsets => dev.character_rom[x[1]] = Selected(dev, x[2])

\* ESC leaves the menu from every one of its pages (menu.c:816).
EscapeLeaves ==
  [][dev.dev_config_lock = Unlocked /\ DeviceWrite(9, Escape)
       => "MENU_ENABLE" \notin dev'.internal_flags]_vars

-----------------------------------------------------------------------------
(* Properties of a session with the menu: keys, the switch and the bus.    *)

\* The machine in effect is the chosen one, or the detected one, the fonts are
\* "unenhanced" exactly for the unenhanced Apple IIe, and the flags follow, too,
\* whichever of the menu, a load, the defaults and the detection came last
\* (config.c:154-197, which derives the machine, and all that calls it).
MachineInEffect ==
  /\ dev.current_machine = Effective(dev)
  /\ dev.unenhance_font <=> dev.current_machine = MACHINE_IIE
  /\ FlagsFollow

\* The menu on the screen shows the values that the settings have, and never selects
\* the entry of the alternate character set while it is hidden, although the mode of
\* the switch can be changed from another entry (menu.c:692, render.c:245).
MenuTruthful ==
  "MENU_ENABLE" \in dev.internal_flags =>
    /\ dev.screen.page = "menu" =>
         LET now == Values(dev)
         IN  /\ dev.screen.shown # << >>
             /\ \A f \in DOMAIN now \ {"alt"} : dev.screen.shown[1][f] = now[f]
             /\ now.alt # << >> => dev.screen.shown[1].alt = now.alt
    /\ dev.CurrentMenu = EntryAlt => LANGUAGE_SWITCH_ENABLED(dev)

\* A key changes a setting only while the menu is what the user sees: the first
\* key on an information page, or on the page "SAVED!", takes the page away.
KeyActsOnMenu ==
  [][(\E w \in Writes : w[1] = 9 /\ DeviceWrite(w[1], w[2]))
       /\ UserSettings(dev') # UserSettings(dev) => dev.screen.page = "menu"]_vars
=============================================================================
