------------------------------- MODULE Config -------------------------------
(***************************************************************************)
(* The configuration of the card and its copy in flash: config.c.          *)
(*                                                                         *)
(* The functions of the firmware change global variables and call one      *)
(* another; here each is an operator from the device's state `s', a record *)
(* with one field per global variable, to the state it leaves.  Bit masks  *)
(* are sets of names.  The flash holds three sectors that are erased and   *)
(* programmed one after the other; the intermediate images of a handler    *)
(* are appended to s.trail, from which a power loss picks one.             *)
(***************************************************************************)
EXTENDS Integers, Sequences, FiniteSets

CONSTANTS
  CHARACTER_ROM_SIZE,   \* bytes of a character set (2048)
  Erased                \* an erased flash sector, and its bytes (0xFF)

ASSUME RomSizeAssumption == CHARACTER_ROM_SIZE \in Nat \ {0}

Byte == 0 .. 255      \* a byte

MACHINE_II      == 0
MACHINE_IIE     == 1
MACHINE_IIE_ENH == 2
MACHINE_PRAVETZ == 6
MACHINE_MAX_CFG == MACHINE_PRAVETZ
MACHINE_AUTO    == 255
Machine         == 0 .. MACHINE_MAX_CFG \cup {MACHINE_AUTO}

FX_NONE      == 0
FX_ENABLED   == 1
FX_DHGR_ONLY == 2
FX_DGR_ONLY  == 3

ModeSwitchDisabled       == 0
ModeSwitchLanguage       == 1
ModeSwitchMonochrome     == 2
ModeSwitchCycleVideo     == 3
ModeSwitchLangMonochrome == 4
ModeSwitchLangCycle      == 5

LANGUAGE_SWITCH_ENABLED(s) ==
  s.input_switch_mode \in
    {ModeSwitchLanguage, ModeSwitchLangMonochrome, ModeSwitchLangCycle}

COLOR_MODE_BW    == 0
COLOR_MODE_AMBER == 2

MAX_FONT_COUNT    == 32
CUSTOM_FONT_COUNT == 16
FirstCustom       == MAX_FONT_COUNT - CUSTOM_FONT_COUNT
FontsIIe          == 0 .. 10
FontsII           == 11 .. 15
FONT_PRAVETZ      == 8
VIDEX_FONT_COUNT  == 10

\* Two fonts share a flash sector; the region has room for 32 of them.
Slots      == 0 .. 31
Pair(slot) == {x \in Slots : x \div 2 = slot \div 2}
Local      == 1        \* the bits of reload_charsets
Alternate  == 2
Videx      == 4

\* SET_IFLAG
Flag(s, condition, name) ==
  [s EXCEPT !.internal_flags = IF condition THEN @ \cup {name} ELSE @ \ {name}]

\* The flags that are saved.
StoredFlags == {"SCANLINEEMU", "FORCED_MONO", "VIDEO7", "DEBUG_LINES", "TEST"}

Flags == StoredFlags \cup
         {"MENU_ENABLE", "INTERP_DGR", "INTERP_DHGR", "VIDEX", "IIE_REGS"}

-----------------------------------------------------------------------------
(* Machine type and character sets.                                        *)

IIeFont(machine) == machine \in {MACHINE_IIE, MACHINE_IIE_ENH}

FontFits(font, iie) ==
  \/ font >= FirstCustom \/ font = FONT_PRAVETZ
  \/ font \in (IF iie THEN FontsIIe ELSE FontsII)

check_machine_font(s) ==
  LET iie == "IIE_REGS" \in s.internal_flags
  IN  IF FontFits(s.cfg_local_charset, iie) THEN s
      ELSE [s EXCEPT
             !.cfg_local_charset =
                CASE iie -> 0
                  [] ~ iie /\ s.current_machine = MACHINE_PRAVETZ -> FONT_PRAVETZ
                  [] OTHER -> 11,
             !.reload_charsets = @ \cup {Local}]

\* Mutants of set_machine: the //e enhanced gets unenhanced fonts, or the IIe
\* registers stay on when no machine is known any more.
SetMachineAnyIIe(s, machine) ==
  [Flag(s, IIeFont(machine), "IIE_REGS") EXCEPT
     !.unenhance_font = IIeFont(machine), !.current_machine = machine]

SetMachineKeepsRegs(s, machine) ==
  [(IF machine = MACHINE_AUTO THEN s ELSE Flag(s, IIeFont(machine), "IIE_REGS"))
     EXCEPT !.unenhance_font = machine = MACHINE_IIE, !.current_machine = machine]

\* The font is checked only when the first machine since power-on is set: the
\* static variable `done'.
set_machine(s, machine) ==
  LET regs == Flag(s, IIeFont(machine), "IIE_REGS")
      enh  == [regs EXCEPT
                !.unenhance_font = machine = MACHINE_IIE,
                !.reload_charsets =
                   IF s.unenhance_font # (machine = MACHINE_IIE)
                   THEN @ \cup {Local, Alternate} ELSE @]
      first == /\ s.current_machine = MACHINE_AUTO
               /\ machine # MACHINE_AUTO
               /\ ~ s.done
  IN  IF first
      THEN check_machine_font([enh EXCEPT !.done = TRUE,
                                          !.current_machine = machine])
      ELSE [enh EXCEPT !.current_machine = machine]

\* A custom font that is not programmed is replaced by a built-in one; number 32,
\* behind the last font, by the first custom font, unless slot 16 is programmed.
check_valid_font(s, font) ==
  IF font < FirstCustom \/ font - FirstCustom \notin s.invalid_fonts
  THEN font ELSE font - FirstCustom

\* character_roms[font]; its 32 entries end with the last custom font.
Glyphs(s, font) ==
  CASE font < FirstCustom -> [font |-> font, bytes |-> << >>]
    [] font \in FirstCustom .. MAX_FONT_COUNT - 1 ->
         [font |-> font, bytes |-> s.flash.fonts[font - FirstCustom]]
    [] OTHER -> [font |-> font, bytes |-> <<Erased>>]

Selected(s, font) ==
  [glyphs |-> Glyphs(s, check_valid_font(s, font)), unenhanced |-> s.unenhance_font]

\* The three parts of config_load_charsets, which core 0 runs one by one.
load_local(s) ==
  IF Local \in s.reload_charsets
  THEN [s EXCEPT !.character_rom[Local] = Selected(s, s.cfg_local_charset)] ELSE s

load_alternate(s) ==
  IF Alternate \in s.reload_charsets
  THEN [s EXCEPT !.character_rom[Alternate] = Selected(s, s.cfg_alt_charset)] ELSE s

load_videx(s) ==
  IF Videx \in s.reload_charsets /\ s.cfg_videx_selection > 0
  THEN [s EXCEPT !.character_rom_videx = s.cfg_videx_selection] ELSE s

config_load_charsets(s) ==
  [load_videx(load_alternate(load_local(s))) EXCEPT !.reload_charsets = {}]

-----------------------------------------------------------------------------
(* Flash.                                                                  *)

\* The next image of the flash: an erase or a program operation has ended.
Flashed(s, image) == [s EXCEPT !.flash = image, !.trail = Append(@, image)]

\* Mutant of config_write: the structure is programmed in two parts.
ConfigWriteInParts(s, config) ==
  LET erased == Flashed(s, [s.flash EXCEPT !.config = Erased])
      part   == Flashed(erased, [erased.flash EXCEPT
                                   !.config = [config EXCEPT !.color_mode = 0]])
  IN  Flashed(part, [part.flash EXCEPT !.config = config])

\* config_flash_write of the configuration.
config_write(s, config) ==
  LET erased == Flashed(s, [s.flash EXCEPT !.config = Erased])
  IN  Flashed(erased, [erased.flash EXCEPT !.config = config])

\* config_flash_write of two fonts, whose pages are programmed in their order.
WithFonts(flash, new) ==
  [flash EXCEPT !.fonts =
     [x \in Slots |-> IF x \in DOMAIN new THEN new[x] ELSE flash.fonts[x]]]

NoBytes == [i \in 1 .. CHARACTER_ROM_SIZE |-> Erased]

font_write(s, slot, buffer) ==
  LET even   == 2 * (slot \div 2)
      erased == Flashed(s, WithFonts(s.flash, [x \in Pair(slot) |-> NoBytes]))
      half   == Flashed(erased, WithFonts(erased.flash, [x \in {even} |-> buffer[0]]))
  IN  Flashed(half, WithFonts(half.flash, [x \in {even + 1} |-> buffer[1]]))

config_font_update(s) ==
  LET erased == Flashed(s, [s.flash EXCEPT !.fontdir = Erased])
  IN  Flashed(erased, [erased.flash EXCEPT !.fontdir = s.invalid_fonts])

-----------------------------------------------------------------------------
(* Saving, loading, defaults.                                              *)

config_setflags(s) ==
  Flag(Flag(s, s.rendering_fx \in {FX_ENABLED, FX_DGR_ONLY}, "INTERP_DGR"),
       s.rendering_fx \in {FX_ENABLED, FX_DHGR_ONLY}, "INTERP_DHGR")

WithStoredFlags(s, names) ==
  [s EXCEPT !.internal_flags = (@ \ StoredFlags) \cup names]

\* Mutant of config_load_defaults: the Videx card stays enabled.
DefaultsKeepVidex(s) ==
  LET flags == config_setflags([WithStoredFlags(s, {"SCANLINEEMU", "VIDEO7"})
                                EXCEPT !.rendering_fx = FX_ENABLED])
  IN  [set_machine([flags EXCEPT !.cfg_machine = MACHINE_AUTO], s.detected_machine)
         EXCEPT !.cfg_videx_selection = 0]

config_load_defaults(s) ==
  LET flags == config_setflags([WithStoredFlags(s, {"SCANLINEEMU", "VIDEO7"})
                                EXCEPT !.rendering_fx = FX_ENABLED])
      machine == set_machine([flags EXCEPT !.color_mode = COLOR_MODE_BW,
                                           !.cfg_machine = MACHINE_AUTO],
                             s.detected_machine)
  IN  Flag([machine EXCEPT
              !.input_switch_mode = ModeSwitchLangCycle,
              !.unenhance_font = FALSE,
              !.cfg_local_charset = 0, !.cfg_alt_charset = 0,
              !.cfg_videx_selection = 0,
              !.reload_charsets = @ \cup {Local, Alternate}],
           FALSE, "VIDEX")

\* The structure in flash grew over time: a firmware that did not have a field
\* yet stored a smaller size.
Sizes == {"without rendering_fx", "without videx_selection", "full"}

\* The structures that some firmware has stored: a field that the firmware did not
\* have yet is a byte of erased flash.
Configs ==
  [size : Sizes, flags : SUBSET StoredFlags, color_mode : Byte, machine_type : Byte,
   local_charset : Byte, alt_charset : Byte,
   input_switch_mode : ModeSwitchDisabled .. ModeSwitchLangCycle,
   OBSOLETE_enhanced_font_enabled : BOOLEAN,
   rendering_fx : Byte, videx_selection : Byte]

WellStored(cfg) ==
  /\ cfg \in Configs
  /\ cfg.size # "without rendering_fx" => cfg.rendering_fx \in FX_NONE .. FX_DGR_ONLY
  /\ cfg.size = "full" => cfg.videx_selection \in 0 .. VIDEX_FONT_COUNT

\* The magic word tells a configuration from an erased sector.
ASSUME ErasedAssumption == Erased \notin Configs

stored_machine(cfg) ==
  CASE cfg.machine_type > MACHINE_MAX_CFG -> MACHINE_AUTO
    [] cfg.machine_type = MACHINE_IIE /\ cfg.OBSOLETE_enhanced_font_enabled ->
         MACHINE_IIE_ENH
    [] OTHER -> cfg.machine_type

\* Mutant of load_stored: the effects are not read back.
LoadStoredWithoutFx(s, cfg) ==
  LET machine == [set_machine(s, stored_machine(cfg)) EXCEPT
                    !.cfg_machine = stored_machine(cfg)]
      videx   == Flag([WithStoredFlags(machine, cfg.flags) EXCEPT
                         !.cfg_videx_selection = cfg.videx_selection],
                      cfg.videx_selection > 0, "VIDEX")
  IN  [config_setflags(videx) EXCEPT
         !.input_switch_mode = cfg.input_switch_mode, !.color_mode = cfg.color_mode,
         !.cfg_local_charset = cfg.local_charset, !.cfg_alt_charset = cfg.alt_charset,
         !.reload_charsets = @ \cup {Local, Alternate}]

load_stored(s, cfg) ==
  LET type    == stored_machine(cfg)
      machine == set_machine([s EXCEPT !.cfg_machine = type], type)
      flags   == WithStoredFlags(machine, cfg.flags)
      videx   == IF cfg.size = "full"
                 THEN Flag([flags EXCEPT !.cfg_videx_selection = cfg.videx_selection],
                           cfg.videx_selection > 0, "VIDEX")
                 ELSE flags
      fx      == IF cfg.size # "without rendering_fx"
                 THEN [videx EXCEPT !.rendering_fx = cfg.rendering_fx] ELSE videx
      font(n) == IF n >= MAX_FONT_COUNT THEN 0 ELSE n
  IN  [config_setflags(fx) EXCEPT
         !.input_switch_mode = cfg.input_switch_mode,
         !.unenhance_font = type = MACHINE_IIE,
         !.color_mode = IF cfg.color_mode <= 2 THEN cfg.color_mode ELSE 0,
         !.cfg_local_charset = font(cfg.local_charset),
         !.cfg_alt_charset = font(cfg.alt_charset),
         !.reload_charsets = @ \cup {Local, Alternate}]

config_load(s) ==
  LET fonts == IF s.flash.fontdir = Erased THEN s
               ELSE [s EXCEPT !.invalid_fonts = s.flash.fontdir]
  IN  IF s.flash.config = Erased THEN config_load_defaults(fonts)
      ELSE load_stored(fonts, s.flash.config)

\* Mutant of Stored: the machine in effect is saved, not the chosen one.
StoredCurrentMachine(s) ==
  [size |-> "full",
   flags |-> s.internal_flags \cap StoredFlags,
   color_mode |-> s.color_mode,
   machine_type |-> s.current_machine,
   local_charset |-> s.cfg_local_charset, alt_charset |-> s.cfg_alt_charset,
   input_switch_mode |-> s.input_switch_mode,
   OBSOLETE_enhanced_font_enabled |-> FALSE,
   rendering_fx |-> s.rendering_fx,
   videx_selection |-> s.cfg_videx_selection]

\* What config_save writes.
Stored(s) ==
  [size |-> "full",
   flags |-> s.internal_flags \cap StoredFlags,
   color_mode |-> s.color_mode,
   machine_type |-> s.cfg_machine,
   local_charset |-> s.cfg_local_charset, alt_charset |-> s.cfg_alt_charset,
   input_switch_mode |-> s.input_switch_mode,
   OBSOLETE_enhanced_font_enabled |-> FALSE,
   rendering_fx |-> s.rendering_fx,
   videx_selection |-> s.cfg_videx_selection]

config_save(s) == config_write(s, Stored(s))
=============================================================================
