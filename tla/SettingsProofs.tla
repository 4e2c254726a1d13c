--------------------------- MODULE SettingsProofs ---------------------------
(***************************************************************************)
(* Theorems about the settings, for every program that writes registers,   *)
(* every configuration in flash and every interleaving of the two cores.   *)
(*                                                                         *)
(* The lemmas follow the call graph upwards.  Good is what every function  *)
(* keeps of the device's state; Step says what a function may do to it;    *)
(* Quiet, Saved and FontWritten are the three things that may happen to    *)
(* the flash.                                                              *)
(***************************************************************************)
EXTENDS Settings, FiniteSetTheorems, SequenceTheorems, TLAPS

\* The global variables.
Fields ==
  {"detected_machine", "cfg_machine", "current_machine", "done", "language_switch",
   "unenhance_font", "reload_charsets", "cfg_videx_selection", "cfg_local_charset",
   "cfg_alt_charset", "invalid_fonts", "color_mode", "rendering_fx",
   "input_switch_mode", "internal_flags", "soft_switches", "character_rom",
   "character_rom_videx", "CurrentMenu", "IgnoreNextKeypress", "MenuNeedsRedraw",
   "screen", "custom_rom_font_nr", "custom_rom_font_type", "custom_rom_write_offset",
   "custom_rom_write_count", "custom_font_buffer", "dev_config_lock",
   "debounce_last", "flash", "trail"}

\* FlagsFollow, of any state of the device.
Follow(s) ==
  /\ "IIE_REGS" \in s.internal_flags <=> IIeFont(s.current_machine)
  /\ "VIDEX" \in s.internal_flags <=> s.cfg_videx_selection > 0
  /\ "INTERP_DGR" \in s.internal_flags <=> s.rendering_fx \in {FX_ENABLED, FX_DGR_ONLY}
  /\ "INTERP_DHGR" \in s.internal_flags <=> s.rendering_fx \in {FX_ENABLED, FX_DHGR_ONLY}

Good(s) == DOMAIN s = Fields /\ SettingsOK(s) /\ Follow(s)

\* Whoever selects another font, or changes what a font looks like, asks for it to
\* be loaded; and only core 0 takes a request back.
Renews(s, t) ==
  /\ s.reload_charsets \subseteq t.reload_charsets
  /\ t.cfg_local_charset # s.cfg_local_charset => Local \in t.reload_charsets
  /\ t.cfg_alt_charset # s.cfg_alt_charset => Alternate \in t.reload_charsets
  /\ t.unenhance_font # s.unenhance_font \/ t.invalid_fonts # s.invalid_fonts
       => {Local, Alternate} \subseteq t.reload_charsets

\* The font directory is read as a whole or not at all.
ReadsDirectory(s, t) ==
  \/ t.invalid_fonts = s.invalid_fonts
  \/ s.flash.fontdir # Erased /\ t.invalid_fonts = s.flash.fontdir

\* The upload, the lock and the loaded character sets.
KeepsUpload(s, t) ==
  /\ t.custom_rom_font_nr = s.custom_rom_font_nr
  /\ t.custom_rom_font_type = s.custom_rom_font_type
  /\ t.custom_rom_write_offset = s.custom_rom_write_offset
  /\ t.custom_rom_write_count = s.custom_rom_write_count
  /\ t.custom_font_buffer = s.custom_font_buffer
  /\ t.dev_config_lock = s.dev_config_lock
  /\ t.character_rom = s.character_rom

\* The fields that are saved.
SameChoice(s, t) ==
  /\ t.cfg_machine = s.cfg_machine
  /\ t.cfg_local_charset = s.cfg_local_charset
  /\ t.cfg_alt_charset = s.cfg_alt_charset
  /\ t.cfg_videx_selection = s.cfg_videx_selection
  /\ t.input_switch_mode = s.input_switch_mode
  /\ t.color_mode = s.color_mode
  /\ t.rendering_fx = s.rendering_fx
  /\ t.internal_flags \cap StoredFlags = s.internal_flags \cap StoredFlags

\* The machine in effect is the one that the settings and the detection call for.
InEffect(s) ==
  /\ s.current_machine = Effective(s)
  /\ s.unenhance_font <=> s.current_machine = MACHINE_IIE

KeepsLocal(s, t) ==
  s.cfg_local_charset < MAX_FONT_COUNT => t.cfg_local_charset < MAX_FONT_COUNT

Quiet(s, t) == t.flash = s.flash /\ t.trail = s.trail

Saved(s, t) ==
  /\ SameChoice(s, t)
  /\ t.flash = [s.flash EXCEPT !.config = Stored(t)]
  /\ t.trail = Append(Append(s.trail, [s.flash EXCEPT !.config = Erased]), t.flash)

Step(s, t) ==
  Good(t) /\ Renews(s, t) /\ ReadsDirectory(s, t) /\ KeepsUpload(s, t)

\* ... of a function that leaves the flash alone, the font and the machine valid.
Proper(s, t) ==
  /\ Step(s, t) /\ Quiet(s, t)
  /\ KeepsLocal(s, t)
  /\ InEffect(s) => InEffect(t)

-----------------------------------------------------------------------------
(* Composing steps.                                                        *)

LEMMA StepItself ==
  ASSUME NEW s, Good(s)
  PROVE  Step(s, s) /\ Quiet(s, s) /\ Proper(s, s)
  BY DEF Step, Renews, ReadsDirectory, KeepsUpload, Quiet, Proper, KeepsLocal

LEMMA StepTwice ==
  ASSUME NEW s, NEW t, NEW u, Quiet(s, t), Step(s, t), Step(t, u)
  PROVE  Step(s, u)
<1>1. Renews(s, u)
  BY DEF Step, Renews
<1>2. ReadsDirectory(s, u)
  BY DEF Step, Quiet, ReadsDirectory
<1>3. KeepsUpload(s, u)
  BY DEF Step, KeepsUpload
<1> QED
  BY <1>1, <1>2, <1>3 DEF Step

LEMMA ProperTwice ==
  ASSUME NEW s, NEW t, NEW u, Proper(s, t), Proper(t, u)
  PROVE  Proper(s, u)
<1>1. Step(s, u)
  BY StepTwice DEF Proper
<1> QED
  BY <1>1 DEF Proper, Quiet, KeepsLocal

LEMMA LocalIsNatural ==
  ASSUME NEW s, Good(s)
  PROVE  s.cfg_local_charset \in Int
  BY DEF Good, SettingsOK

-----------------------------------------------------------------------------
(* config.c.                                                               *)

\* What set_machine may change.
SetsMachine(s, t, machine) ==
  /\ DOMAIN t = DOMAIN s
  /\ t.current_machine = machine
  /\ t.unenhance_font \in BOOLEAN /\ (t.unenhance_font <=> machine = MACHINE_IIE)
  /\ t.cfg_local_charset \in {s.cfg_local_charset, 0, FONT_PRAVETZ, 11}
  /\ t.cfg_local_charset # s.cfg_local_charset => Local \in t.reload_charsets
  /\ s.reload_charsets \subseteq t.reload_charsets
  /\ t.unenhance_font # s.unenhance_font => {Local, Alternate} \subseteq t.reload_charsets
  /\ t.reload_charsets \subseteq s.reload_charsets \cup {Local, Alternate}
  /\ t.done \in {s.done, TRUE}
  /\ t.internal_flags = Flag(s, IIeFont(machine), "IIE_REGS").internal_flags
  /\ \A f \in DOMAIN s \ {"current_machine", "unenhance_font", "cfg_local_charset",
                          "reload_charsets", "done", "internal_flags"} : t[f] = s[f]

LEMMA SetMachine ==
  ASSUME NEW s, DOMAIN s = Fields, s.unenhance_font \in BOOLEAN, NEW machine
  PROVE  SetsMachine(s, set_machine(s, machine), machine)
<1> DEFINE regs == Flag(s, IIeFont(machine), "IIE_REGS")
           enh  == [regs EXCEPT
                     !.unenhance_font = machine = MACHINE_IIE,
                     !.reload_charsets =
                        IF s.unenhance_font # (machine = MACHINE_IIE)
                        THEN @ \cup {Local, Alternate} ELSE @]
           set  == [enh EXCEPT !.current_machine = machine]
           new  == [enh EXCEPT !.done = TRUE, !.current_machine = machine]
<1>1. DOMAIN regs = Fields
      /\ \A f \in Fields \ {"internal_flags"} : regs[f] = s[f]
  BY DEF Flag, Fields
<1> HIDE DEF regs
<1>2. /\ DOMAIN enh = Fields
      /\ enh.unenhance_font \in BOOLEAN
      /\ enh.unenhance_font <=> machine = MACHINE_IIE
      /\ enh.reload_charsets = (IF s.unenhance_font # (machine = MACHINE_IIE)
                                THEN s.reload_charsets \cup {Local, Alternate}
                                ELSE s.reload_charsets)
      /\ \A f \in Fields \ {"unenhance_font", "reload_charsets"} : enh[f] = regs[f]
  BY <1>1 DEF Fields
<1> HIDE DEF enh
<1>3. SetsMachine(s, set, machine)
  BY <1>1, <1>2 DEF SetsMachine, Fields, regs
<1>4. SetsMachine(s, new, machine)
  BY <1>1, <1>2 DEF SetsMachine, Fields, regs
<1> HIDE DEF set, new
<1>5. SetsMachine(s, check_machine_font(new), machine)
  <2>1. check_machine_font(new) = new
        \/ \E font \in {0, FONT_PRAVETZ, 11} :
             check_machine_font(new) = [new EXCEPT !.cfg_local_charset = font,
                                          !.reload_charsets = @ \cup {Local}]
    BY Zenon DEF check_machine_font
  <2>2. ASSUME NEW font \in {0, FONT_PRAVETZ, 11}
        PROVE  SetsMachine(s, [new EXCEPT !.cfg_local_charset = font,
                                          !.reload_charsets = @ \cup {Local}], machine)
    BY <1>4, <2>2 DEF SetsMachine, Fields
  <2> QED
    BY <1>4, <2>1, <2>2
<1> QED
  BY <1>3, <1>5, Zenon DEF set_machine, set, new, enh, regs

\* A flag that no setting derives.
LEMMA FlagProper ==
  ASSUME NEW s, Good(s), NEW condition, NEW name \in StoredFlags \cup {"MENU_ENABLE"}
  PROVE  /\ Proper(s, Flag(s, condition, name))
         /\ \A f \in Fields \ {"internal_flags"} : Flag(s, condition, name)[f] = s[f]
<1> DEFINE t == Flag(s, condition, name)
<1>1. DOMAIN t = Fields /\ \A f \in Fields \ {"internal_flags"} : t[f] = s[f]
  BY DEF Flag, Good, Fields
<1>2. t.internal_flags \in {s.internal_flags \cup {name}, s.internal_flags \ {name}}
  BY DEF Flag, Good, Fields
<1> HIDE DEF t
<1>3. Good(t)
  BY <1>1, <1>2 DEF Good, SettingsOK, Follow, Flags, StoredFlags, Fields
<1>4. Proper(s, t)
  BY <1>1, <1>3 DEF Proper, Step, Renews, ReadsDirectory, KeepsUpload, Quiet,
     KeepsLocal, InEffect, Effective, Fields
<1> QED
  BY <1>1, <1>4 DEF t

LEMMA StoredFlagsProper ==
  ASSUME NEW s, Good(s), NEW names \in SUBSET StoredFlags
  PROVE  /\ Proper(s, WithStoredFlags(s, names))
         /\ WithStoredFlags(s, names).internal_flags \cap StoredFlags = names
         /\ \A f \in Fields \ {"internal_flags"} : WithStoredFlags(s, names)[f] = s[f]
<1> DEFINE t == WithStoredFlags(s, names)
<1>1. DOMAIN t = Fields /\ \A f \in Fields \ {"internal_flags"} : t[f] = s[f]
  BY DEF WithStoredFlags, Good, Fields
<1>2. t.internal_flags = (s.internal_flags \ StoredFlags) \cup names
  BY DEF WithStoredFlags, Good, Fields
<1> HIDE DEF t
<1>a. /\ t.internal_flags \subseteq Flags
      /\ t.internal_flags \cap StoredFlags = names
      /\ \A f \in Flags \ StoredFlags : f \in t.internal_flags <=> f \in s.internal_flags
  BY <1>2 DEF Good, SettingsOK, Flags
<1>b. {"IIE_REGS", "VIDEX", "INTERP_DGR", "INTERP_DHGR"} \subseteq Flags \ StoredFlags
  BY DEF Flags, StoredFlags
<1>3. Good(t)
  BY <1>1, <1>a, <1>b DEF Good, SettingsOK, Follow, Fields
<1>4. Proper(s, t)
  BY <1>1, <1>3 DEF Proper, Step, Renews, ReadsDirectory, KeepsUpload, Quiet,
     KeepsLocal, InEffect, Effective, Fields
<1> QED
  BY <1>1, <1>a, <1>4 DEF t

\* The effects are chosen and their flags set in one go.
LEMMA EffectsProper ==
  ASSUME NEW s, Good(s), NEW w, DOMAIN w = Fields,
         w.rendering_fx \in FX_NONE .. FX_DGR_ONLY,
         \A f \in Fields \ {"rendering_fx"} : w[f] = s[f]
  PROVE  LET t == config_setflags(w)
         IN  /\ Proper(s, t)
             /\ t.rendering_fx = w.rendering_fx
             /\ t.internal_flags \cap StoredFlags = s.internal_flags \cap StoredFlags
             /\ \A f \in Fields \ {"internal_flags", "rendering_fx"} : t[f] = s[f]
<1> DEFINE fx == w.rendering_fx
           t  == config_setflags(w)
<1>1. /\ DOMAIN t = Fields /\ t.rendering_fx = fx
      /\ \A f \in Fields \ {"internal_flags", "rendering_fx"} : t[f] = s[f]
  BY DEF config_setflags, Flag, Good, Fields
<1> DEFINE a == fx \in {FX_ENABLED, FX_DGR_ONLY}
           b == fx \in {FX_ENABLED, FX_DHGR_ONLY}
           dgr == IF a THEN s.internal_flags \cup {"INTERP_DGR"}
                  ELSE s.internal_flags \ {"INTERP_DGR"}
<1>2. t.internal_flags = (IF b THEN dgr \cup {"INTERP_DHGR"} ELSE dgr \ {"INTERP_DHGR"})
  BY DEF config_setflags, Flag, Good, Fields
<1> HIDE DEF fx, t, a, b
<1>3. /\ t.internal_flags \subseteq Flags
      /\ t.internal_flags \cap StoredFlags = s.internal_flags \cap StoredFlags
      /\ "IIE_REGS" \in t.internal_flags <=> "IIE_REGS" \in s.internal_flags
      /\ "VIDEX" \in t.internal_flags <=> "VIDEX" \in s.internal_flags
      /\ "INTERP_DGR" \in t.internal_flags <=> a
      /\ "INTERP_DHGR" \in t.internal_flags <=> b
  BY <1>2 DEF Good, SettingsOK, Flags, StoredFlags
<1>4. Good(t)
  BY <1>1, <1>3 DEF Good, SettingsOK, Follow, Fields, a, b, fx
<1>5. Proper(s, t)
  BY <1>1, <1>4 DEF Proper, Step, Renews, ReadsDirectory, KeepsUpload, Quiet,
     KeepsLocal, InEffect, Effective, Fields
<1> QED
  BY <1>1, <1>3, <1>5 DEF t, fx

LEMMA SetMachineStep ==
  ASSUME NEW s, Good(s), NEW machine \in Machine
  PROVE  LET t == set_machine(s, machine)
         IN  /\ Step(s, t) /\ Quiet(s, t) /\ KeepsLocal(s, t)
             /\ machine = Effective(s) => InEffect(t)
             /\ t.internal_flags \cap StoredFlags = s.internal_flags \cap StoredFlags
             /\ t.current_machine = machine
             /\ \A f \in Fields \ {"current_machine", "unenhance_font", "done",
                    "cfg_local_charset", "reload_charsets", "internal_flags"} : t[f] = s[f]
<1> DEFINE t == set_machine(s, machine)
<1>1. SetsMachine(s, t, machine)
  BY SetMachine DEF Good, SettingsOK
<1> HIDE DEF t
<1>2. /\ t.internal_flags \subseteq Flags
      /\ t.internal_flags \cap StoredFlags = s.internal_flags \cap StoredFlags
      /\ "IIE_REGS" \in t.internal_flags <=> IIeFont(machine)
      /\ "VIDEX" \in t.internal_flags <=> "VIDEX" \in s.internal_flags
      /\ "INTERP_DGR" \in t.internal_flags <=> "INTERP_DGR" \in s.internal_flags
      /\ "INTERP_DHGR" \in t.internal_flags <=> "INTERP_DHGR" \in s.internal_flags
  BY <1>1 DEF SetsMachine, Flag, Good, SettingsOK, Flags, StoredFlags, Fields
<1>3. t.cfg_local_charset \in 0 .. MAX_FONT_COUNT
  BY <1>1 DEF SetsMachine, Good, SettingsOK, FONT_PRAVETZ, MAX_FONT_COUNT
<1>4. t.reload_charsets \subseteq {Local, Alternate, Videx}
  BY <1>1 DEF SetsMachine, Good, SettingsOK
<1>5. Good(t)
  <2>1. t.done \in BOOLEAN /\ t.unenhance_font \in BOOLEAN /\ t.current_machine \in Machine
    BY <1>1 DEF SetsMachine, Good, SettingsOK
  <2>2. SettingsOK(t)
    BY <1>1, <1>2, <1>3, <1>4, <2>1 DEF SetsMachine, Good, SettingsOK, Fields
  <2>3. Follow(t)
    BY <1>1, <1>2 DEF SetsMachine, Good, Follow, Fields
  <2> QED
    BY <1>1, <2>2, <2>3 DEF SetsMachine, Good
<1>6. Step(s, t) /\ Quiet(s, t)
  BY <1>1, <1>5 DEF SetsMachine, Good, Step, Renews, ReadsDirectory, KeepsUpload,
     Quiet, Fields
<1>7. KeepsLocal(s, t)
  BY <1>1 DEF SetsMachine, KeepsLocal, FONT_PRAVETZ, MAX_FONT_COUNT
<1>8. machine = Effective(s) => InEffect(t)
  BY <1>1 DEF SetsMachine, Good, InEffect, Effective, Fields
<1> QED
  BY <1>1, <1>2, <1>6, <1>7, <1>8 DEF SetsMachine, Good, t

\* The settings are these.
Chosen(s, machine, local, alternate, videx, switch, color, fx, flags) ==
  /\ s.cfg_machine = machine
  /\ s.cfg_local_charset = local /\ s.cfg_alt_charset = alternate
  /\ s.cfg_videx_selection = videx
  /\ s.input_switch_mode = switch
  /\ s.color_mode = color /\ s.rendering_fx = fx
  /\ s.internal_flags \cap StoredFlags = flags

Default(s) ==
  Chosen(s, MACHINE_AUTO, 0, 0, 0, ModeSwitchLangCycle, COLOR_MODE_BW, FX_ENABLED,
         {"SCANLINEEMU", "VIDEO7"})

\* What a load and the defaults have in common.
Reloads(s, t) ==
  /\ Step(s, t) /\ Quiet(s, t) /\ t.cfg_local_charset < MAX_FONT_COUNT
  /\ {Local, Alternate} \subseteq t.reload_charsets
  /\ t.detected_machine = s.detected_machine

LEMMA DefaultsStep ==
  ASSUME NEW s, Good(s)
  PROVE  /\ Reloads(s, config_load_defaults(s)) /\ Default(config_load_defaults(s))
         /\ config_load_defaults(s).invalid_fonts = s.invalid_fonts
         /\ s.detected_machine = MACHINE_AUTO => InEffect(config_load_defaults(s))
<1> DEFINE names   == {"SCANLINEEMU", "VIDEO7"}
           stored  == WithStoredFlags(s, names)
           flags   == config_setflags([stored EXCEPT !.rendering_fx = FX_ENABLED])
           auto    == [flags EXCEPT !.color_mode = COLOR_MODE_BW,
                                    !.cfg_machine = MACHINE_AUTO]
           machine == set_machine(auto, s.detected_machine)
           fonts   == [machine EXCEPT
                         !.input_switch_mode = ModeSwitchLangCycle,
                         !.unenhance_font = FALSE,
                         !.cfg_local_charset = 0, !.cfg_alt_charset = 0,
                         !.cfg_videx_selection = 0,
                         !.reload_charsets = @ \cup {Local, Alternate}]
           t       == Flag(fonts, FALSE, "VIDEX")
<1>1. config_load_defaults(s) = t
  BY Zenon DEF config_load_defaults
<1>2. /\ Proper(s, stored) /\ stored.internal_flags \cap StoredFlags = names
      /\ \A f \in Fields \ {"internal_flags"} : stored[f] = s[f]
  <2>1. names \in SUBSET StoredFlags
    BY DEF StoredFlags
  <2> QED
    BY <2>1, StoredFlagsProper
<1> HIDE DEF stored, names
<1>3. /\ Proper(stored, flags) /\ flags.rendering_fx = FX_ENABLED
      /\ flags.internal_flags \cap StoredFlags = names
      /\ \A f \in Fields \ {"internal_flags", "rendering_fx"} : flags[f] = stored[f]
  <2>1. FX_ENABLED \in FX_NONE .. FX_DGR_ONLY
    BY DEF FX_ENABLED, FX_NONE, FX_DGR_ONLY
  <2> DEFINE w == [stored EXCEPT !.rendering_fx = FX_ENABLED]
  <2>2. DOMAIN w = Fields /\ w.rendering_fx = FX_ENABLED
        /\ \A f \in Fields \ {"rendering_fx"} : w[f] = stored[f]
    BY <1>2 DEF Proper, Step, Good, Fields
  <2>3. Good(stored) /\ flags = config_setflags(w)
    BY <1>2 DEF Proper, Step, flags
  <2> HIDE DEF w, flags
  <2> QED
    BY <1>2, <2>1, <2>2, <2>3, EffectsProper
<1>4. Proper(s, flags)
  BY <1>2, <1>3, ProperTwice
<1> HIDE DEF flags
<1>5. /\ Step(flags, auto) /\ Quiet(flags, auto) /\ auto.cfg_machine = MACHINE_AUTO
      /\ auto.color_mode = COLOR_MODE_BW /\ auto.detected_machine = s.detected_machine
      /\ auto.internal_flags = flags.internal_flags /\ auto.rendering_fx = FX_ENABLED
      /\ auto.invalid_fonts = s.invalid_fonts
  <2>1. /\ DOMAIN auto = Fields /\ auto.cfg_machine = MACHINE_AUTO
        /\ auto.color_mode = COLOR_MODE_BW
        /\ \A f \in Fields \ {"cfg_machine", "color_mode"} : auto[f] = flags[f]
    BY <1>3 DEF Proper, Step, Good, Fields
  <2> HIDE DEF auto
  <2>2. Good(flags)
    BY <1>3 DEF Proper, Step
  <2>3. MACHINE_AUTO \in Machine /\ COLOR_MODE_BW \in 0 .. 2
    BY DEF Machine, COLOR_MODE_BW
  <2>4. SettingsOK(auto)
    BY <2>1, <2>2, <2>3 DEF Good, SettingsOK, Fields
  <2>5. Good(auto)
    BY <2>1, <2>2, <2>4 DEF Good, Follow, Fields
  <2> QED
    BY <1>2, <1>3, <2>1, <2>5 DEF Step, Quiet, Renews, ReadsDirectory, KeepsUpload, Fields
<1>6. Step(s, auto) /\ Quiet(s, auto)
  BY <1>4, <1>5, StepTwice DEF Proper, Quiet
<1> HIDE DEF auto
<1>7. /\ Step(auto, machine) /\ Quiet(auto, machine)
      /\ machine.internal_flags \cap StoredFlags = names
      /\ machine.cfg_machine = MACHINE_AUTO /\ machine.color_mode = COLOR_MODE_BW
      /\ machine.rendering_fx = FX_ENABLED
      /\ machine.detected_machine = s.detected_machine
      /\ machine.current_machine = s.detected_machine
      /\ machine.invalid_fonts = s.invalid_fonts
  <2>1. Good(auto) /\ s.detected_machine \in Machine
    BY <1>5 DEF Step, Good, SettingsOK
  <2> QED
    BY <1>3, <1>5, <2>1, SetMachineStep DEF Fields
<1>8. Step(s, machine) /\ Quiet(s, machine)
  BY <1>6, <1>7, StepTwice DEF Quiet
<1> HIDE DEF machine
<1>9. /\ DOMAIN t = Fields
      /\ t.internal_flags = machine.internal_flags \ {"VIDEX"}
      /\ t.input_switch_mode = ModeSwitchLangCycle
      /\ t.unenhance_font = FALSE
      /\ t.cfg_local_charset = 0 /\ t.cfg_alt_charset = 0 /\ t.cfg_videx_selection = 0
      /\ t.reload_charsets = machine.reload_charsets \cup {Local, Alternate}
      /\ \A f \in Fields \ {"internal_flags", "input_switch_mode", "unenhance_font",
             "cfg_local_charset", "cfg_alt_charset", "cfg_videx_selection",
             "reload_charsets"} : t[f] = machine[f]
  BY <1>7 DEF Step, Good, Flag, Fields
<1> HIDE DEF t, fonts
<1>10. Good(machine)
  BY <1>7 DEF Step
<1>11. /\ t.internal_flags \subseteq Flags
       /\ t.internal_flags \cap StoredFlags = names
       /\ "VIDEX" \notin t.internal_flags
       /\ \A f \in {"IIE_REGS", "INTERP_DGR", "INTERP_DHGR"} :
            f \in t.internal_flags <=> f \in machine.internal_flags
  BY <1>7, <1>9, <1>10 DEF Good, SettingsOK, StoredFlags
<1>12. SettingsOK(t)
  <2>1. /\ t.cfg_videx_selection \in 0 .. VIDEX_FONT_COUNT
        /\ t.cfg_local_charset \in 0 .. MAX_FONT_COUNT
        /\ t.cfg_alt_charset \in 0 .. MAX_FONT_COUNT - 1
        /\ t.input_switch_mode \in ModeSwitchDisabled .. ModeSwitchLangCycle
    BY <1>9 DEF MAX_FONT_COUNT, VIDEX_FONT_COUNT, ModeSwitchDisabled, ModeSwitchLangCycle
  <2>2. t.reload_charsets \subseteq {Local, Alternate, Videx}
    BY <1>9, <1>10 DEF Good, SettingsOK
  <2>3. t.unenhance_font \in BOOLEAN
    BY <1>9
  <2>4. \A f \in {"detected_machine", "cfg_machine", "current_machine", "done",
                  "language_switch", "IgnoreNextKeypress", "MenuNeedsRedraw",
                  "debounce_last", "invalid_fonts", "color_mode", "rendering_fx",
                  "CurrentMenu"} : t[f] = machine[f]
    BY <1>9 DEF Fields
  <2> QED
    BY <1>10, <1>11, <2>1, <2>2, <2>3, <2>4 DEF Good, SettingsOK
<1>13. Good(t)
  BY <1>9, <1>10, <1>11, <1>12 DEF Good, Follow, Fields
<1>14. Step(machine, t) /\ Quiet(machine, t)
  BY <1>9, <1>10, <1>13 DEF Step, Quiet, Renews, ReadsDirectory, KeepsUpload, Fields
<1>15. Step(s, t) /\ Quiet(s, t)
  BY <1>8, <1>14, StepTwice DEF Quiet
<1>16. Reloads(s, t)
  BY <1>7, <1>9, <1>15 DEF Reloads, Fields, MAX_FONT_COUNT
<1>17. Default(t)
  BY <1>7, <1>9, <1>11 DEF Default, Chosen, Fields, names
<1>18. s.detected_machine = MACHINE_AUTO => InEffect(t)
  BY <1>7, <1>9 DEF InEffect, Effective, Fields, MACHINE_AUTO, MACHINE_IIE
<1> QED
  BY <1>1, <1>7, <1>9, <1>16, <1>17, <1>18 DEF Fields

LEMMA LoadStored ==
  ASSUME NEW s, Good(s), NEW cfg, WellStored(cfg)
  PROVE  LET t == load_stored(s, cfg)
             font(n) == IF n >= MAX_FONT_COUNT THEN 0 ELSE n
         IN  /\ Reloads(s, t)
             /\ Chosen(t, stored_machine(cfg), font(cfg.local_charset),
                       font(cfg.alt_charset),
                       IF cfg.size = "full" THEN cfg.videx_selection
                       ELSE s.cfg_videx_selection,
                       cfg.input_switch_mode,
                       IF cfg.color_mode <= 2 THEN cfg.color_mode ELSE 0,
                       IF cfg.size # "without rendering_fx" THEN cfg.rendering_fx
                       ELSE s.rendering_fx,
                       cfg.flags)
             /\ t.invalid_fonts = s.invalid_fonts
             /\ stored_machine(cfg) = Effective(t) => InEffect(t)
<1> DEFINE type    == stored_machine(cfg)
           chosen  == [s EXCEPT !.cfg_machine = type]
           machine == set_machine(chosen, type)
           flags   == WithStoredFlags(machine, cfg.flags)
           card    == [flags EXCEPT !.cfg_videx_selection = cfg.videx_selection]
           videx   == IF cfg.size = "full" THEN Flag(card, cfg.videx_selection > 0, "VIDEX")
                      ELSE flags
           fx      == IF cfg.size # "without rendering_fx"
                      THEN [videx EXCEPT !.rendering_fx = cfg.rendering_fx] ELSE videx
           effects == config_setflags(fx)
           font(n) == IF n >= MAX_FONT_COUNT THEN 0 ELSE n
           t       == [effects EXCEPT
                         !.input_switch_mode = cfg.input_switch_mode,
                         !.unenhance_font = type = MACHINE_IIE,
                         !.color_mode = IF cfg.color_mode <= 2 THEN cfg.color_mode ELSE 0,
                         !.cfg_local_charset = font(cfg.local_charset),
                         !.cfg_alt_charset = font(cfg.alt_charset),
                         !.reload_charsets = @ \cup {Local, Alternate}]
<1>1. load_stored(s, cfg) = t
  BY Zenon DEF load_stored
<1>2. type \in Machine
  <2>1. cfg.machine_type \in 0 .. 255
    BY DEF WellStored, Configs, Byte
  <2> QED
    BY <2>1 DEF stored_machine, Machine, MACHINE_AUTO, MACHINE_MAX_CFG, MACHINE_PRAVETZ,
       MACHINE_IIE, MACHINE_IIE_ENH
<1> HIDE DEF type
<1>3. /\ Step(s, chosen) /\ Quiet(s, chosen)
      /\ chosen.cfg_machine = type /\ chosen.detected_machine = s.detected_machine
      /\ chosen.invalid_fonts = s.invalid_fonts
      /\ chosen.rendering_fx = s.rendering_fx
      /\ chosen.cfg_videx_selection = s.cfg_videx_selection
  <2>1. DOMAIN chosen = Fields /\ chosen.cfg_machine = type
        /\ \A f \in Fields \ {"cfg_machine"} : chosen[f] = s[f]
    BY DEF Good, Fields
  <2> HIDE DEF chosen
  <2>2. Good(chosen)
    BY <1>2, <2>1 DEF Good, SettingsOK, Follow, Fields
  <2> QED
    BY <2>1, <2>2 DEF Step, Quiet, Renews, ReadsDirectory, KeepsUpload, Fields
<1> HIDE DEF chosen
<1>4. /\ Step(chosen, machine) /\ Quiet(chosen, machine)
      /\ machine.cfg_machine = type /\ machine.current_machine = type
      /\ machine.detected_machine = s.detected_machine
      /\ machine.invalid_fonts = s.invalid_fonts
      /\ machine.rendering_fx = s.rendering_fx
      /\ machine.cfg_videx_selection = s.cfg_videx_selection
  <2>1. Good(chosen)
    BY <1>3 DEF Step
  <2> QED
    BY <1>2, <1>3, <2>1, SetMachineStep DEF Fields
<1>5. Step(s, machine) /\ Quiet(s, machine)
  BY <1>3, <1>4, StepTwice DEF Quiet
<1> HIDE DEF machine
<1>6. /\ Proper(machine, flags) /\ flags.internal_flags \cap StoredFlags = cfg.flags
      /\ \A f \in Fields \ {"internal_flags"} : flags[f] = machine[f]
  <2>1. cfg.flags \in SUBSET StoredFlags /\ Good(machine)
    BY <1>5 DEF Step, WellStored, Configs
  <2> QED
    BY <2>1, StoredFlagsProper
<1>7. Step(s, flags) /\ Quiet(s, flags)
  BY <1>5, <1>6, StepTwice DEF Proper, Quiet
<1> HIDE DEF flags
<1>8. /\ Step(flags, videx) /\ Quiet(flags, videx)
      /\ videx.internal_flags \cap StoredFlags = cfg.flags
      /\ videx.cfg_videx_selection = (IF cfg.size = "full" THEN cfg.videx_selection
                                      ELSE s.cfg_videx_selection)
      /\ \A f \in Fields \ {"internal_flags", "cfg_videx_selection"} : videx[f] = flags[f]
  <2>1. Good(flags)
    BY <1>7 DEF Step
  <2>2. CASE cfg.size # "full"
    <3>1. videx = flags
      BY <2>2 DEF videx
    <3> HIDE DEF videx
    <3> QED
      BY <1>4, <1>6, <2>1, <2>2, <3>1, StepItself DEF Fields
  <2>3. CASE cfg.size = "full"
    <3>1. cfg.videx_selection \in 0 .. VIDEX_FONT_COUNT
      BY <2>3 DEF WellStored
    <3>2. /\ DOMAIN videx = Fields /\ videx.cfg_videx_selection = cfg.videx_selection
          /\ \A f \in Fields \ {"internal_flags", "cfg_videx_selection"} :
               videx[f] = flags[f]
          /\ videx.internal_flags =
               (IF cfg.videx_selection > 0 THEN flags.internal_flags \cup {"VIDEX"}
                ELSE flags.internal_flags \ {"VIDEX"})
      BY <2>1, <2>3 DEF videx, card, Flag, Good, Fields
    <3> HIDE DEF videx
    <3>3. /\ videx.internal_flags \subseteq Flags
          /\ videx.internal_flags \cap StoredFlags = cfg.flags
          /\ "VIDEX" \in videx.internal_flags <=> cfg.videx_selection > 0
          /\ \A f \in {"IIE_REGS", "INTERP_DGR", "INTERP_DHGR"} :
               f \in videx.internal_flags <=> f \in flags.internal_flags
      BY <1>6, <2>1, <3>2 DEF Good, SettingsOK, Flags, StoredFlags
    <3>4. SettingsOK(videx)
      BY <2>1, <3>1, <3>2, <3>3 DEF Good, SettingsOK, Fields
    <3>5. Good(videx)
      BY <2>1, <3>2, <3>3, <3>4 DEF Good, Follow, Fields
    <3> QED
      BY <2>3, <3>2, <3>3, <3>5 DEF Step, Quiet, Renews, ReadsDirectory, KeepsUpload, Fields
  <2> QED
    BY <2>2, <2>3
<1>9. Step(s, videx) /\ Quiet(s, videx)
  BY <1>7, <1>8, StepTwice DEF Quiet
<1> HIDE DEF videx, card
<1>10. /\ Proper(videx, effects)
       /\ effects.rendering_fx = (IF cfg.size # "without rendering_fx"
                                  THEN cfg.rendering_fx ELSE s.rendering_fx)
       /\ effects.internal_flags \cap StoredFlags = cfg.flags
       /\ \A f \in Fields \ {"internal_flags", "rendering_fx"} : effects[f] = videx[f]
  <2>1. Good(videx)
    BY <1>9 DEF Step
  <2>2. /\ DOMAIN fx = Fields
        /\ fx.rendering_fx = (IF cfg.size # "without rendering_fx"
                              THEN cfg.rendering_fx ELSE s.rendering_fx)
        /\ \A f \in Fields \ {"rendering_fx"} : fx[f] = videx[f]
    BY <1>4, <1>6, <1>8, <2>1 DEF Good, Fields
  <2>3. fx.rendering_fx \in FX_NONE .. FX_DGR_ONLY
    BY <2>2 DEF Good, SettingsOK, WellStored
  <2>4. effects = config_setflags(fx)
    OBVIOUS
  <2> HIDE DEF fx, effects
  <2>5. /\ Proper(videx, effects) /\ effects.rendering_fx = fx.rendering_fx
        /\ effects.internal_flags \cap StoredFlags = videx.internal_flags \cap StoredFlags
        /\ \A f \in Fields \ {"internal_flags", "rendering_fx"} : effects[f] = videx[f]
    <3>1. DOMAIN fx = Fields /\ \A f \in Fields \ {"rendering_fx"} : fx[f] = videx[f]
      BY <2>2
    <3> QED
      BY ONLY <2>1, <3>1, <2>3, <2>4, EffectsProper
  <2> QED
    BY <1>8, <2>2, <2>5
<1>11. Step(s, effects) /\ Quiet(s, effects)
  BY <1>9, <1>10, StepTwice DEF Proper, Quiet
<1> HIDE DEF effects
<1>12. /\ DOMAIN t = Fields
       /\ t.input_switch_mode = cfg.input_switch_mode
       /\ t.unenhance_font \in BOOLEAN
       /\ t.unenhance_font <=> type = MACHINE_IIE
       /\ t.color_mode = (IF cfg.color_mode <= 2 THEN cfg.color_mode ELSE 0)
       /\ t.cfg_local_charset = font(cfg.local_charset)
       /\ t.cfg_alt_charset = font(cfg.alt_charset)
       /\ t.reload_charsets = effects.reload_charsets \cup {Local, Alternate}
       /\ \A f \in Fields \ {"input_switch_mode", "unenhance_font", "color_mode",
              "cfg_local_charset", "cfg_alt_charset", "reload_charsets"} : t[f] = effects[f]
  BY <1>10 DEF Proper, Step, Good, Fields
<1> HIDE DEF t
<1>13. Good(effects)
  BY <1>11 DEF Step
<1>14. /\ t.cfg_local_charset \in 0 .. MAX_FONT_COUNT - 1
       /\ t.cfg_alt_charset \in 0 .. MAX_FONT_COUNT - 1
       /\ t.color_mode \in 0 .. 2
       /\ t.input_switch_mode \in ModeSwitchDisabled .. ModeSwitchLangCycle
  <2>1. /\ cfg.local_charset \in 0 .. 255 /\ cfg.alt_charset \in 0 .. 255
        /\ cfg.color_mode \in 0 .. 255
        /\ cfg.input_switch_mode \in ModeSwitchDisabled .. ModeSwitchLangCycle
    BY DEF WellStored, Configs, Byte
  <2>2. font(cfg.local_charset) \in 0 .. MAX_FONT_COUNT - 1
        /\ font(cfg.alt_charset) \in 0 .. MAX_FONT_COUNT - 1
    BY <2>1 DEF MAX_FONT_COUNT
  <2> HIDE DEF font
  <2> QED
    BY <1>12, <2>1, <2>2
<1>15. SettingsOK(t)
  <2>1. t.reload_charsets \subseteq {Local, Alternate, Videx}
    BY <1>12, <1>13 DEF Good, SettingsOK
  <2>2. t.cfg_local_charset \in 0 .. MAX_FONT_COUNT
    BY <1>14 DEF MAX_FONT_COUNT
  <2>3. \A f \in {"detected_machine", "cfg_machine", "current_machine", "done",
                  "language_switch", "IgnoreNextKeypress", "MenuNeedsRedraw",
                  "debounce_last", "invalid_fonts", "rendering_fx", "internal_flags",
                  "cfg_videx_selection", "CurrentMenu"} : t[f] = effects[f]
    BY <1>12 DEF Fields
  <2> QED
    BY <1>12, <1>13, <1>14, <2>1, <2>2, <2>3 DEF Good, SettingsOK
<1>16. Good(t)
  BY <1>12, <1>13, <1>15 DEF Good, Follow, Fields
<1>17. Step(effects, t) /\ Quiet(effects, t)
  BY <1>12, <1>16 DEF Step, Quiet, Renews, ReadsDirectory, KeepsUpload, Fields
<1>18. Step(s, t) /\ Quiet(s, t)
  BY <1>11, <1>17, StepTwice DEF Quiet
<1>19. /\ t.cfg_machine = type /\ t.current_machine = type
       /\ t.detected_machine = s.detected_machine
       /\ t.invalid_fonts = s.invalid_fonts
       /\ t.cfg_videx_selection = (IF cfg.size = "full" THEN cfg.videx_selection
                                   ELSE s.cfg_videx_selection)
       /\ t.rendering_fx = (IF cfg.size # "without rendering_fx" THEN cfg.rendering_fx
                            ELSE s.rendering_fx)
       /\ t.internal_flags \cap StoredFlags = cfg.flags
  <2> DEFINE n == IF cfg.size = "full" THEN cfg.videx_selection ELSE s.cfg_videx_selection
             e == IF cfg.size # "without rendering_fx" THEN cfg.rendering_fx
                  ELSE s.rendering_fx
  <2>1. videx.cfg_videx_selection = n /\ effects.rendering_fx = e
    BY <1>8, <1>10
  <2> HIDE DEF n, e, font
  <2>2. /\ t.cfg_machine = type /\ t.current_machine = type
        /\ t.detected_machine = s.detected_machine
        /\ t.invalid_fonts = s.invalid_fonts
        /\ t.cfg_videx_selection = n /\ t.rendering_fx = e
        /\ t.internal_flags = effects.internal_flags
    <3> DEFINE Same(x) == /\ x.cfg_machine = type /\ x.current_machine = type
                          /\ x.detected_machine = s.detected_machine
                          /\ x.invalid_fonts = s.invalid_fonts
    <3>1. Same(flags)
      BY <1>4, <1>6 DEF Fields
    <3>2. Same(videx)
      BY <1>8, <3>1 DEF Fields
    <3>3. Same(effects) /\ effects.cfg_videx_selection = n
      BY <1>10, <2>1, <3>2 DEF Fields
    <3> QED
      BY <1>12, <2>1, <3>3 DEF Fields
  <2> QED
    BY <1>10, <2>2 DEF n, e
<1>20. Reloads(s, t)
  <2>1. t.cfg_local_charset < MAX_FONT_COUNT
    BY <1>14 DEF MAX_FONT_COUNT
  <2>2. {Local, Alternate} \subseteq t.reload_charsets
    BY <1>12
  <2> QED
    BY <1>18, <1>19, <2>1, <2>2 DEF Reloads
<1>21. type = Effective(t) => InEffect(t)
  BY <1>12, <1>19 DEF InEffect
<1> QED
  BY <1>1, <1>12, <1>19, <1>20, <1>21 DEF Chosen, type

LEMMA ConfigLoad ==
  ASSUME NEW s, Good(s), FlashOK(s.flash)
  PROVE  LET t   == config_load(s)
             cfg == s.flash.config
             font(n) == IF n >= MAX_FONT_COUNT THEN 0 ELSE n
         IN  /\ Reloads(s, t)
             /\ t.invalid_fonts = (IF s.flash.fontdir = Erased THEN s.invalid_fonts
                                   ELSE s.flash.fontdir)
             /\ s.detected_machine = MACHINE_AUTO => InEffect(t)
             /\ cfg = Erased => Default(t)
             /\ cfg # Erased =>
                  Chosen(t, stored_machine(cfg), font(cfg.local_charset),
                         font(cfg.alt_charset),
                         IF cfg.size = "full" THEN cfg.videx_selection
                         ELSE s.cfg_videx_selection,
                         cfg.input_switch_mode,
                         IF cfg.color_mode <= 2 THEN cfg.color_mode ELSE 0,
                         IF cfg.size # "without rendering_fx" THEN cfg.rendering_fx
                         ELSE s.rendering_fx,
                         cfg.flags)
<1> DEFINE fonts == IF s.flash.fontdir = Erased THEN s
                    ELSE [s EXCEPT !.invalid_fonts = s.flash.fontdir]
           t     == config_load(s)
<1>1. /\ DOMAIN fonts = Fields
      /\ fonts.invalid_fonts = (IF s.flash.fontdir = Erased THEN s.invalid_fonts
                                ELSE s.flash.fontdir)
      /\ \A f \in Fields \ {"invalid_fonts"} : fonts[f] = s[f]
  BY DEF Good, Fields
<1>2. t = IF s.flash.config = Erased THEN config_load_defaults(fonts)
          ELSE load_stored(fonts, s.flash.config)
  BY Zenon DEF config_load
<1> HIDE DEF t, fonts
<1>3. fonts.invalid_fonts \subseteq Slots
  <2>1. s.invalid_fonts \subseteq Slots
    BY DEF Good, SettingsOK
  <2>2. s.flash.fontdir = Erased \/ s.flash.fontdir \subseteq Slots
    BY DEF FlashOK
  <2> QED
    BY <1>1, <2>1, <2>2
<1>4. Good(fonts)
  BY <1>1, <1>3 DEF Good, SettingsOK, Follow, Fields
<1>5. /\ fonts.flash = s.flash /\ fonts.trail = s.trail
      /\ fonts.detected_machine = s.detected_machine
      /\ fonts.cfg_videx_selection = s.cfg_videx_selection
      /\ fonts.rendering_fx = s.rendering_fx
      /\ fonts.reload_charsets = s.reload_charsets
      /\ KeepsUpload(s, fonts)
  BY <1>1 DEF KeepsUpload, Fields
<1>6. ASSUME Reloads(fonts, t), t.invalid_fonts = fonts.invalid_fonts
      PROVE  /\ Reloads(s, t)
             /\ t.invalid_fonts = (IF s.flash.fontdir = Erased THEN s.invalid_fonts
                                   ELSE s.flash.fontdir)
  <2>1. Renews(s, t)
    BY <1>5, <1>6 DEF Reloads, Step, Renews
  <2>2. ReadsDirectory(s, t)
    BY <1>1, <1>6 DEF ReadsDirectory
  <2>3. KeepsUpload(s, t)
    BY <1>5, <1>6 DEF Reloads, Step, KeepsUpload
  <2> QED
    BY <1>1, <1>5, <1>6, <2>1, <2>2, <2>3 DEF Reloads, Step, Quiet
<1>7. CASE s.flash.config = Erased
  <2>1. /\ Reloads(fonts, t) /\ Default(t) /\ t.invalid_fonts = fonts.invalid_fonts
        /\ s.detected_machine = MACHINE_AUTO => InEffect(t)
    BY <1>2, <1>4, <1>5, <1>7, DefaultsStep
  <2> QED
    BY <1>6, <1>7, <2>1, Zenon DEF t
<1>8. CASE s.flash.config # Erased
  <2> DEFINE cfg == s.flash.config
             font(n) == IF n >= MAX_FONT_COUNT THEN 0 ELSE n
             videx == IF cfg.size = "full" THEN cfg.videx_selection
                      ELSE s.cfg_videx_selection
             color == IF cfg.color_mode <= 2 THEN cfg.color_mode ELSE 0
             fx == IF cfg.size # "without rendering_fx" THEN cfg.rendering_fx
                   ELSE s.rendering_fx
  <2>1. WellStored(cfg) /\ t = load_stored(fonts, cfg)
    BY <1>2, <1>8 DEF FlashOK
  <2>2. /\ Reloads(fonts, t) /\ t.invalid_fonts = fonts.invalid_fonts
        /\ Chosen(t, stored_machine(cfg), font(cfg.local_charset),
                  font(cfg.alt_charset), videx, cfg.input_switch_mode, color, fx, cfg.flags)
        /\ stored_machine(cfg) = Effective(t) => InEffect(t)
    BY <1>4, <1>5, <2>1, LoadStored, Zenon
  <2> HIDE DEF font, videx, color, fx
  <2>3. s.detected_machine = MACHINE_AUTO => stored_machine(cfg) = Effective(t)
    BY <1>5, <2>2 DEF Reloads, Chosen, Effective
  <2> QED
    BY <1>6, <1>8, <2>2, <2>3, Zenon DEF t, cfg, font, videx, color, fx
<1> QED
  BY <1>7, <1>8, Zenon DEF t

\* What the settings are, in one record.
LEMMA SettingsChosen ==
  ASSUME NEW s, Good(s), NEW machine, NEW local, NEW alternate, NEW videx, NEW switch,
         NEW color, NEW fx, NEW flags,
         Chosen(s, machine, local, alternate, videx, switch, color, fx, flags)
  PROVE  UserSettings(s) = [machine |-> machine, fonts |-> <<local, alternate, videx>>,
                            switch |-> switch, color |-> color, fx |-> fx, flags |-> flags]
<1>1. s.internal_flags
        \ {"MENU_ENABLE", "IIE_REGS", "INTERP_DGR", "INTERP_DHGR", "VIDEX"} = flags
  BY DEF Good, SettingsOK, Flags, StoredFlags, Chosen
<1> QED
  BY <1>1, Zenon DEF UserSettings, Chosen

LEMMA SameSettings ==
  ASSUME NEW s, Good(s), NEW t, Good(t), SameChoice(s, t)
  PROVE  UserSettings(t) = UserSettings(s) /\ Stored(t) = Stored(s)
<1>1. /\ Chosen(s, s.cfg_machine, s.cfg_local_charset, s.cfg_alt_charset,
                s.cfg_videx_selection, s.input_switch_mode, s.color_mode,
                s.rendering_fx, s.internal_flags \cap StoredFlags)
      /\ Chosen(t, s.cfg_machine, s.cfg_local_charset, s.cfg_alt_charset,
                s.cfg_videx_selection, s.input_switch_mode, s.color_mode,
                s.rendering_fx, s.internal_flags \cap StoredFlags)
  BY Zenon DEF Chosen, SameChoice
<1>2. UserSettings(t) = UserSettings(s)
  BY <1>1, SettingsChosen
<1>3. Stored(t) = Stored(s)
  BY Zenon DEF Stored, SameChoice
<1> QED
  BY <1>2, <1>3

-----------------------------------------------------------------------------
(* The power.                                                              *)

LEMMA PowerOnGood ==
  ASSUME NEW flash
  PROVE  Good(PowerOn(flash)) /\ PowerOn(flash).flash = flash
         /\ PowerOn(flash).trail = << >> /\ PowerOn(flash).detected_machine = MACHINE_AUTO
         /\ PowerOn(flash).rendering_fx = FX_ENABLED
         /\ PowerOn(flash).cfg_videx_selection = 0
<1> DEFINE s == PowerOn(flash)
<1>1. DOMAIN s = Fields
  BY DEF PowerOn, Fields
<1>2. SettingsOK(s)
  <2>1. MACHINE_AUTO \in Machine
    BY DEF Machine
  <2>2. /\ 0 \in 0 .. VIDEX_FONT_COUNT /\ 0 \in 0 .. MAX_FONT_COUNT
        /\ 0 \in 0 .. MAX_FONT_COUNT - 1 /\ 1 \in 0 .. 2
        /\ FX_ENABLED \in FX_NONE .. FX_DGR_ONLY
        /\ ModeSwitchCycleVideo \in ModeSwitchDisabled .. ModeSwitchLangCycle
        /\ 0 \in 0 .. MENU_ENTRY_COUNT - 1
    BY DEF VIDEX_FONT_COUNT, MAX_FONT_COUNT, FX_ENABLED, FX_NONE, FX_DGR_ONLY,
       ModeSwitchDisabled, ModeSwitchCycleVideo, ModeSwitchLangCycle, MENU_ENTRY_COUNT
  <2>3. {"INTERP_DGR", "INTERP_DHGR"} \subseteq Flags
    BY DEF Flags
  <2> QED
    BY <2>1, <2>2, <2>3 DEF PowerOn, SettingsOK
<1>3. Follow(s)
  BY DEF PowerOn, Follow, IIeFont, MACHINE_AUTO, MACHINE_IIE, MACHINE_IIE_ENH,
     FX_ENABLED, FX_DGR_ONLY, FX_DHGR_ONLY
<1> QED
  BY <1>1, <1>2, <1>3 DEF Good, PowerOn

\* How the firmware is after it has started.
Booted(s, flash) ==
  /\ Good(s) /\ InEffect(s) /\ s.cfg_local_charset < MAX_FONT_COUNT
  /\ {Local, Alternate} \subseteq s.reload_charsets
  /\ s.flash = flash /\ s.trail = << >>
  /\ flash.fontdir # Erased => s.invalid_fonts = flash.fontdir
  /\ s.custom_rom_write_count = CHARACTER_ROM_SIZE + 1
  /\ UploadOK(s) /\ s.dev_config_lock = Locked
  /\ DOMAIN s.character_rom = {Local, Alternate}

LEMMA BootStarts ==
  ASSUME NEW flash, FlashOK(flash)
  PROVE  Booted(Boot(flash), flash)
<1> DEFINE s == PowerOn(flash)
           t == Boot(flash)
<1>1. /\ Reloads(s, t) /\ InEffect(t)
      /\ t.invalid_fonts = (IF flash.fontdir = Erased THEN s.invalid_fonts
                            ELSE flash.fontdir)
  <2>1. Good(s) /\ s.flash = flash /\ s.detected_machine = MACHINE_AUTO
    BY PowerOnGood
  <2>2. t = config_load(s)
    BY DEF Boot
  <2> HIDE DEF s, t
  <2> QED
    BY <2>1, <2>2, ConfigLoad, Zenon
<1>2. UploadOK(s) /\ s.dev_config_lock = Locked
      /\ DOMAIN s.character_rom = {Local, Alternate}
      /\ s.custom_rom_write_count = CHARACTER_ROM_SIZE + 1
  <2>1. CHARACTER_ROM_SIZE \in Nat \ {0}
    BY RomSizeAssumption
  <2>2. [h \in {0, 1} |-> [i \in 1 .. CHARACTER_ROM_SIZE |-> 0]] \in [{0, 1} -> Font]
    BY DEF Font, Byte
  <2>3. 0 \in Slots
    BY DEF Slots
  <2> QED
    BY <2>1, <2>2, <2>3 DEF PowerOn, UploadOK
<1> HIDE DEF s, t
<1>3. s.flash = flash /\ s.trail = << >>
  BY PowerOnGood DEF s
<1> QED
  BY <1>1, <1>2, <1>3 DEF Booted, Reloads, Step, Quiet, KeepsUpload, UploadOK, t

\* What comes back depends on the stored configuration alone.
LEMMA BootSettings ==
  ASSUME NEW f, FlashOK(f), NEW g, FlashOK(g), f.config = g.config
  PROVE  UserSettings(Boot(f)) = UserSettings(Boot(g))
<1> DEFINE cfg     == f.config
           font(n) == IF n >= MAX_FONT_COUNT THEN 0 ELSE n
           videx   == IF cfg.size = "full" THEN cfg.videx_selection ELSE 0
           color   == IF cfg.color_mode <= 2 THEN cfg.color_mode ELSE 0
           fx      == IF cfg.size # "without rendering_fx" THEN cfg.rendering_fx
                      ELSE FX_ENABLED
           Loaded(s) == Chosen(s, stored_machine(cfg), font(cfg.local_charset),
                               font(cfg.alt_charset), videx, cfg.input_switch_mode,
                               color, fx, cfg.flags)
<1>1. ASSUME NEW h, FlashOK(h), h.config = cfg
      PROVE  /\ Good(Boot(h))
             /\ cfg = Erased => Default(Boot(h))
             /\ cfg # Erased => Loaded(Boot(h))
  <2> DEFINE s == PowerOn(h)
  <2>1. /\ Good(s) /\ s.flash = h /\ Boot(h) = config_load(s)
        /\ s.rendering_fx = FX_ENABLED /\ s.cfg_videx_selection = 0
    BY PowerOnGood DEF Boot
  <2> HIDE DEF s
  <2>2. Good(Boot(h))
    BY <1>1, BootStarts DEF Booted
  <2>3. FlashOK(s.flash)
    BY <1>1, <2>1
  <2>4. cfg = Erased => Default(config_load(s))
    BY <1>1, <2>1, <2>3, ConfigLoad
  <2>5. cfg # Erased => Loaded(config_load(s))
    BY <1>1, <2>1, <2>3, ConfigLoad, Zenon
  <2> QED
    BY <2>1, <2>2, <2>4, <2>5
<1> HIDE DEF Loaded
<1>a. /\ Good(Boot(f)) /\ Good(Boot(g))
      /\ cfg = Erased => Default(Boot(f)) /\ Default(Boot(g))
      /\ cfg # Erased => Loaded(Boot(f)) /\ Loaded(Boot(g))
  BY <1>1
<1> HIDE DEF font, videx, color, fx
<1> DEFINE a == Boot(f)
           b == Boot(g)
<1> HIDE DEF a, b, cfg
<1>2. SameChoice(a, b)
  <2>1. CASE cfg = Erased
    BY <1>a, <2>1 DEF Default, Chosen, SameChoice, a, b
  <2>2. CASE cfg # Erased
    BY <1>a, <2>2 DEF Loaded, Chosen, SameChoice, a, b
  <2> QED
    BY <2>1, <2>2
<1> QED
  BY <1>a, <1>2, SameSettings DEF a, b

LEMMA StoredWell ==
  ASSUME NEW s, Good(s)
  PROVE  WellStored(Stored(s)) /\ Stored(s) # Erased
<1>1. /\ s.internal_flags \cap StoredFlags \in SUBSET StoredFlags
      /\ s.color_mode \in Byte /\ s.cfg_machine \in Byte
      /\ s.cfg_local_charset \in Byte /\ s.cfg_alt_charset \in Byte
      /\ s.input_switch_mode \in ModeSwitchDisabled .. ModeSwitchLangCycle
      /\ s.rendering_fx \in Byte /\ s.rendering_fx \in FX_NONE .. FX_DGR_ONLY
      /\ s.cfg_videx_selection \in Byte /\ s.cfg_videx_selection \in 0 .. VIDEX_FONT_COUNT
  BY DEF Good, SettingsOK, Byte, Machine, MACHINE_MAX_CFG, MACHINE_PRAVETZ, MACHINE_AUTO,
     MAX_FONT_COUNT, FX_NONE, FX_DGR_ONLY, VIDEX_FONT_COUNT
<1>2. "full" \in Sizes
  BY DEF Sizes
<1>3. Stored(s) \in Configs
  BY <1>1, <1>2 DEF Stored, Configs
<1> QED
  BY <1>1, <1>3, ErasedAssumption DEF WellStored, Stored

\* A saved configuration comes back.
LEMMA SavedReturns ==
  ASSUME NEW s, Good(s), s.cfg_local_charset < MAX_FONT_COUNT,
         NEW flash, FlashOK(flash), flash.config = Stored(s)
  PROVE  UserSettings(Boot(flash)) = UserSettings(s)
<1> DEFINE cfg == Stored(s)
           font(n) == IF n >= MAX_FONT_COUNT THEN 0 ELSE n
           t == Boot(flash)
<1>1. /\ cfg.size = "full" /\ cfg.local_charset = s.cfg_local_charset
      /\ cfg.alt_charset = s.cfg_alt_charset /\ cfg.color_mode = s.color_mode
      /\ cfg.machine_type = s.cfg_machine /\ ~ cfg.OBSOLETE_enhanced_font_enabled
      /\ cfg.input_switch_mode = s.input_switch_mode
      /\ cfg.rendering_fx = s.rendering_fx
      /\ cfg.videx_selection = s.cfg_videx_selection
      /\ cfg.flags = s.internal_flags \cap StoredFlags
      /\ cfg # Erased
  BY StoredWell DEF Stored
<1> HIDE DEF cfg
<1>2. stored_machine(cfg) = s.cfg_machine
  BY <1>1 DEF stored_machine, Good, SettingsOK, Machine, MACHINE_AUTO, MACHINE_MAX_CFG,
     MACHINE_PRAVETZ, MACHINE_IIE
<1>3. font(cfg.local_charset) = s.cfg_local_charset
      /\ font(cfg.alt_charset) = s.cfg_alt_charset
  BY <1>1 DEF Good, SettingsOK, MAX_FONT_COUNT
<1>4. s.color_mode \in 0 .. 2
  BY DEF Good, SettingsOK
<1>5. Good(t) /\ Chosen(t, stored_machine(cfg), font(cfg.local_charset),
         font(cfg.alt_charset), cfg.videx_selection, cfg.input_switch_mode,
         IF cfg.color_mode <= 2 THEN cfg.color_mode ELSE 0, cfg.rendering_fx, cfg.flags)
  <2> DEFINE p == PowerOn(flash)
  <2>1. Good(p) /\ p.flash = flash /\ t = config_load(p)
    BY PowerOnGood DEF Boot
  <2>2. Good(t) /\ flash.config = cfg
    BY BootStarts DEF Booted, cfg
  <2> HIDE DEF p, t
  <2>3. Chosen(t, stored_machine(cfg), font(cfg.local_charset),
               font(cfg.alt_charset),
               IF cfg.size = "full" THEN cfg.videx_selection ELSE p.cfg_videx_selection,
               cfg.input_switch_mode,
               IF cfg.color_mode <= 2 THEN cfg.color_mode ELSE 0,
               IF cfg.size # "without rendering_fx" THEN cfg.rendering_fx
               ELSE p.rendering_fx, cfg.flags)
    BY <1>1, <2>1, <2>2, ConfigLoad, Zenon
  <2>4. (IF cfg.size = "full" THEN cfg.videx_selection ELSE p.cfg_videx_selection)
          = cfg.videx_selection
        /\ (IF cfg.size # "without rendering_fx" THEN cfg.rendering_fx
            ELSE p.rendering_fx) = cfg.rendering_fx
    BY <1>1
  <2> HIDE DEF font
  <2> QED
    BY <2>2, <2>3, <2>4
<1> HIDE DEF t, font
<1>6. Chosen(t, s.cfg_machine, s.cfg_local_charset, s.cfg_alt_charset,
             s.cfg_videx_selection, s.input_switch_mode, s.color_mode, s.rendering_fx,
             s.internal_flags \cap StoredFlags)
  <2>1. (IF cfg.color_mode <= 2 THEN cfg.color_mode ELSE 0) = s.color_mode
    BY <1>1, <1>4
  <2> QED
    BY <1>1, <1>2, <1>3, <1>5, <2>1
<1>7. Chosen(s, s.cfg_machine, s.cfg_local_charset, s.cfg_alt_charset,
             s.cfg_videx_selection, s.input_switch_mode, s.color_mode, s.rendering_fx,
             s.internal_flags \cap StoredFlags)
  BY DEF Chosen
<1> QED
  BY <1>5, <1>6, <1>7, SettingsChosen DEF t

-----------------------------------------------------------------------------
(* The menu.                                                               *)

\* The fields that most functions leave alone.
Lasting ==
  {"detected_machine", "cfg_machine", "current_machine", "unenhance_font",
   "invalid_fonts", "custom_rom_font_nr", "custom_rom_font_type",
   "custom_rom_write_offset", "custom_rom_write_count", "custom_font_buffer",
   "dev_config_lock", "character_rom", "flash", "trail"}

LEMMA LastingProper ==
  ASSUME NEW s, NEW t, Good(t), Renews(s, t), KeepsLocal(s, t),
         \A f \in Lasting : t[f] = s[f]
  PROVE  Proper(s, t)
<1>1. /\ t.detected_machine = s.detected_machine /\ t.cfg_machine = s.cfg_machine
      /\ t.current_machine = s.current_machine /\ t.unenhance_font = s.unenhance_font
      /\ t.invalid_fonts = s.invalid_fonts
      /\ t.flash = s.flash /\ t.trail = s.trail /\ KeepsUpload(s, t)
  BY DEF Lasting, KeepsUpload
<1> QED
  BY <1>1 DEF Proper, Step, ReadsDirectory, Quiet, InEffect, Effective

\* The fields that say what is shown, and where the user is in the menu.
Shown ==
  {"soft_switches", "screen", "CurrentMenu", "IgnoreNextKeypress",
   "MenuNeedsRedraw", "language_switch", "debounce_last"}

\* A function that changes no setting.
Presents(s, t) ==
  /\ DOMAIN t = Fields
  /\ \A f \in Fields \ Shown : t[f] = s[f]
  /\ t.CurrentMenu \in 0 .. MENU_ENTRY_COUNT - 1
  /\ t.IgnoreNextKeypress \in BOOLEAN /\ t.MenuNeedsRedraw \in BOOLEAN
  /\ t.language_switch \in BOOLEAN /\ t.debounce_last \in BOOLEAN

LEMMA PresentsProper ==
  ASSUME NEW s, Good(s), NEW t, Presents(s, t)
  PROVE  Proper(s, t) /\ SameChoice(s, t) /\ Good(t)
<1>1. /\ \A f \in Lasting : t[f] = s[f]
      /\ t.done = s.done /\ t.reload_charsets = s.reload_charsets
      /\ t.cfg_videx_selection = s.cfg_videx_selection
      /\ t.cfg_local_charset = s.cfg_local_charset
      /\ t.cfg_alt_charset = s.cfg_alt_charset
      /\ t.color_mode = s.color_mode /\ t.rendering_fx = s.rendering_fx
      /\ t.input_switch_mode = s.input_switch_mode
      /\ t.internal_flags = s.internal_flags
  BY DEF Presents, Fields, Shown, Lasting
<1>2. t.detected_machine = s.detected_machine /\ t.cfg_machine = s.cfg_machine
      /\ t.current_machine = s.current_machine /\ t.unenhance_font = s.unenhance_font
      /\ t.invalid_fonts = s.invalid_fonts
  BY <1>1 DEF Lasting
<1>3. SettingsOK(t)
  BY <1>1, <1>2 DEF Good, SettingsOK, Presents
<1>4. Good(t)
  BY <1>1, <1>2, <1>3 DEF Good, Follow, Presents
<1>5. Renews(s, t) /\ KeepsLocal(s, t) /\ SameChoice(s, t)
  BY <1>1, <1>2 DEF Renews, KeepsLocal, SameChoice
<1> QED
  BY <1>1, <1>4, <1>5, LastingProper

LEMMA PresentsItself ==
  ASSUME NEW s, Good(s)
  PROVE  Presents(s, s)
  BY DEF Good, SettingsOK, Presents

LEMMA PresentsTwice ==
  ASSUME NEW s, NEW t, NEW u, Presents(s, t), Presents(t, u)
  PROVE  Presents(s, u)
  BY DEF Presents

\* Drawing.
LEMMA FramePresents ==
  ASSUME NEW s, Good(s), NEW page
  PROVE  Presents(s, menuShowFrame(s, page))
<1>1. Presents(s, s)
  BY PresentsItself
<1> QED
  BY <1>1 DEF Presents, menuShowFrame, Fields, Shown

LEMMA TestPresents ==
  ASSUME NEW s, Good(s)
  PROVE  Presents(s, menuShowTest(s))
<1>1. Presents(s, s)
  BY PresentsItself
<1> QED
  BY <1>1 DEF Presents, menuShowTest, Fields, Shown

LEMMA IgnorePresents ==
  ASSUME NEW s, Good(s), NEW ignore \in BOOLEAN
  PROVE  Presents(s, [s EXCEPT !.IgnoreNextKeypress = ignore])
<1>1. Presents(s, s)
  BY PresentsItself
<1> QED
  BY <1>1 DEF Presents, Fields, Shown

LEMMA RedrawPresents ==
  ASSUME NEW s, Good(s), NEW redraw \in BOOLEAN
  PROVE  Presents(s, [s EXCEPT !.MenuNeedsRedraw = redraw])
<1>1. Presents(s, s)
  BY PresentsItself
<1> QED
  BY <1>1 DEF Presents, Fields, Shown

LEMMA MovePresents ==
  ASSUME NEW s, Good(s), NEW entry \in 0 .. MENU_ENTRY_COUNT - 1
  PROVE  Presents(s, [s EXCEPT !.CurrentMenu = entry])
<1>1. Presents(s, s)
  BY PresentsItself
<1> QED
  BY <1>1 DEF Presents, Fields, Shown

LEMMA DrawPresents ==
  ASSUME NEW s, Good(s)
  PROVE  Presents(s, DrawMenu(s))
<1> DEFINE shown == menuShowFrame(s, "menu")
           frame == IF s.MenuNeedsRedraw
                    THEN [shown EXCEPT !.MenuNeedsRedraw = FALSE]
                    ELSE s
           drawn == [Values(s) EXCEPT !.alt =
                       IF @ = << >> /\ frame.screen.shown # << >>
                       THEN frame.screen.shown[1].alt ELSE @]
<1>1. Presents(s, shown) /\ Good(shown)
  BY FramePresents, PresentsProper
<1> HIDE DEF shown
<1>2. Presents(s, frame)
  BY <1>1, RedrawPresents, PresentsTwice, PresentsItself
<1> HIDE DEF frame, drawn
<1>3. Presents(s, [frame EXCEPT !.screen.shown = <<drawn>>])
  BY <1>2 DEF Presents, Fields, Shown
<1> QED
  BY <1>3, Zenon DEF DrawMenu, frame, drawn, shown

\* Settings from which nothing is derived.
Plain ==
  {"cfg_local_charset", "cfg_alt_charset", "color_mode", "input_switch_mode",
   "reload_charsets"}

LEMMA PlainProper ==
  ASSUME NEW s, Good(s), NEW t, DOMAIN t = Fields,
         \A f \in Fields \ (Plain \cup Shown) : t[f] = s[f],
         t.CurrentMenu = s.CurrentMenu,
         t.IgnoreNextKeypress = s.IgnoreNextKeypress,
         t.MenuNeedsRedraw = s.MenuNeedsRedraw,
         t.debounce_last = s.debounce_last,
         t.language_switch \in BOOLEAN,
         t.cfg_local_charset \in 0 .. MAX_FONT_COUNT,
         t.cfg_alt_charset \in 0 .. MAX_FONT_COUNT - 1,
         t.color_mode \in 0 .. 2,
         t.input_switch_mode \in ModeSwitchDisabled .. ModeSwitchLangCycle,
         t.reload_charsets \subseteq {Local, Alternate, Videx},
         Renews(s, t), KeepsLocal(s, t)
  PROVE  Proper(s, t) /\ Good(t)
<1>1. /\ \A f \in Lasting : t[f] = s[f]
      /\ t.done = s.done /\ t.cfg_videx_selection = s.cfg_videx_selection
      /\ t.rendering_fx = s.rendering_fx /\ t.internal_flags = s.internal_flags
  BY DEF Fields, Shown, Lasting, Plain
<1>2. /\ t.detected_machine = s.detected_machine /\ t.cfg_machine = s.cfg_machine
      /\ t.current_machine = s.current_machine /\ t.unenhance_font = s.unenhance_font
      /\ t.invalid_fonts = s.invalid_fonts
  BY <1>1 DEF Lasting
<1>3. SettingsOK(t)
  BY <1>1, <1>2 DEF Good, SettingsOK
<1>4. Good(t)
  BY <1>1, <1>2, <1>3 DEF Good, Follow
<1> QED
  BY <1>1, <1>4, LastingProper

LEMMA GoodRanges ==
  ASSUME NEW s, Good(s)
  PROVE  /\ DOMAIN s = Fields
         /\ s.language_switch \in BOOLEAN
         /\ s.cfg_local_charset \in 0 .. MAX_FONT_COUNT
         /\ s.cfg_alt_charset \in 0 .. MAX_FONT_COUNT - 1
         /\ s.color_mode \in 0 .. 2
         /\ s.input_switch_mode \in ModeSwitchDisabled .. ModeSwitchLangCycle
         /\ s.reload_charsets \subseteq {Local, Alternate, Videx}
         /\ s.cfg_videx_selection \in 0 .. VIDEX_FONT_COUNT
         /\ s.rendering_fx \in FX_NONE .. FX_DGR_ONLY
         /\ s.cfg_machine \in Machine /\ s.detected_machine \in Machine
         /\ s.current_machine \in Machine
         /\ s.CurrentMenu \in 0 .. MENU_ENTRY_COUNT - 1
  BY DEF Good, SettingsOK

\* Another local font, and the request to load it.
LEMMA LocalProper ==
  ASSUME NEW s, Good(s), NEW font \in 0 .. MAX_FONT_COUNT,
         font = MAX_FONT_COUNT => s.cfg_local_charset = MAX_FONT_COUNT,
         NEW t, DOMAIN t = Fields, t.cfg_local_charset = font,
         font # s.cfg_local_charset => Local \in t.reload_charsets,
         t.reload_charsets \in {s.reload_charsets, s.reload_charsets \cup {Local}},
         \A f \in Fields \ {"cfg_local_charset", "reload_charsets"} : t[f] = s[f]
  PROVE  Proper(s, t) /\ Good(t)
<1>1. KeepsLocal(s, t)
  BY DEF KeepsLocal, MAX_FONT_COUNT
<1>2. Renews(s, t) /\ t.reload_charsets \subseteq {Local, Alternate, Videx}
  BY GoodRanges DEF Renews, Fields
<1> QED
  BY <1>1, <1>2, GoodRanges, PlainProper DEF Fields, Plain, Shown

LEMMA AlternateProper ==
  ASSUME NEW s, Good(s), NEW font \in 0 .. MAX_FONT_COUNT - 1,
         NEW t, DOMAIN t = Fields, t.cfg_alt_charset = font,
         font # s.cfg_alt_charset => Alternate \in t.reload_charsets,
         t.reload_charsets \in {s.reload_charsets, s.reload_charsets \cup {Alternate}},
         \A f \in Fields \ {"cfg_alt_charset", "reload_charsets"} : t[f] = s[f]
  PROVE  Proper(s, t) /\ Good(t)
<1>1. KeepsLocal(s, t)
  BY DEF KeepsLocal, Fields
<1>2. Renews(s, t) /\ t.reload_charsets \subseteq {Local, Alternate, Videx}
  BY GoodRanges DEF Renews, Fields
<1> QED
  BY <1>1, <1>2, GoodRanges, PlainProper DEF Fields, Plain, Shown

LEMMA ColorProper ==
  ASSUME NEW s, Good(s), NEW color \in 0 .. 2
  PROVE  Proper(s, [s EXCEPT !.color_mode = color]) /\ Good([s EXCEPT !.color_mode = color])
<1> DEFINE t == [s EXCEPT !.color_mode = color]
<1>1. /\ DOMAIN t = Fields /\ t.color_mode = color
      /\ \A f \in Fields \ {"color_mode"} : t[f] = s[f]
  BY DEF Good, Fields
<1> HIDE DEF t
<1>2. KeepsLocal(s, t) /\ Renews(s, t)
  BY <1>1 DEF KeepsLocal, Renews, Fields
<1>3. Proper(s, t) /\ Good(t)
  BY <1>1, <1>2, GoodRanges, PlainProper DEF Fields, Plain, Shown
<1> QED
  BY <1>3 DEF t

LEMMA ModeProper ==
  ASSUME NEW s, Good(s), NEW mode \in ModeSwitchDisabled .. ModeSwitchLangCycle
  PROVE  Proper(s, [s EXCEPT !.input_switch_mode = mode])
         /\ Good([s EXCEPT !.input_switch_mode = mode])
<1> DEFINE t == [s EXCEPT !.input_switch_mode = mode]
<1>1. /\ DOMAIN t = Fields /\ t.input_switch_mode = mode
      /\ \A f \in Fields \ {"input_switch_mode"} : t[f] = s[f]
  BY DEF Good, Fields
<1> HIDE DEF t
<1>2. KeepsLocal(s, t) /\ Renews(s, t)
  BY <1>1 DEF KeepsLocal, Renews, Fields
<1>3. Proper(s, t) /\ Good(t)
  BY <1>1, <1>2, GoodRanges, PlainProper DEF Fields, Plain, Shown
<1> QED
  BY <1>3 DEF t

LEMMA LanguagePresents ==
  ASSUME NEW s, Good(s), NEW on \in BOOLEAN
  PROVE  Presents(s, [s EXCEPT !.language_switch = on])
<1>1. Presents(s, s)
  BY PresentsItself
<1> QED
  BY <1>1 DEF Presents, Fields, Shown

LEMMA SwitchesPresents ==
  ASSUME NEW s, Good(s), NEW names
  PROVE  Presents(s, [s EXCEPT !.soft_switches = @ \cup names])
<1>1. Presents(s, s)
  BY PresentsItself
<1> QED
  BY <1>1 DEF Presents, Fields, Shown

LEMMA DebouncePresents ==
  ASSUME NEW s, Good(s), NEW on \in BOOLEAN
  PROVE  Presents(s, [s EXCEPT !.debounce_last = on])
<1>1. Presents(s, s)
  BY PresentsItself
<1> QED
  BY <1>1 DEF Presents, Fields, Shown

\* Another Videx font, and the flag that follows it.
LEMMA VidexProper ==
  ASSUME NEW s, Good(s), NEW n \in 0 .. VIDEX_FONT_COUNT,
         NEW w, DOMAIN w = Fields, w.cfg_videx_selection = n,
         w.reload_charsets \in {s.reload_charsets, s.reload_charsets \cup {Videx}},
         \A f \in Fields \ {"cfg_videx_selection", "reload_charsets"} : w[f] = s[f]
  PROVE  Proper(s, Flag(w, n > 0, "VIDEX"))
<1> DEFINE t == Flag(w, n > 0, "VIDEX")
<1>1. /\ DOMAIN t = Fields /\ t.cfg_videx_selection = n
      /\ t.reload_charsets = w.reload_charsets
      /\ t.internal_flags = (IF n > 0 THEN s.internal_flags \cup {"VIDEX"}
                             ELSE s.internal_flags \ {"VIDEX"})
      /\ \A f \in Fields \ {"cfg_videx_selection", "reload_charsets", "internal_flags"} :
           t[f] = s[f]
  BY DEF Flag, Fields
<1> HIDE DEF t
<1>2. /\ t.internal_flags \subseteq Flags
      /\ "VIDEX" \in t.internal_flags <=> n > 0
      /\ \A f \in {"IIE_REGS", "INTERP_DGR", "INTERP_DHGR"} :
           f \in t.internal_flags <=> f \in s.internal_flags
  BY <1>1 DEF Good, SettingsOK, Flags
<1>3. /\ t.reload_charsets \subseteq {Local, Alternate, Videx}
      /\ s.reload_charsets \subseteq t.reload_charsets
  BY <1>1, GoodRanges
<1>4. SettingsOK(t)
  BY <1>1, <1>2, <1>3 DEF Good, SettingsOK, Fields
<1>5. Good(t)
  BY <1>1, <1>2, <1>4 DEF Good, Follow, Fields
<1>6. Renews(s, t) /\ KeepsLocal(s, t) /\ \A f \in Lasting : t[f] = s[f]
  BY <1>1, <1>3 DEF Renews, KeepsLocal, Lasting, Fields
<1> QED
  BY <1>5, <1>6, LastingProper DEF t

LEMMA SteppedRange ==
  ASSUME NEW low \in Int, NEW high \in Int, NEW n \in low .. high, NEW increase
  PROVE  Stepped(n, increase, low, high) \in low .. high
<1>1. Stepped(n, increase, low, high) \in {n, n + 1, n - 1}
      /\ (Stepped(n, increase, low, high) = n + 1 => n < high)
      /\ (Stepped(n, increase, low, high) = n - 1 => n > low)
  <2>1. CASE increase /\ n < high
    BY <2>1 DEF Stepped
  <2>2. CASE ~ increase /\ n > low
    BY <2>2 DEF Stepped
  <2>3. CASE ~ (increase /\ n < high) /\ ~ (~ increase /\ n > low)
    <3>1. Stepped(n, increase, low, high) = n
      BY <2>3, Zenon DEF Stepped
    <3> QED
      BY <3>1
  <2> QED
    BY <2>1, <2>2, <2>3
<1> QED
  BY <1>1

LEMMA NextMachineRange ==
  ASSUME NEW m \in Machine, NEW increase
  PROVE  NextMachine(m, increase) \in Machine
<1>1. CASE m = MACHINE_AUTO
  <2>1. MACHINE_II # MACHINE_AUTO
    BY DEF MACHINE_II, MACHINE_AUTO
  <2>2. NextMachine(m, increase) \in {MACHINE_II, m}
    BY <1>1, <2>1, Zenon DEF NextMachine
  <2> QED
    BY <1>1, <2>2 DEF Machine, MACHINE_II, MACHINE_MAX_CFG, MACHINE_PRAVETZ
<1>2. CASE m \in 0 .. MACHINE_MAX_CFG /\ m # MACHINE_AUTO
  <2>1. 0 \in Int /\ MACHINE_MAX_CFG \in Int
    BY DEF MACHINE_MAX_CFG, MACHINE_PRAVETZ
  <2>2. Stepped(m, increase, 0, MACHINE_MAX_CFG) \in 0 .. MACHINE_MAX_CFG
    BY <1>2, <2>1, SteppedRange
  <2>3. NextMachine(m, increase) \in {Stepped(m, increase, 0, MACHINE_MAX_CFG), MACHINE_AUTO}
    BY <1>2, Zenon DEF NextMachine
  <2> QED
    BY <2>2, <2>3 DEF Machine
<1> QED
  BY <1>1, <1>2 DEF Machine, MACHINE_MAX_CFG, MACHINE_PRAVETZ, MACHINE_AUTO

\* The next font above, or below, is a font.
LEMMA NextAltRange ==
  ASSUME NEW font \in 0 .. MAX_FONT_COUNT - 1, NEW increase \in BOOLEAN
  PROVE  NextAlt(font, increase) \in 0 .. MAX_FONT_COUNT - 1
<1> DEFINE others == IF increase THEN {f \in AltFonts : f > font}
                     ELSE {f \in AltFonts : f < font}
           next(f) == \A g \in others : IF increase THEN f <= g ELSE f >= g
<1>1. AltFonts = {0, 9, 10, 11} \cup 16 .. 31
  BY DEF AltFonts, FirstCustom, MAX_FONT_COUNT, CUSTOM_FONT_COUNT
<1>2. CASE font \notin AltFonts \/ others = {}
  BY <1>2, Zenon DEF NextAlt
<1>3. CASE font \in AltFonts /\ others # {}
  <2>1. \E f \in others : next(f)
    <3>1. CASE increase
      <4>1. others = {f \in AltFonts : f > font}
        BY <3>1
      <4>2. font # 31
        BY <1>1, <1>3, <4>1
      <4> DEFINE up == CASE font = 0 -> 9 [] font = 11 -> 16 [] OTHER -> font + 1
      <4>3. /\ up = IF font = 0 THEN 9 ELSE IF font = 11 THEN 16 ELSE font + 1
        BY <1>1, <1>3
      <4>4. up \in others /\ \A g \in others : up <= g
        BY <1>1, <1>3, <4>1, <4>2, <4>3
      <4> HIDE DEF up
      <4> QED
        BY <3>1, <4>4
    <3>2. CASE ~ increase
      <4>1. others = {f \in AltFonts : f < font}
        BY <3>2
      <4>2. font # 0
        BY <1>1, <1>3, <4>1
      <4> DEFINE down == IF font = 9 THEN 0 ELSE IF font = 16 THEN 11 ELSE font - 1
      <4>3. down \in others /\ \A g \in others : down >= g
        BY <1>1, <1>3, <4>1, <4>2
      <4> HIDE DEF down
      <4> QED
        BY <3>2, <4>3
    <3> QED
      BY <3>1, <3>2
  <2> HIDE DEF next
  <2>2. (CHOOSE f \in others : next(f)) \in others
    BY <2>1
  <2>3. NextAlt(font, increase) = CHOOSE f \in others : next(f)
    BY <1>3, Zenon DEF NextAlt, next
  <2>4. others \subseteq 0 .. MAX_FONT_COUNT - 1
    BY <1>1 DEF MAX_FONT_COUNT
  <2> QED
    BY <2>2, <2>3, <2>4
<1> QED
  BY <1>2, <1>3

LEMMA ToggleProper ==
  ASSUME NEW s, Good(s), NEW name \in StoredFlags
  PROVE  Proper(s, Toggle(s, name)) /\ Good(Toggle(s, name))
  BY FlagProper DEF Toggle, Proper, Step

\* A line of the menu is changed.
LEMMA SetEntryProper ==
  ASSUME NEW s, Good(s), NEW increase \in BOOLEAN
  PROVE  Proper(s, SetEntry(s, increase))
<1>1. Proper(s, LET chosen == [s EXCEPT !.cfg_machine = NextMachine(@, increase)]
                IN  set_machine(chosen, Effective(chosen)))
  <2> DEFINE chosen == [s EXCEPT !.cfg_machine = NextMachine(@, increase)]
             t      == set_machine(chosen, Effective(chosen))
  <2>1. /\ DOMAIN chosen = Fields
        /\ chosen.cfg_machine = NextMachine(s.cfg_machine, increase)
        /\ \A f \in Fields \ {"cfg_machine"} : chosen[f] = s[f]
    BY DEF Good, Fields
  <2> HIDE DEF chosen
  <2>3. chosen.cfg_machine \in Machine
    BY <2>1, GoodRanges, NextMachineRange
  <2>4. Good(chosen)
    BY <2>1, <2>3 DEF Good, SettingsOK, Follow, Fields
  <2>5. Effective(chosen) \in Machine
    BY <2>4, GoodRanges DEF Effective
  <2>6. Step(s, chosen) /\ Quiet(s, chosen) /\ KeepsLocal(s, chosen)
    BY <2>1, <2>4 DEF Step, Quiet, Renews, ReadsDirectory, KeepsUpload, KeepsLocal, Fields
  <2>7. /\ Step(chosen, t) /\ Quiet(chosen, t) /\ KeepsLocal(chosen, t)
        /\ InEffect(t)
    BY <2>4, <2>5, SetMachineStep
  <2> HIDE DEF t
  <2>8. Step(s, t) /\ Quiet(s, t) /\ KeepsLocal(s, t)
    BY <2>6, <2>7, StepTwice DEF Quiet, KeepsLocal
  <2>9. Proper(s, t)
    BY <2>7, <2>8 DEF Proper
  <2> QED
    BY <2>9, Zenon DEF t, chosen
<1>2. Proper(s, LET font == Stepped(s.cfg_local_charset, increase, 0, MAX_FONT_COUNT - 1)
                IN  Reload([s EXCEPT !.cfg_local_charset = font],
                           font # s.cfg_local_charset, Local))
  <2> DEFINE font  == Stepped(s.cfg_local_charset, increase, 0, MAX_FONT_COUNT - 1)
             other == [s EXCEPT !.cfg_local_charset = font]
             t     == Reload(other, font # s.cfg_local_charset, Local)
  <2>1. /\ font \in 0 .. MAX_FONT_COUNT
        /\ font = MAX_FONT_COUNT => s.cfg_local_charset = MAX_FONT_COUNT
    <3>1. MAX_FONT_COUNT - 1 \in Int /\ MAX_FONT_COUNT \in Int
      BY DEF MAX_FONT_COUNT
    <3>2. CASE s.cfg_local_charset \in 0 .. MAX_FONT_COUNT - 1
      <4>1. \A high \in Int : s.cfg_local_charset \in 0 .. high =>
              Stepped(s.cfg_local_charset, increase, 0, high) \in 0 .. high
        BY SteppedRange
      <4>2. font \in 0 .. MAX_FONT_COUNT - 1
        BY <3>1, <3>2, <4>1
      <4> HIDE DEF font
      <4> QED
        BY <4>2 DEF MAX_FONT_COUNT
    <3>3. CASE s.cfg_local_charset = MAX_FONT_COUNT
      <4>1. ~ (s.cfg_local_charset < MAX_FONT_COUNT - 1)
        BY <3>3 DEF MAX_FONT_COUNT
      <4>2. font \in {s.cfg_local_charset, s.cfg_local_charset - 1}
        BY <4>1, Zenon DEF Stepped
      <4> HIDE DEF font
      <4> QED
        BY <3>3, <4>2 DEF MAX_FONT_COUNT
    <3> QED
      BY <3>2, <3>3, GoodRanges DEF MAX_FONT_COUNT
  <2> HIDE DEF font
  <2>2. /\ DOMAIN other = Fields /\ other.cfg_local_charset = font
        /\ \A f \in Fields \ {"cfg_local_charset"} : other[f] = s[f]
    BY DEF Good, Fields
  <2> HIDE DEF other
  <2>3. /\ DOMAIN t = Fields /\ t.cfg_local_charset = font
        /\ font # s.cfg_local_charset => Local \in t.reload_charsets
        /\ t.reload_charsets \in {s.reload_charsets, s.reload_charsets \cup {Local}}
        /\ \A f \in Fields \ {"cfg_local_charset", "reload_charsets"} : t[f] = s[f]
    BY <2>2 DEF Reload, Fields
  <2> HIDE DEF t
  <2>4. Proper(s, t)
    BY <2>1, <2>3, LocalProper
  <2> QED
    BY <2>4, Zenon DEF t, other, font
<1>3. Proper(s, LET mode == [s EXCEPT !.input_switch_mode =
                        Stepped(@, increase, ModeSwitchDisabled, ModeSwitchLangCycle)]
                IN  IF LANGUAGE_SWITCH_ENABLED(mode) THEN mode
                    ELSE [mode EXCEPT !.language_switch = FALSE])
  <2> DEFINE n    == Stepped(s.input_switch_mode, increase, ModeSwitchDisabled,
                             ModeSwitchLangCycle)
             mode == [s EXCEPT !.input_switch_mode = n]
             off  == [mode EXCEPT !.language_switch = FALSE]
  <2>1. n \in ModeSwitchDisabled .. ModeSwitchLangCycle
    <3>1. ModeSwitchDisabled \in Int /\ ModeSwitchLangCycle \in Int
      BY DEF ModeSwitchDisabled, ModeSwitchLangCycle
    <3> QED
      BY <3>1, GoodRanges, SteppedRange
  <2> HIDE DEF n
  <2>2. Proper(s, mode) /\ Good(mode)
    BY <2>1, ModeProper
  <2> HIDE DEF mode
  <2>3. Proper(s, off)
    BY <2>2, LanguagePresents, PresentsProper, ProperTwice
  <2> QED
    BY <2>2, <2>3, Zenon DEF off, mode, n
<1>4. Proper(s, LET font == NextAlt(s.cfg_alt_charset, increase)
                IN  Reload([s EXCEPT !.cfg_alt_charset = font],
                           font # s.cfg_alt_charset, Alternate))
  <2> DEFINE font  == NextAlt(s.cfg_alt_charset, increase)
             other == [s EXCEPT !.cfg_alt_charset = font]
             t     == Reload(other, font # s.cfg_alt_charset, Alternate)
  <2>1. font \in 0 .. MAX_FONT_COUNT - 1
    BY GoodRanges, NextAltRange
  <2> HIDE DEF font
  <2>2. /\ DOMAIN other = Fields /\ other.cfg_alt_charset = font
        /\ \A f \in Fields \ {"cfg_alt_charset"} : other[f] = s[f]
    BY DEF Good, Fields
  <2> HIDE DEF other
  <2>3. /\ DOMAIN t = Fields /\ t.cfg_alt_charset = font
        /\ font # s.cfg_alt_charset => Alternate \in t.reload_charsets
        /\ t.reload_charsets \in {s.reload_charsets, s.reload_charsets \cup {Alternate}}
        /\ \A f \in Fields \ {"cfg_alt_charset", "reload_charsets"} : t[f] = s[f]
    BY <2>2 DEF Reload, Fields
  <2> HIDE DEF t
  <2>4. Proper(s, t)
    BY <2>1, <2>3, AlternateProper
  <2> QED
    BY <2>4, Zenon DEF t, other, font
<1>5. Proper(s, [s EXCEPT !.color_mode = Stepped(@, increase, 0, 2)])
  <2>1. Stepped(s.color_mode, increase, 0, 2) \in 0 .. 2
    BY GoodRanges, SteppedRange
  <2> QED
    BY <2>1, ColorProper
<1>6. \A name \in StoredFlags : Proper(s, Toggle(s, name))
  BY ToggleProper
<1>7. Proper(s, config_setflags([s EXCEPT !.rendering_fx =
                                    Stepped(@, increase, 0, FX_DGR_ONLY)]))
  <2> DEFINE n == Stepped(s.rendering_fx, increase, 0, FX_DGR_ONLY)
             w == [s EXCEPT !.rendering_fx = n]
  <2>1. n \in FX_NONE .. FX_DGR_ONLY
    <3>1. 0 \in Int /\ FX_DGR_ONLY \in Int /\ FX_NONE = 0
      BY DEF FX_NONE, FX_DGR_ONLY
    <3> QED
      BY <3>1, GoodRanges, SteppedRange
  <2> HIDE DEF n
  <2>2. DOMAIN w = Fields /\ w.rendering_fx = n
        /\ \A f \in Fields \ {"rendering_fx"} : w[f] = s[f]
    BY DEF Good, Fields
  <2> HIDE DEF w
  <2>3. Proper(s, config_setflags(w))
    BY <2>1, <2>2, EffectsProper
  <2> QED
    BY <2>3, Zenon DEF w, n
<1>8. Proper(s, LET v7 == Toggle(s, "VIDEO7")
                IN  IF "VIDEO7" \in v7.internal_flags
                    THEN [v7 EXCEPT !.soft_switches = @ \cup {"V7_MODE1", "V7_MODE2"}]
                    ELSE v7)
  <2> DEFINE v7 == Toggle(s, "VIDEO7")
  <2>1. Proper(s, v7) /\ Good(v7)
    BY ToggleProper DEF StoredFlags
  <2> HIDE DEF v7
  <2>2. Proper(s, [v7 EXCEPT !.soft_switches = @ \cup {"V7_MODE1", "V7_MODE2"}])
    BY <2>1, SwitchesPresents, PresentsProper, ProperTwice
  <2> QED
    BY <2>1, <2>2, Zenon DEF v7
<1>9. Proper(s, LET n == Stepped(s.cfg_videx_selection, increase, 0, VIDEX_FONT_COUNT)
                IN  Flag(Reload([s EXCEPT !.cfg_videx_selection = n],
                                n # s.cfg_videx_selection /\ n > 0, Videx),
                         n > 0, "VIDEX"))
  <2> DEFINE n     == Stepped(s.cfg_videx_selection, increase, 0, VIDEX_FONT_COUNT)
             other == [s EXCEPT !.cfg_videx_selection = n]
             w     == Reload(other, n # s.cfg_videx_selection /\ n > 0, Videx)
  <2>1. n \in 0 .. VIDEX_FONT_COUNT
    <3>1. 0 \in Int /\ VIDEX_FONT_COUNT \in Int
      BY DEF VIDEX_FONT_COUNT
    <3> QED
      BY <3>1, GoodRanges, SteppedRange
  <2> HIDE DEF n
  <2>2. /\ DOMAIN other = Fields /\ other.cfg_videx_selection = n
        /\ \A f \in Fields \ {"cfg_videx_selection"} : other[f] = s[f]
    BY DEF Good, Fields
  <2> HIDE DEF other
  <2>3. /\ DOMAIN w = Fields /\ w.cfg_videx_selection = n
        /\ w.reload_charsets \in {s.reload_charsets, s.reload_charsets \cup {Videx}}
        /\ \A f \in Fields \ {"cfg_videx_selection", "reload_charsets"} : w[f] = s[f]
    BY <2>2 DEF Reload, Fields
  <2> HIDE DEF w
  <2>4. Proper(s, Flag(w, n > 0, "VIDEX"))
    BY <2>1, <2>3, VidexProper
  <2> QED
    BY <2>4, Zenon DEF w, other, n
<1>10. Proper(s, Flag(Toggle(s, "DEBUG_LINES"), FALSE, "TEST"))
  <2>1. Proper(s, Toggle(s, "DEBUG_LINES")) /\ Good(Toggle(s, "DEBUG_LINES"))
    BY ToggleProper DEF StoredFlags
  <2> QED
    BY <2>1, FlagProper, ProperTwice DEF StoredFlags
<1>11. Proper(s, s) /\ Proper(s, Toggle(s, "FORCED_MONO"))
       /\ Proper(s, Toggle(s, "SCANLINEEMU"))
  BY <1>6, StepItself DEF StoredFlags
<1> QED
  BY ONLY <1>1, <1>2, <1>3, <1>4, <1>5, <1>7, <1>8, <1>9, <1>10, <1>11, Zenon DEF SetEntry

-----------------------------------------------------------------------------
(* The keys.                                                               *)

\* Every key leads to an entry of the menu.
LEMMA EntryRange ==
  ASSUME NEW s, Good(s), NEW key \in Byte
  PROVE  Entry(s, key) \in 0 .. MENU_ENTRY_COUNT - 1
<1> DEFINE range == 0 .. MENU_ENTRY_COUNT - 1
           c     == s.CurrentMenu
<1>1. range = 0 .. 16 /\ c \in range
  BY GoodRanges DEF MENU_ENTRY_COUNT
<1>2. \A entry \in range : \A other \in range : Skip(s, entry, other) \in range
  BY DEF Skip
<1>3. EntrySwitch \in range /\ EntryAlt + 1 \in range
  BY <1>1 DEF EntrySwitch, EntryAlt
<1>4. key \in Digits => Skip(s, key - 48, EntrySwitch) \in range
  <2>1. key \in Digits => key - 48 \in range
    BY <1>1 DEF Digits, Byte
  <2> QED
    BY <1>2, <1>3, <2>1
<1>5. key \in DOMAIN Jump => Jump[key] \in range
  <2>1. {EntryDebug, EntryRestore, EntryLoad, EntrySave, EntryAbout, EntryAbout + 1,
         EntryTest} \subseteq range
    BY <1>1 DEF EntryDebug, EntryRestore, EntryLoad, EntrySave, EntryAbout, EntryTest,
       MENU_OFS_NONCFG
  <2> HIDE DEF range
  <2> DEFINE d == 68
             r == 82
             l == 76
             v == 83
             a == 65
             b == 66
             t == 84
  <2>2. Jump = [k \in {d, r, l, v, a, b, t} |->
                  CASE k = d -> EntryDebug [] k = r -> EntryRestore
                    [] k = l -> EntryLoad  [] k = v -> EntrySave
                    [] k = a -> EntryAbout [] k = b -> EntryAbout + 1
                    [] k = t -> EntryTest]
    BY Zenon DEF Jump
  <2> HIDE DEF d, r, l, v, a, b, t
  <2>3. ASSUME NEW k \in {d, r, l, v, a, b, t}
        PROVE  (CASE k = d -> EntryDebug [] k = r -> EntryRestore
                  [] k = l -> EntryLoad  [] k = v -> EntrySave
                  [] k = a -> EntryAbout [] k = b -> EntryAbout + 1
                  [] k = t -> EntryTest) \in range
    BY <2>1, <2>3, Zenon
  <2> QED
    BY <2>2, <2>3, Zenon
<1>6. c > 0 => Skip(s, c - 1, EntrySwitch) \in range
  <2>1. c > 0 => c - 1 \in range
    BY <1>1
  <2> QED
    BY <1>1, <1>2, <1>3, <2>1
<1>7. c < MENU_ENTRY_COUNT - 1 => Skip(s, c + 1, EntryAlt + 1) \in range
  <2>1. c < MENU_ENTRY_COUNT - 1 => c + 1 \in range
    BY <1>1 DEF MENU_ENTRY_COUNT
  <2> QED
    BY <1>2, <1>3, <2>1
<1>8. /\ c >= EntryAbout => c - 3 \in range
      /\ c >= MENU_OFS_NONCFG /\ c + 3 < MENU_ENTRY_COUNT => c + 3 \in range
      /\ MENU_ENTRY_COUNT - 1 \in range /\ 0 \in range
  BY <1>1 DEF EntryAbout, MENU_OFS_NONCFG, MENU_ENTRY_COUNT
<1> HIDE DEF range
<1>9. Entry(s, key) \in range
  BY ONLY <1>1, <1>4, <1>5, <1>6, <1>7, <1>8, Zenon DEF Entry
<1> QED
  BY <1>9 DEF range

\* What the menu does for a key: it leaves the flash alone, or it saves.
Handled(s, t) ==
  /\ Step(s, t) /\ KeepsLocal(s, t)
  /\ InEffect(s) => InEffect(t)
  /\ Quiet(s, t) \/ Saved(s, t)

LEMMA ProperHandled ==
  ASSUME NEW s, NEW t, Proper(s, t)
  PROVE  Handled(s, t) /\ Good(t)
  BY DEF Proper, Handled, Step

LEMMA HandledAfter ==
  ASSUME NEW s, NEW t, NEW u, Proper(s, t), SameChoice(s, t), Handled(t, u)
  PROVE  Handled(s, u)
<1>1. Step(s, u)
  BY StepTwice DEF Proper, Handled
<1>2. Quiet(t, u) => Quiet(s, u)
  BY DEF Proper, Quiet
<1>3. Saved(t, u) => Saved(s, u)
  BY DEF Proper, Quiet, Saved, SameChoice
<1> QED
  BY <1>1, <1>2, <1>3 DEF Handled, Proper, KeepsLocal

LEMMA HandledBefore ==
  ASSUME NEW s, Good(s), NEW t, NEW u, Handled(s, t), Presents(t, u)
  PROVE  Handled(s, u)
<1>1. Good(t) /\ Good(u) /\ Proper(t, u) /\ SameChoice(t, u)
  BY PresentsProper DEF Handled, Step
<1>2. u.invalid_fonts = t.invalid_fonts /\ u.flash = t.flash /\ u.trail = t.trail
  BY DEF Presents, Fields, Shown
<1>3. Step(s, u)
  BY <1>1, <1>2 DEF Handled, Proper, Step, Renews, ReadsDirectory, KeepsUpload
<1>4. Quiet(s, t) => Quiet(s, u)
  BY <1>2 DEF Quiet
<1>5. Saved(s, t) => Saved(s, u)
  <2>1. Stored(u) = Stored(t)
    BY <1>1, SameSettings
  <2> QED
    BY <1>1, <1>2, <2>1 DEF Saved, SameChoice
<1> QED
  BY <1>1, <1>3, <1>4, <1>5 DEF Handled, Proper, KeepsLocal

LEMMA SaveHandled ==
  ASSUME NEW s, Good(s)
  PROVE  Handled(s, config_save(s)) /\ Good(config_save(s))
<1> DEFINE t      == config_save(s)
           erased == Flashed(s, [s.flash EXCEPT !.config = Erased])
<1>1. /\ DOMAIN erased = Fields
      /\ erased.flash = [s.flash EXCEPT !.config = Erased]
      /\ erased.trail = Append(s.trail, [s.flash EXCEPT !.config = Erased])
      /\ \A f \in Fields \ {"flash", "trail"} : erased[f] = s[f]
  BY DEF Flashed, Good, Fields
<1>2. t = Flashed(erased, [erased.flash EXCEPT !.config = Stored(s)])
  BY Zenon DEF config_save, config_write
<1> HIDE DEF erased, t
<1>3. /\ DOMAIN t = Fields
      /\ t.flash = [erased.flash EXCEPT !.config = Stored(s)]
      /\ t.trail = Append(erased.trail, t.flash)
      /\ \A f \in Fields \ {"flash", "trail"} : t[f] = s[f]
  BY <1>1, <1>2 DEF Flashed, Fields
<1>4. t.flash = [s.flash EXCEPT !.config = Stored(s)]
  BY <1>1, <1>3
<1>5. Good(t)
  BY <1>3 DEF Good, SettingsOK, Follow, Fields
<1>6. SameChoice(s, t)
  BY <1>3 DEF SameChoice, Fields
<1>7. Saved(s, t)
  BY <1>1, <1>3, <1>4, <1>5, <1>6, SameSettings DEF Saved
<1>8. Step(s, t) /\ KeepsLocal(s, t) /\ (InEffect(s) => InEffect(t))
  BY <1>3, <1>5 DEF Step, Renews, ReadsDirectory, KeepsUpload, KeepsLocal, InEffect,
     Effective, Fields
<1> QED
  BY <1>5, <1>7, <1>8 DEF Handled, t

\* Defaults and a load are followed by the machine that they call for.
LEMMA ReloadProper ==
  ASSUME NEW s, Good(s), NEW d, Reloads(s, d)
  PROVE  Proper(s, set_machine(d, Effective(d)))
<1> DEFINE t == set_machine(d, Effective(d))
<1>1. Good(d) /\ Step(s, d) /\ Quiet(s, d) /\ KeepsLocal(s, d)
  BY DEF Reloads, Step, KeepsLocal
<1>2. Effective(d) \in Machine
  BY <1>1, GoodRanges DEF Effective
<1>3. Step(d, t) /\ Quiet(d, t) /\ KeepsLocal(d, t) /\ InEffect(t)
  BY <1>1, <1>2, SetMachineStep
<1> HIDE DEF t
<1>4. Step(s, t) /\ Quiet(s, t) /\ KeepsLocal(s, t)
  BY <1>1, <1>3, StepTwice DEF Quiet, KeepsLocal
<1>5. Proper(s, t)
  BY <1>3, <1>4 DEF Proper
<1> QED
  BY <1>5 DEF t

\* An entry of the menu that has no value is selected.
LEMMA RunEntryHandled ==
  ASSUME NEW s, Good(s), FlashOK(s.flash)
  PROVE  Handled(s, RunEntry(s))
<1>1. Handled(s, LET d == config_load_defaults(s) IN set_machine(d, Effective(d)))
  <2> DEFINE d == config_load_defaults(s)
  <2>1. Reloads(s, d)
    BY DefaultsStep
  <2> HIDE DEF d
  <2>2. Handled(s, set_machine(d, Effective(d)))
    BY <2>1, ReloadProper, ProperHandled
  <2> QED
    BY <2>2, Zenon DEF d
<1>2. Handled(s, LET d == config_load(s) IN set_machine(d, Effective(d)))
  <2> DEFINE d == config_load(s)
  <2>1. Reloads(s, d)
    BY ConfigLoad, Zenon
  <2> HIDE DEF d
  <2>2. Handled(s, set_machine(d, Effective(d)))
    BY <2>1, ReloadProper, ProperHandled
  <2> QED
    BY <2>2, Zenon DEF d
<1>3. Handled(s, [menuShowFrame(config_save(s), "saved") EXCEPT
                    !.IgnoreNextKeypress = TRUE])
  <2> DEFINE saved == config_save(s)
             page  == menuShowFrame(saved, "saved")
  <2>1. Handled(s, saved) /\ Good(saved)
    BY SaveHandled
  <2> HIDE DEF saved
  <2>2. Presents(saved, page) /\ Good(page)
    BY <2>1, FramePresents, PresentsProper
  <2> HIDE DEF page
  <2>3. Presents(saved, [page EXCEPT !.IgnoreNextKeypress = TRUE])
    BY <2>2, IgnorePresents, PresentsTwice
  <2> QED
    BY <2>1, <2>3, HandledBefore DEF page, saved
<1>4. Handled(s, [menuShowTest(s) EXCEPT !.IgnoreNextKeypress = TRUE])
  <2> DEFINE page == menuShowTest(s)
  <2>1. Presents(s, page) /\ Good(page)
    BY TestPresents, PresentsProper
  <2> HIDE DEF page
  <2>2. Presents(s, [page EXCEPT !.IgnoreNextKeypress = TRUE])
    BY <2>1, IgnorePresents, PresentsTwice
  <2> QED
    BY <2>2, PresentsProper, ProperHandled DEF page
<1>5. Handled(s, [menuShowFrame(s, "info") EXCEPT !.IgnoreNextKeypress = TRUE])
  <2> DEFINE page == menuShowFrame(s, "info")
  <2>1. Presents(s, page) /\ Good(page)
    BY FramePresents, PresentsProper
  <2> HIDE DEF page
  <2>2. Presents(s, [page EXCEPT !.IgnoreNextKeypress = TRUE])
    BY <2>1, IgnorePresents, PresentsTwice
  <2> QED
    BY <2>2, PresentsProper, ProperHandled DEF page
<1> QED
  BY ONLY <1>1, <1>2, <1>3, <1>4, <1>5, Zenon DEF RunEntry

LEMMA SelectionHandled ==
  ASSUME NEW s, Good(s), FlashOK(s.flash), NEW increase \in BOOLEAN
  PROVE  Handled(s, menuDoSelection(s, increase))
<1>1. Handled(s, SetEntry(s, increase)) /\ Handled(s, RunEntry(s)) /\ Handled(s, s)
  BY SetEntryProper, RunEntryHandled, StepItself, ProperHandled
<1> QED
  BY <1>1, Zenon DEF menuDoSelection

\* A key, whatever it means.
LEMMA KeysHandled ==
  ASSUME NEW s, Good(s), FlashOK(s.flash), NEW char \in Byte
  PROVE  Handled(s, menuCheckKeys(s, char))
<1> DEFINE key   == Upper(char)
           moved == [s EXCEPT !.CurrentMenu = Entry(s, key)]
           cmd   == [moved EXCEPT !.MenuNeedsRedraw = TRUE]
<1>1. key \in Byte
  BY DEF Upper, Byte
<1> HIDE DEF key
<1>2. Presents(s, moved) /\ Good(moved)
  BY <1>1, EntryRange, MovePresents, PresentsProper
<1> HIDE DEF moved
<1>3. Presents(s, cmd)
  BY <1>2, RedrawPresents, PresentsTwice
<1>4. Proper(s, cmd) /\ SameChoice(s, cmd) /\ Good(cmd) /\ FlashOK(cmd.flash)
  BY <1>3, PresentsProper DEF Presents, Fields, Shown
<1> HIDE DEF cmd
<1>5. \A increase \in BOOLEAN : Handled(s, menuDoSelection(cmd, increase))
  BY <1>4, SelectionHandled, HandledAfter
<1>6. Handled(s, moved) /\ Handled(s, s)
  BY <1>2, PresentsProper, StepItself, ProperHandled
<1>7. Handled(s, Flag(s, FALSE, "MENU_ENABLE"))
  BY FlagProper, ProperHandled
<1>8. Handled(s, IF "DEBUG_LINES" \in s.internal_flags THEN Toggle(s, "TEST") ELSE s)
  <2>1. "TEST" \in StoredFlags
    BY DEF StoredFlags
  <2> QED
    BY <1>6, <2>1, ToggleProper, ProperHandled
<1> QED
  BY <1>5, <1>6, <1>7, <1>8, Zenon DEF menuCheckKeys, key, moved, cmd

LEMMA MenuShowHandled ==
  ASSUME NEW s, Good(s), FlashOK(s.flash), NEW key \in Byte
  PROVE  Handled(s, menuShow(s, key))
<1> DEFINE opened == [s EXCEPT !.CurrentMenu = 0, !.MenuNeedsRedraw = TRUE,
                               !.IgnoreNextKeypress = FALSE]
           redraw == [s EXCEPT !.MenuNeedsRedraw = TRUE]
           begun  == CASE key = KeyOpen -> opened
                       [] key = KeyRefresh -> redraw
                       [] OTHER -> s
<1>1. Presents(s, opened)
  <2>1. 0 \in 0 .. MENU_ENTRY_COUNT - 1
    BY DEF MENU_ENTRY_COUNT
  <2> QED
    BY <2>1, PresentsItself DEF Presents, Fields, Shown
<1>2. Presents(s, redraw) /\ Presents(s, s)
  BY RedrawPresents, PresentsItself
<1> HIDE DEF opened, redraw
<1>3. Presents(s, begun)
  BY <1>1, <1>2, Zenon
<1> HIDE DEF begun
<1>4. Proper(s, begun) /\ SameChoice(s, begun) /\ Good(begun) /\ FlashOK(begun.flash)
  BY <1>3, PresentsProper DEF Presents, Fields, Shown
<1>5. Handled(s, DrawMenu([begun EXCEPT !.IgnoreNextKeypress = FALSE]))
  <2> DEFINE page == [begun EXCEPT !.IgnoreNextKeypress = FALSE]
  <2>1. Presents(s, page) /\ Good(page)
    BY <1>3, <1>4, IgnorePresents, PresentsTwice, PresentsProper
  <2> HIDE DEF page
  <2>2. Presents(s, DrawMenu(page))
    BY <2>1, DrawPresents, PresentsTwice
  <2> QED
    BY <2>2, PresentsProper, ProperHandled DEF page
<1> DEFINE t == menuCheckKeys(begun, key)
<1>6. Handled(s, t) /\ Good(t)
  BY <1>4, KeysHandled, HandledAfter DEF Handled, Step
<1> HIDE DEF t
<1>7. Handled(s, DrawMenu(t))
  BY <1>6, DrawPresents, HandledBefore
<1> QED
  BY <1>5, <1>6, <1>7, Zenon DEF menuShow, t, begun, opened, redraw

\* What opens the menu, and what core 0 sends, are not keys: the menu is only drawn.
LEMMA RefreshPresents ==
  ASSUME NEW s, Good(s), NEW key \in {KeyOpen, KeyRefresh}
  PROVE  Presents(s, menuShow(s, key))
<1> DEFINE opened == [s EXCEPT !.CurrentMenu = 0, !.MenuNeedsRedraw = TRUE,
                               !.IgnoreNextKeypress = FALSE]
           redraw == [s EXCEPT !.MenuNeedsRedraw = TRUE]
           begun  == CASE key = KeyOpen -> opened
                       [] key = KeyRefresh -> redraw
                       [] OTHER -> s
           page   == [begun EXCEPT !.IgnoreNextKeypress = FALSE]
           moved  == [begun EXCEPT !.CurrentMenu = Entry(begun, key)]
<1>1. /\ key \in Byte /\ Upper(key) = key /\ key # Escape /\ key # Bang
      /\ key \notin LeftKeys /\ key \notin RightKeys /\ key \notin EnterKeys
  BY DEF KeyRefresh, KeyOpen, Escape, Bang, Upper, Byte, LeftKeys, RightKeys, EnterKeys
<1>2. key \notin DOMAIN Jump
  <2>1. DOMAIN Jump = {68, 82, 76, 83, 65, 66, 84}
    BY Zenon DEF Jump
  <2> QED
    BY <2>1 DEF KeyOpen, KeyRefresh
<1>3. Presents(s, begun) /\ Good(begun)
  <2>1. Presents(s, opened)
    <3>1. 0 \in 0 .. MENU_ENTRY_COUNT - 1
      BY DEF MENU_ENTRY_COUNT
    <3> QED
      BY <3>1, PresentsItself DEF Presents, Fields, Shown
  <2>2. Presents(s, redraw) /\ Presents(s, s)
    BY RedrawPresents, PresentsItself
  <2> HIDE DEF opened, redraw
  <2>3. Presents(s, begun)
    BY <2>1, <2>2, Zenon
  <2> QED
    BY <2>3, PresentsProper
<1> HIDE DEF begun
<1>4. Presents(s, page) /\ Good(page)
  BY <1>3, IgnorePresents, PresentsTwice, PresentsProper
<1>5. Presents(s, moved) /\ Good(moved)
  BY <1>1, <1>3, EntryRange, MovePresents, PresentsTwice, PresentsProper
<1> HIDE DEF page, moved
<1>6. Presents(s, DrawMenu(page)) /\ Presents(s, DrawMenu(moved))
  BY <1>4, <1>5, DrawPresents, PresentsTwice
<1>7. ~ Increases(begun, key) /\ ~ Decreases(begun, key)
  BY <1>1, <1>2 DEF Increases, Decreases
<1>8. menuCheckKeys(begun, key) = moved
  BY <1>1, <1>7, Zenon DEF menuCheckKeys, moved
<1> QED
  BY <1>5, <1>6, <1>8, Zenon DEF menuShow, begun, opened, redraw, page

-----------------------------------------------------------------------------
(* The switch.                                                             *)

LEMMA CycleProper ==
  ASSUME NEW s, Good(s), NEW color \in BOOLEAN
  PROVE  Proper(s, cycle_display_modes(s, color))
<1> DEFINE last == s.color_mode >= COLOR_MODE_AMBER
           new  == IF last THEN COLOR_MODE_BW ELSE s.color_mode + 1
           tint == [s EXCEPT !.color_mode = IF last THEN COLOR_MODE_BW ELSE @ + 1]
<1>1. new \in 0 .. 2
  BY GoodRanges DEF COLOR_MODE_AMBER, COLOR_MODE_BW
<1>2. Proper(s, tint) /\ Good(tint)
  <2>1. tint = [s EXCEPT !.color_mode = new]
    OBVIOUS
  <2> HIDE DEF new, tint
  <2> QED
    BY <1>1, <2>1, ColorProper
<1> HIDE DEF last, new, tint
<1>3. "SCANLINEEMU" \in StoredFlags /\ "FORCED_MONO" \in StoredFlags
  BY DEF StoredFlags
<1>4. Proper(s, Flag(tint, FALSE, "FORCED_MONO")) /\ Proper(s, Toggle(tint, "SCANLINEEMU"))
  BY <1>2, <1>3, FlagProper, ToggleProper, ProperTwice
<1>5. Proper(s, Flag(Toggle(s, "SCANLINEEMU"), TRUE, "FORCED_MONO"))
  <2>1. Proper(s, Toggle(s, "SCANLINEEMU")) /\ Good(Toggle(s, "SCANLINEEMU"))
    BY <1>3, ToggleProper
  <2> QED
    BY <1>3, <2>1, FlagProper, ProperTwice
<1> QED
  BY <1>2, <1>4, <1>5, Zenon DEF cycle_display_modes, tint, last

LEMMA SwitchedProper ==
  ASSUME NEW s, Good(s), NEW on \in BOOLEAN, NEW quick \in BOOLEAN, NEW color \in BOOLEAN
  PROVE  Proper(s, switched(s, on, quick, color))
<1> DEFINE language == [s EXCEPT !.language_switch = on]
<1>1. Proper(s, language) /\ Good(language)
  BY LanguagePresents, PresentsProper
<1> HIDE DEF language
<1>2. "FORCED_MONO" \in StoredFlags
  BY DEF StoredFlags
<1>3. Proper(s, Flag(s, on, "FORCED_MONO")) /\ Proper(s, s)
  BY <1>2, FlagProper, StepItself
<1>4. Proper(s, cycle_display_modes(s, color))
      /\ Proper(s, cycle_display_modes(language, color))
  BY <1>1, CycleProper, ProperTwice
<1>5. Proper(s, Toggle(language, "FORCED_MONO"))
  BY <1>1, <1>2, ToggleProper, ProperTwice
<1> QED
  BY <1>1, <1>3, <1>4, <1>5, Zenon DEF switched, language

LEMMA SwitchProper ==
  ASSUME NEW s, Good(s), NEW on \in BOOLEAN, NEW quick \in BOOLEAN, NEW color \in BOOLEAN
  PROVE  Proper(s, update_toggle_switch(s, on, quick, color))
<1> DEFINE moved == switched(s, on, quick, color)
           done  == [moved EXCEPT !.debounce_last = on]
<1>1. Proper(s, moved) /\ Good(moved)
  BY SwitchedProper DEF Proper, Step
<1> HIDE DEF moved
<1>2. Proper(s, done) /\ Good(done)
  BY <1>1, DebouncePresents, PresentsProper, ProperTwice
<1> HIDE DEF done
<1>3. Proper(s, menuShow(done, KeyRefresh))
  BY <1>2, RefreshPresents, PresentsProper, ProperTwice
<1> QED
  BY <1>2, <1>3, Zenon DEF update_toggle_switch, done, moved

-----------------------------------------------------------------------------
(* The registers that change a setting.                                    *)

LEMMA SetOrClearProper ==
  ASSUME NEW s, Good(s), NEW data, NEW set, NEW clear, NEW flag \in StoredFlags
  PROVE  Proper(s, SetOrClear(s, data, set, clear, flag))
<1> DEFINE on == IF Bit(data, set) THEN Flag(s, TRUE, flag) ELSE s
<1>1. Proper(s, on) /\ Good(on)
  BY FlagProper, StepItself DEF Proper, Step
<1> HIDE DEF on
<1>2. Proper(s, Flag(on, FALSE, flag))
  BY <1>1, FlagProper, ProperTwice
<1> QED
  BY <1>1, <1>2, Zenon DEF SetOrClear, on

LEMMA ColorRegProper ==
  ASSUME NEW s, Good(s), NEW data \in Byte
  PROVE  Proper(s, color_reg(s, data))
<1> DEFINE color == IF data % 4 # 0 THEN [s EXCEPT !.color_mode = (data % 4) - 1] ELSE s
<1>1. Proper(s, color) /\ Good(color)
  <2>1. data % 4 # 0 => (data % 4) - 1 \in 0 .. 2
    BY DEF Byte
  <2> QED
    BY <2>1, ColorProper, StepItself
<1> HIDE DEF color
<1>2. Proper(s, SetOrClear(color, data, 64, 128, "FORCED_MONO"))
  BY <1>1, SetOrClearProper, ProperTwice DEF StoredFlags
<1> QED
  BY <1>2, Zenon DEF color_reg, color

LEMMA FontRegProper ==
  ASSUME NEW s, Good(s), NEW data \in Byte
  PROVE  /\ Proper(s, charset_reg(s, data, "cfg_local_charset", Local))
         /\ Proper(s, charset_reg(s, data, "cfg_alt_charset", Alternate))
<1> DEFINE local == [s EXCEPT !["cfg_local_charset"] = data,
                              !.reload_charsets = @ \cup {Local}]
           alt   == [s EXCEPT !["cfg_alt_charset"] = data,
                              !.reload_charsets = @ \cup {Alternate}]
<1>1. /\ DOMAIN local = Fields /\ local.cfg_local_charset = data
      /\ local.reload_charsets = s.reload_charsets \cup {Local}
      /\ \A f \in Fields \ {"cfg_local_charset", "reload_charsets"} : local[f] = s[f]
  BY DEF Good, Fields
<1>2. /\ DOMAIN alt = Fields /\ alt.cfg_alt_charset = data
      /\ alt.reload_charsets = s.reload_charsets \cup {Alternate}
      /\ \A f \in Fields \ {"cfg_alt_charset", "reload_charsets"} : alt[f] = s[f]
  BY DEF Good, Fields
<1> HIDE DEF local, alt
<1>3. ASSUME data < MAX_FONT_COUNT
      PROVE  Proper(s, local) /\ Proper(s, alt)
  <2>1. data \in 0 .. MAX_FONT_COUNT /\ data # MAX_FONT_COUNT
        /\ data \in 0 .. MAX_FONT_COUNT - 1
    BY <1>3 DEF Byte, MAX_FONT_COUNT
  <2>2. Proper(s, local)
    BY <1>1, <2>1, LocalProper
  <2>3. Proper(s, alt)
    BY <1>2, <2>1, AlternateProper
  <2> QED
    BY <2>2, <2>3
<1>4. Proper(s, s)
  BY StepItself
<1> QED
  BY <1>3, <1>4, Zenon DEF charset_reg, local, alt

\* The chosen machine takes effect later, with a load or the next detection.
LEMMA MachineRegStep ==
  ASSUME NEW s, Good(s), NEW data \in Byte
  PROVE  LET t == machine_reg(s, data)
         IN  Step(s, t) /\ Quiet(s, t) /\ KeepsLocal(s, t)
<1> DEFINE t == [s EXCEPT !.cfg_machine = data]
<1>1. DOMAIN t = Fields /\ t.cfg_machine = data
      /\ \A f \in Fields \ {"cfg_machine"} : t[f] = s[f]
  BY DEF Good, Fields
<1> HIDE DEF t
<1>2. data < MACHINE_MAX_CFG => data \in Machine
  BY DEF Byte, Machine, MACHINE_MAX_CFG, MACHINE_PRAVETZ
<1>3. data < MACHINE_MAX_CFG => Good(t)
  BY <1>1, <1>2 DEF Good, SettingsOK, Follow, Fields
<1>4. data < MACHINE_MAX_CFG => Step(s, t) /\ Quiet(s, t) /\ KeepsLocal(s, t)
  BY <1>1, <1>3 DEF Step, Quiet, Renews, ReadsDirectory, KeepsUpload, KeepsLocal, Fields
<1>5. Step(s, s) /\ Quiet(s, s) /\ KeepsLocal(s, s)
  BY StepItself DEF KeepsLocal
<1> QED
  BY <1>4, <1>5, Zenon DEF machine_reg, t

\* What the handlers of most registers do.
Obeys(s, t) == Step(s, t) /\ (Quiet(s, t) \/ Saved(s, t))

\* Register 4.  Command 0x30 selects a font that does not exist, the defaults and a
\* load leave the machine to be detected again.
LEMMA CommandObeys ==
  ASSUME NEW s, Good(s), FlashOK(s.flash), NEW cmd \in Byte
  PROVE  LET t == device_command(s, cmd)
         IN  /\ Obeys(s, t)
             /\ cmd # 48 => KeepsLocal(s, t)
             /\ cmd \notin {0, 1} => (InEffect(s) => InEffect(t))
<1> DEFINE Right(t) == /\ Obeys(s, t)
                       /\ cmd # 48 => KeepsLocal(s, t)
                       /\ cmd \notin {0, 1} => (InEffect(s) => InEffect(t))
           font == cmd - 16
           local == [s EXCEPT !.cfg_local_charset = font,
                              !.reload_charsets = @ \cup {Local}]
<1>1. cmd = 0 => Right(config_load_defaults(s))
  BY DefaultsStep DEF Reloads, Obeys, KeepsLocal
<1>2. cmd = 1 => Right(config_load(s))
  <2>1. Reloads(s, config_load(s))
    BY ConfigLoad, Zenon
  <2> QED
    BY <2>1 DEF Reloads, Obeys, KeepsLocal
<1>3. Right(config_save(s)) /\ Right(s)
  BY SaveHandled, StepItself DEF Handled, Obeys, KeepsLocal
<1>4. cmd \in 16 .. 16 + MAX_FONT_COUNT => Right(local)
  <2> SUFFICES ASSUME cmd \in 16 .. 16 + MAX_FONT_COUNT PROVE Right(local)
    OBVIOUS
  <2>1. font \in 0 .. MAX_FONT_COUNT /\ (cmd # 48 => font < MAX_FONT_COUNT)
    BY DEF MAX_FONT_COUNT
  <2> HIDE DEF font
  <2>2. /\ DOMAIN local = Fields /\ local.cfg_local_charset = font
        /\ local.reload_charsets = s.reload_charsets \cup {Local}
        /\ \A f \in Fields \ {"cfg_local_charset", "reload_charsets"} : local[f] = s[f]
    BY DEF Good, Fields
  <2> HIDE DEF local
  <2>3. local.reload_charsets \subseteq {Local, Alternate, Videx}
    BY <2>2, GoodRanges
  <2>4. Good(local)
    BY <2>1, <2>2, <2>3 DEF Good, SettingsOK, Follow, Fields
  <2>5. Step(s, local) /\ Quiet(s, local) /\ (InEffect(s) => InEffect(local))
    BY <2>2, <2>4 DEF Step, Renews, ReadsDirectory, KeepsUpload, Quiet, InEffect,
       Effective, Fields
  <2> QED
    BY <2>1, <2>2, <2>5 DEF Obeys, KeepsLocal
<1> HIDE DEF Right, local
<1>5. Right(device_command(s, cmd))
  BY <1>1, <1>2, <1>3, <1>4, Zenon DEF device_command, local, font
<1> QED
  BY <1>5 DEF Right

LEMMA MenuRegHandled ==
  ASSUME NEW s, Good(s), FlashOK(s.flash), NEW data \in Byte
  PROVE  Handled(s, menu_reg(s, data))
<1> DEFINE on == IF data = 0 THEN Flag(s, TRUE, "MENU_ENABLE") ELSE s
<1>1. Proper(s, on) /\ Good(on) /\ SameChoice(s, on) /\ FlashOK(on.flash)
  <2> DEFINE t == Flag(s, TRUE, "MENU_ENABLE")
  <2>1. t.internal_flags \cap StoredFlags = s.internal_flags \cap StoredFlags
    BY DEF Flag, StoredFlags, Good, Fields
  <2>2. Proper(s, t) /\ \A f \in Fields \ {"internal_flags"} : t[f] = s[f]
    BY FlagProper
  <2> HIDE DEF t
  <2>3. SameChoice(s, t) /\ t.flash = s.flash
    BY <2>1, <2>2 DEF SameChoice, Fields
  <2>4. SameChoice(s, s) /\ Proper(s, s)
    BY StepItself DEF SameChoice
  <2>5. on \in {s, t}
    BY DEF t
  <2> HIDE DEF on
  <2> QED
    BY <2>2, <2>3, <2>4, <2>5 DEF Proper, Step
<1> HIDE DEF on
<1>2. Handled(s, menuShow(on, data))
  BY <1>1, MenuShowHandled, HandledAfter
<1>3. Handled(s, on)
  BY <1>1, ProperHandled
<1> QED
  BY <1>2, <1>3, Zenon DEF menu_reg, on

-----------------------------------------------------------------------------
(* The upload of a font.                                                   *)

UploadFields ==
  {"custom_rom_font_nr", "custom_rom_font_type", "custom_rom_write_offset",
   "custom_rom_write_count", "custom_font_buffer", "dev_config_lock"}

\* A function that changes the upload, or the lock, changes nothing else.
LEMMA UploadsOnly ==
  ASSUME NEW s, Good(s), NEW t, DOMAIN t = Fields,
         \A f \in Fields \ UploadFields : t[f] = s[f]
  PROVE  /\ Good(t) /\ Renews(s, t) /\ ReadsDirectory(s, t) /\ Quiet(s, t)
         /\ KeepsLocal(s, t) /\ (InEffect(s) => InEffect(t))
         /\ t.character_rom = s.character_rom
<1>1. Good(t)
  BY DEF Good, SettingsOK, Follow, Fields, UploadFields
<1> QED
  BY <1>1 DEF Renews, ReadsDirectory, Quiet, KeepsLocal, InEffect, Effective, Fields,
     UploadFields

\* As long as not too many bytes came, the buffer holds the font that they make up,
\* and the font that shares its sector.
Uploading(s, bytes) ==
  LET slot == s.custom_rom_font_nr
      n    == s.custom_rom_write_count
  IN  n <= CHARACTER_ROM_SIZE =>
        /\ bytes \in Seq(Byte) /\ Len(bytes) = n
        /\ s.custom_rom_write_offset = CHARACTER_ROM_SIZE * (slot % 2) + n
        /\ \A i \in 1 .. n : s.custom_font_buffer[slot % 2][i] =
                               FontByte(s.custom_rom_font_type, bytes[i])
        /\ s.custom_font_buffer[1 - (slot % 2)] =
             s.flash.fonts[2 * (slot \div 2) + (1 - (slot % 2))]

\* Where the next byte goes.
LEMMA HalfOfBuffer ==
  ASSUME NEW half \in {0, 1}, NEW n \in 0 .. CHARACTER_ROM_SIZE - 1
  PROVE  /\ (CHARACTER_ROM_SIZE * half + n) \div CHARACTER_ROM_SIZE = half
         /\ (CHARACTER_ROM_SIZE * half + n) % CHARACTER_ROM_SIZE = n
<1> DEFINE size == CHARACTER_ROM_SIZE
<1>1. size \in Nat \ {0}
  BY RomSizeAssumption
<1>2. CASE half = 0
  <2>1. size * half + n = n
    BY <1>1, <1>2
  <2>2. n \div size = 0 /\ n % size = n
    BY <1>1
  <2> QED
    BY <1>2, <2>1, <2>2
<1>3. CASE half = 1
  <2>1. size * half + n = size + n
    BY <1>1, <1>3
  <2>2. (size + n) \div size = 1 /\ (size + n) % size = n
    BY <1>1
  <2> QED
    BY <1>3, <2>1, <2>2
<1> QED
  BY <1>2, <1>3

\* A byte of a font file becomes a byte.
LEMMA FontByteRange ==
  ASSUME NEW type \in {0, 1}, NEW data \in Byte
  PROVE  FontByte(type, data) \in Byte
<1>1. reverse_7bits(data) \in Byte
  <2> DEFINE moved(from, to) == IF Bit(data, from) THEN to ELSE 0
  <2>1. /\ moved(1, 64) \in 0 .. 64 /\ moved(2, 32) \in 0 .. 32
        /\ moved(4, 16) \in 0 .. 16 /\ moved(8, 8) \in 0 .. 8
        /\ moved(16, 4) \in 0 .. 4 /\ moved(32, 2) \in 0 .. 2 /\ moved(64, 1) \in 0 .. 1
    OBVIOUS
  <2> HIDE DEF moved
  <2>2. moved(1, 64) + moved(2, 32) + moved(4, 16) + moved(8, 8) + moved(16, 4)
          + moved(32, 2) + moved(64, 1) \in Byte
    BY <2>1 DEF Byte
  <2> QED
    BY <2>2 DEF reverse_7bits, moved
<1>2. 127 - (data % 128) \in Byte
  BY DEF Byte
<1> QED
  BY <1>1, <1>2 DEF FontByte

LEMMA KeepsUploading ==
  ASSUME NEW s, UploadOK(s), NEW bytes, Uploading(s, bytes), NEW t, KeepsUpload(s, t),
         t.flash.fonts = s.flash.fonts
  PROVE  UploadOK(t) /\ Uploading(t, bytes)
  BY DEF UploadOK, Uploading, KeepsUpload

LEMMA FontSelect ==
  ASSUME NEW s, Good(s), FlashOK(s.flash), NEW data \in Byte
  PROVE  LET t == font_select(s, data)
         IN  /\ DOMAIN t = Fields /\ \A f \in Fields \ UploadFields : t[f] = s[f]
             /\ t.dev_config_lock = s.dev_config_lock
             /\ UploadOK(t) /\ Uploading(t, << >>)
<1> DEFINE slot   == data % 32
           even   == 2 * (slot \div 2)
           type   == data \div 128
           buffer == [h \in {0, 1} |-> s.flash.fonts[even + h]]
           t      == font_select(s, data)
<1>1. /\ DOMAIN t = Fields /\ \A f \in Fields \ UploadFields : t[f] = s[f]
      /\ t.dev_config_lock = s.dev_config_lock
      /\ t.custom_rom_write_offset = CHARACTER_ROM_SIZE * (data % 2)
      /\ t.custom_rom_font_nr = slot /\ t.custom_rom_write_count = 0
      /\ t.custom_rom_font_type = type /\ t.custom_font_buffer = buffer
  BY DEF font_select, Good, Fields, UploadFields
<1> HIDE DEF t
<1>2. /\ slot \in Slots /\ type \in {0, 1} /\ data % 2 \in {0, 1}
      /\ slot % 2 = data % 2 /\ slot % 2 \in {0, 1}
      /\ even \in Slots /\ even + 1 \in Slots
  BY DEF Byte, Slots
<1>3. CHARACTER_ROM_SIZE * (data % 2) \in 0 .. 2 * CHARACTER_ROM_SIZE
  <2>1. CASE data % 2 = 0
    BY <2>1, RomSizeAssumption
  <2>2. CASE data % 2 = 1
    BY <2>2, RomSizeAssumption
  <2> QED
    BY <1>2, <2>1, <2>2
<1>4. buffer \in [{0, 1} -> Font]
  <2> HIDE DEF even
  <2>1. \A h \in {0, 1} : even + h \in Slots
    BY <1>2 DEF Slots
  <2> QED
    BY <2>1 DEF FlashOK
<1>5. /\ 0 \in 0 .. CHARACTER_ROM_SIZE + 1
      /\ CHARACTER_ROM_SIZE * (data % 2) = CHARACTER_ROM_SIZE * (data % 2) + 0
  BY <1>3, RomSizeAssumption
<1>6. UploadOK(t)
  BY <1>1, <1>2, <1>3, <1>4, <1>5 DEF UploadOK
<1>7. Uploading(t, << >>)
  <2>1. t.custom_font_buffer[1 - (slot % 2)] = t.flash.fonts[even + (1 - (slot % 2))]
    <3>1. t.flash = s.flash
      BY <1>1 DEF Fields, UploadFields
    <3> HIDE DEF slot, even
    <3>2. 1 - (slot % 2) \in {0, 1}
      BY <1>2
    <3> QED
      BY <1>1, <3>1, <3>2
  <2>2. << >> \in Seq(Byte) /\ Len(<< >>) = 0 /\ 1 .. 0 = {}
    OBVIOUS
  <2>3. t.custom_rom_write_offset = CHARACTER_ROM_SIZE * (slot % 2) + 0
    BY <1>1, <1>2, <1>5
  <2> HIDE DEF slot, buffer, type
  <2> QED
    BY <1>1, <2>1, <2>2, <2>3 DEF Uploading
<1> QED
  BY <1>1, <1>6, <1>7 DEF t

LEMMA FontData ==
  ASSUME NEW s, Good(s), NEW data \in Byte, UploadOK(s), NEW bytes, Uploading(s, bytes),
         NEW more, Len(bytes) <= CHARACTER_ROM_SIZE => more = Append(bytes, data)
  PROVE  LET t == font_data(s, data)
         IN  /\ DOMAIN t = Fields /\ \A f \in Fields \ UploadFields : t[f] = s[f]
             /\ t.dev_config_lock = s.dev_config_lock
             /\ UploadOK(t) /\ Uploading(t, more)
<1> DEFINE size == CHARACTER_ROM_SIZE
           slot == s.custom_rom_font_nr
           half == slot % 2
           n    == s.custom_rom_write_count
           at   == s.custom_rom_write_offset
           byte == FontByte(s.custom_rom_font_type, data)
           next == [s EXCEPT
                      !.custom_font_buffer[at \div size][(at % size) + 1] = byte,
                      !.custom_rom_write_offset = @ + 1,
                      !.custom_rom_write_count = @ + 1]
           over == [s EXCEPT !.custom_rom_write_count = size + 1]
<1>1. /\ size \in Nat \ {0} /\ slot \in Slots /\ half \in {0, 1}
      /\ n \in 0 .. size + 1 /\ s.custom_rom_font_type \in {0, 1}
      /\ s.custom_font_buffer \in [{0, 1} -> Font]
  <2>1. slot \in Slots
    BY DEF UploadOK
  <2>2. \A x \in Slots : x % 2 \in {0, 1}
    BY DEF Slots
  <2> QED
    BY <2>1, <2>2, RomSizeAssumption DEF UploadOK
<1>2. ASSUME n < size
      PROVE  /\ DOMAIN next = Fields /\ \A f \in Fields \ UploadFields : next[f] = s[f]
             /\ next.dev_config_lock = s.dev_config_lock
             /\ UploadOK(next) /\ Uploading(next, more)
  <2>1. /\ bytes \in Seq(Byte) /\ Len(bytes) = n /\ at = size * half + n
        /\ \A i \in 1 .. n : s.custom_font_buffer[half][i] =
                               FontByte(s.custom_rom_font_type, bytes[i])
        /\ s.custom_font_buffer[1 - half] =
             s.flash.fonts[2 * (slot \div 2) + (1 - half)]
    BY <1>1, <1>2 DEF Uploading
  <2>2. at \div size = half /\ at % size = n
    <3>1. n \in 0 .. size - 1
      BY <1>1, <1>2
    <3> HIDE DEF half, at, n
    <3> QED
      BY <1>1, <2>1, <3>1, HalfOfBuffer
  <2>3. more = Append(bytes, data) /\ more \in Seq(Byte) /\ Len(more) = n + 1
        /\ more[n + 1] = data /\ \A i \in 1 .. n : more[i] = bytes[i]
    <3>1. more = Append(bytes, data)
      BY <1>1, <1>2, <2>1
    <3> HIDE DEF n
    <3> QED
      BY <1>1, <2>1, <3>1
  <2> DEFINE buffer == [s.custom_font_buffer EXCEPT ![half][n + 1] = byte]
  <2>4. /\ DOMAIN next = Fields /\ \A f \in Fields \ UploadFields : next[f] = s[f]
        /\ next.dev_config_lock = s.dev_config_lock
        /\ next.custom_rom_font_nr = slot
        /\ next.custom_rom_font_type = s.custom_rom_font_type
        /\ next.custom_rom_write_offset = at + 1
        /\ next.custom_rom_write_count = n + 1
        /\ next.custom_font_buffer = buffer
    BY <2>2 DEF Good, Fields, UploadFields
  <2> HIDE DEF next
  <2>5. n + 1 \in 1 .. size /\ 1 - half \in {0, 1} /\ 1 - half # half
    BY <1>1, <1>2
  <2>6. byte \in Byte
    BY <1>1, FontByteRange
  <2> HIDE DEF byte
  <2>7. /\ buffer \in [{0, 1} -> Font]
        /\ buffer[half] = [s.custom_font_buffer[half] EXCEPT ![n + 1] = byte]
        /\ buffer[1 - half] = s.custom_font_buffer[1 - half]
    BY <1>1, <2>5, <2>6 DEF Font
  <2>8. \A i \in 1 .. n + 1 : buffer[half][i] = FontByte(s.custom_rom_font_type, more[i])
    <3>1. ASSUME NEW i \in 1 .. n PROVE buffer[half][i] = FontByte(s.custom_rom_font_type, more[i])
      BY <1>1, <1>2, <2>1, <2>3, <2>7, <3>1 DEF Font
    <3>2. buffer[half][n + 1] = FontByte(s.custom_rom_font_type, more[n + 1])
      BY <1>1, <2>3, <2>5, <2>7 DEF Font, byte
    <3> QED
      BY <1>1, <3>1, <3>2
  <2> HIDE DEF buffer
  <2>9. at + 1 = size * half + (n + 1) /\ at + 1 \in 0 .. 2 * size
    <3>1. CASE half = 0
      <4>1. size * half = 0
        BY <1>1, <3>1
      <4> QED
        BY <1>1, <1>2, <2>1, <4>1
    <3>2. CASE half = 1
      <4>1. size * half = size
        BY <1>1, <3>2
      <4> QED
        BY <1>1, <1>2, <2>1, <4>1
    <3> QED
      BY <1>1, <3>1, <3>2
  <2>10. UploadOK(next)
    BY <1>1, <1>2, <2>4, <2>7, <2>9 DEF UploadOK
  <2>11. next.flash = s.flash
    BY <2>4 DEF Fields, UploadFields
  <2>12. Uploading(next, more)
    BY <2>1, <2>3, <2>4, <2>7, <2>8, <2>9, <2>11 DEF Uploading
  <2> QED
    BY <2>4, <2>10, <2>12
<1>3. /\ DOMAIN over = Fields /\ \A f \in Fields \ UploadFields : over[f] = s[f]
      /\ over.dev_config_lock = s.dev_config_lock
      /\ UploadOK(over) /\ Uploading(over, more)
  <2>1. /\ DOMAIN over = Fields /\ over.custom_rom_write_count = size + 1
        /\ \A f \in Fields \ {"custom_rom_write_count"} : over[f] = s[f]
    BY DEF Good, Fields
  <2> HIDE DEF over
  <2>2. size + 1 \in 0 .. size + 1 /\ ~ (size + 1 <= size)
    BY <1>1
  <2> QED
    BY <2>1, <2>2 DEF UploadOK, Uploading, Fields, UploadFields
<1>4. font_data(s, data) = IF n < size THEN next ELSE over
  BY Zenon DEF font_data
<1> HIDE DEF next, over
<1> QED
  BY <1>2, <1>3, <1>4

\* The flash with other contents of one sector of fonts, and another directory.
Image(flash, slot, dir, first, second) ==
  [config |-> flash.config, fontdir |-> dir,
   fonts |-> [x \in Slots |-> IF x = 2 * (slot \div 2) THEN first
                              ELSE IF x = 2 * (slot \div 2) + 1 THEN second
                              ELSE flash.fonts[x]]]

\* A font is written to flash, and the directory after it.
FontWritten(s, t) ==
  LET slot  == s.custom_rom_font_nr
      image(d, a, b) == Image(s.flash, slot, d, a, b)
      buffer == s.custom_font_buffer
  IN  /\ s.custom_rom_write_count = CHARACTER_ROM_SIZE
      /\ t.invalid_fonts = s.invalid_fonts \ {slot}
      /\ t.flash = image(t.invalid_fonts, buffer[0], buffer[1])
      /\ t.trail =
           Append(Append(Append(Append(Append(s.trail,
             image(s.flash.fontdir, NoBytes, NoBytes)),
             image(s.flash.fontdir, buffer[0], NoBytes)),
             image(s.flash.fontdir, buffer[0], buffer[1])),
             image(Erased, buffer[0], buffer[1])),
             t.flash)

LEMMA PairOfSlots ==
  ASSUME NEW slot \in Slots
  PROVE  /\ 2 * (slot \div 2) \in Slots /\ 2 * (slot \div 2) + 1 \in Slots
         /\ Pair(slot) = {2 * (slot \div 2), 2 * (slot \div 2) + 1}
         /\ slot = 2 * (slot \div 2) + (slot % 2) /\ slot % 2 \in {0, 1}
<1> DEFINE half == slot \div 2
<1>1. /\ half \in 0 .. 15 /\ slot % 2 \in {0, 1} /\ slot = 2 * half + (slot % 2)
  BY DEF Slots
<1>2. \A x \in Slots : x \div 2 = half <=> (x = 2 * half \/ x = 2 * half + 1)
  <2> HIDE DEF half
  <2> QED
    BY <1>1 DEF Slots
<1> HIDE DEF half
<1>3. 2 * half \in Slots /\ 2 * half + 1 \in Slots
  BY <1>1 DEF Slots
<1>4. Pair(slot) = {x \in Slots : x \div 2 = half}
  BY DEF Pair, half
<1> QED
  BY <1>1, <1>2, <1>3, <1>4 DEF half

\* Pages that are written, or erased, in the sector of a slot.
LEMMA ErasedImage ==
  ASSUME NEW flash, DOMAIN flash = {"config", "fontdir", "fonts"}, NEW slot \in Slots,
         NEW new, DOMAIN new = Pair(slot), NEW a, \A x \in Pair(slot) : new[x] = a
  PROVE  WithFonts(flash, new) = Image(flash, slot, flash.fontdir, a, a)
<1> DEFINE even == 2 * (slot \div 2)
           fonts == [x \in Slots |-> IF x = even THEN a ELSE IF x = even + 1 THEN a
                                     ELSE flash.fonts[x]]
<1>1. Pair(slot) = {even, even + 1}
  BY PairOfSlots
<1> HIDE DEF even
<1>2. [x \in Slots |-> IF x \in DOMAIN new THEN new[x] ELSE flash.fonts[x]] = fonts
  BY <1>1
<1> HIDE DEF fonts
<1>3. WithFonts(flash, new) = [config |-> flash.config, fontdir |-> flash.fontdir,
                               fonts |-> fonts]
  BY <1>2 DEF WithFonts
<1> QED
  BY <1>3, Zenon DEF Image, fonts, even

\* One page of a sector.
OnePage(new, x, page) == DOMAIN new = {x} /\ new[x] = page

LEMMA WrittenImage ==
  ASSUME NEW flash, NEW slot \in Slots, NEW dir, NEW first, NEW second, NEW new, NEW a,
         NEW even, even = 2 * (slot \div 2)
  PROVE  /\ OnePage(new, even, a) =>
              WithFonts(Image(flash, slot, dir, first, second), new)
                = Image(flash, slot, dir, a, second)
         /\ OnePage(new, even + 1, a) =>
              WithFonts(Image(flash, slot, dir, first, second), new)
                = Image(flash, slot, dir, first, a)
<1> DEFINE fonts(c, e) == [x \in Slots |-> IF x = even THEN c ELSE IF x = even + 1 THEN e
                                           ELSE flash.fonts[x]]
           image(c, e) == [config |-> flash.config, fontdir |-> dir, fonts |-> fonts(c, e)]
<1>1. even \in Slots /\ even + 1 \in Slots /\ even # even + 1
  BY PairOfSlots DEF Slots
<1>2. /\ OnePage(new, even, a) =>
           [x \in Slots |-> IF x \in DOMAIN new THEN new[x] ELSE fonts(first, second)[x]]
             = fonts(a, second)
      /\ OnePage(new, even + 1, a) =>
           [x \in Slots |-> IF x \in DOMAIN new THEN new[x] ELSE fonts(first, second)[x]]
             = fonts(first, a)
  BY <1>1 DEF OnePage
<1> HIDE DEF fonts
<1>3. /\ OnePage(new, even, a) =>
           WithFonts(image(first, second), new) = image(a, second)
      /\ OnePage(new, even + 1, a) =>
           WithFonts(image(first, second), new) = image(first, a)
  BY <1>2 DEF WithFonts
<1>4. \A c, e : Image(flash, slot, dir, c, e) = image(c, e)
  BY Zenon DEF Image, fonts
<1> HIDE DEF image
<1> QED
  BY <1>3, <1>4

LEMMA FirstImage ==
  ASSUME NEW flash, NEW slot \in Slots, NEW dir, NEW first, NEW second, NEW new, NEW a,
         NEW even, even = 2 * (slot \div 2), OnePage(new, even, a)
  PROVE  WithFonts(Image(flash, slot, dir, first, second), new)
           = Image(flash, slot, dir, a, second)
  BY WrittenImage

LEMMA DirectoryImage ==
  ASSUME NEW flash, NEW slot, NEW dir, NEW other, NEW first, NEW second
  PROVE  [Image(flash, slot, dir, first, second) EXCEPT !.fontdir = other]
           = Image(flash, slot, other, first, second)
<1> DEFINE fonts == Image(flash, slot, dir, first, second).fonts
<1>1. \A d : Image(flash, slot, d, first, second) =
              [config |-> flash.config, fontdir |-> d, fonts |-> fonts]
  BY Zenon DEF Image
<1> HIDE DEF fonts
<1> QED
  BY <1>1

LEMMA FontCommit ==
  ASSUME NEW s, Good(s), UploadOK(s), FlashOK(s.flash)
  PROVE  LET t == font_commit(s)
         IN  \/ t = s
             \/ /\ FontWritten(s, t) /\ KeepsUpload(s, t)
                /\ Good(t) /\ Renews(s, t) /\ SameChoice(s, t)
                /\ {Local, Alternate} \subseteq t.reload_charsets
                /\ KeepsLocal(s, t) /\ (InEffect(s) => InEffect(t))
<1> DEFINE slot    == s.custom_rom_font_nr
           buffer  == s.custom_font_buffer
           even    == 2 * (slot \div 2)
           image(d, a, b) == Image(s.flash, slot, d, a, b)
           erased  == Flashed(s, WithFonts(s.flash, [x \in Pair(slot) |-> NoBytes]))
           half    == Flashed(erased, WithFonts(erased.flash, [x \in {even} |-> buffer[0]]))
           full    == Flashed(half, WithFonts(half.flash, [x \in {even + 1} |-> buffer[1]]))
           written == font_write(s, slot, buffer)
           valid   == [written EXCEPT !.invalid_fonts = @ \ {slot}]
           nodir   == Flashed(valid, [valid.flash EXCEPT !.fontdir = Erased])
           dir     == config_font_update(valid)
           page    == menuShowFrame(dir, "saved")
           t       == [page EXCEPT !.reload_charsets = @ \cup {Local, Alternate}]
<1>1. slot \in Slots /\ DOMAIN s.flash = {"config", "fontdir", "fonts"}
  BY DEF UploadOK, FlashOK
<1>2. /\ DOMAIN erased = Fields
      /\ erased.flash = image(s.flash.fontdir, NoBytes, NoBytes)
      /\ erased.trail = Append(s.trail, erased.flash)
      /\ \A f \in Fields \ {"flash", "trail"} : erased[f] = s[f]
  <2>1. WithFonts(s.flash, [x \in Pair(slot) |-> NoBytes]) =
          image(s.flash.fontdir, NoBytes, NoBytes)
    <3> DEFINE new == [x \in Pair(slot) |-> NoBytes]
    <3>1. DOMAIN new = Pair(slot) /\ \A x \in Pair(slot) : new[x] = NoBytes
      OBVIOUS
    <3> HIDE DEF new
    <3>2. WithFonts(s.flash, new) = image(s.flash.fontdir, NoBytes, NoBytes)
      BY <1>1, <3>1, ErasedImage
    <3> QED
      BY <3>2 DEF new
  <2> QED
    BY <2>1 DEF Flashed, Good, Fields
<1> HIDE DEF erased
<1>3. /\ DOMAIN half = Fields
      /\ half.flash = image(s.flash.fontdir, buffer[0], NoBytes)
      /\ half.trail = Append(erased.trail, half.flash)
      /\ \A f \in Fields \ {"flash", "trail"} : half[f] = s[f]
  <2>1. WithFonts(erased.flash, [x \in {even} |-> buffer[0]]) =
          image(s.flash.fontdir, buffer[0], NoBytes)
    <3> DEFINE new == [x \in {even} |-> buffer[0]]
    <3>1. OnePage(new, even, buffer[0])
      BY DEF OnePage
    <3> HIDE DEF new
    <3> HIDE DEF even, buffer
    <3>2. even = 2 * (slot \div 2)
      BY DEF even
    <3> HIDE DEF slot
    <3>3. WithFonts(image(s.flash.fontdir, NoBytes, NoBytes), new) =
            image(s.flash.fontdir, buffer[0], NoBytes)
      BY <1>1, <3>1, <3>2, FirstImage
    <3> QED
      BY <1>2, <3>3 DEF new, even, buffer, slot
  <2> QED
    BY <1>2, <2>1 DEF Flashed, Fields
<1> HIDE DEF half
<1>4. /\ DOMAIN full = Fields
      /\ full.flash = image(s.flash.fontdir, buffer[0], buffer[1])
      /\ full.trail = Append(half.trail, full.flash)
      /\ \A f \in Fields \ {"flash", "trail"} : full[f] = s[f]
  <2>1. WithFonts(half.flash, [x \in {even + 1} |-> buffer[1]]) =
          image(s.flash.fontdir, buffer[0], buffer[1])
    <3> DEFINE new == [x \in {even + 1} |-> buffer[1]]
    <3>1. OnePage(new, even + 1, buffer[1])
      BY DEF OnePage
    <3> HIDE DEF new
    <3> HIDE DEF even, buffer
    <3>2. even = 2 * (slot \div 2)
      BY DEF even
    <3> HIDE DEF slot
    <3>3. WithFonts(image(s.flash.fontdir, buffer[0], NoBytes), new) =
            image(s.flash.fontdir, buffer[0], buffer[1])
      BY <1>1, <3>1, <3>2, WrittenImage
    <3> QED
      BY <1>3, <3>3 DEF new, even, buffer, slot
  <2> QED
    BY <1>3, <2>1 DEF Flashed, Fields
<1>5. written = full
  BY Zenon DEF font_write, full, half, erased
<1> HIDE DEF full, written
<1>6. /\ DOMAIN valid = Fields /\ valid.flash = full.flash /\ valid.trail = full.trail
      /\ valid.invalid_fonts = s.invalid_fonts \ {slot}
      /\ \A f \in Fields \ {"flash", "trail", "invalid_fonts"} : valid[f] = s[f]
  BY <1>4, <1>5 DEF Fields
<1> HIDE DEF valid
<1>7. /\ DOMAIN nodir = Fields
      /\ nodir.flash = image(Erased, buffer[0], buffer[1])
      /\ nodir.trail = Append(full.trail, nodir.flash)
      /\ nodir.invalid_fonts = s.invalid_fonts \ {slot}
      /\ \A f \in Fields \ {"flash", "trail", "invalid_fonts"} : nodir[f] = s[f]
  <2>1. [image(s.flash.fontdir, buffer[0], buffer[1]) EXCEPT !.fontdir = Erased] =
          image(Erased, buffer[0], buffer[1])
    BY DirectoryImage
  <2> QED
    BY <1>4, <1>6, <2>1 DEF Flashed, Fields
<1>8. /\ DOMAIN dir = Fields
      /\ dir.flash = image(dir.invalid_fonts, buffer[0], buffer[1])
      /\ dir.trail = Append(nodir.trail, dir.flash)
      /\ dir.invalid_fonts = s.invalid_fonts \ {slot}
      /\ \A f \in Fields \ {"flash", "trail", "invalid_fonts"} : dir[f] = s[f]
  <2>1. dir = Flashed(nodir, [nodir.flash EXCEPT !.fontdir = valid.invalid_fonts])
    BY Zenon DEF config_font_update, dir, nodir
  <2>2. [image(Erased, buffer[0], buffer[1]) EXCEPT !.fontdir = valid.invalid_fonts] =
          image(valid.invalid_fonts, buffer[0], buffer[1])
    BY DirectoryImage
  <2> HIDE DEF nodir, dir
  <2> QED
    BY <1>6, <1>7, <2>1, <2>2 DEF Flashed, Fields
<1> HIDE DEF nodir, dir
<1>9. /\ DOMAIN page = Fields
      /\ \A f \in Fields \ {"soft_switches", "screen"} : page[f] = dir[f]
  BY <1>8 DEF menuShowFrame, Fields
<1> HIDE DEF page
<1>10. /\ DOMAIN t = Fields
       /\ t.reload_charsets = s.reload_charsets \cup {Local, Alternate}
       /\ t.flash = dir.flash /\ t.trail = dir.trail
       /\ t.invalid_fonts = dir.invalid_fonts
       /\ \A f \in Fields \ {"soft_switches", "screen", "reload_charsets", "flash",
                             "trail", "invalid_fonts"} : t[f] = s[f]
  BY <1>8, <1>9 DEF Fields
<1> HIDE DEF t
<1>11. Good(t)
  <2>1. /\ t.invalid_fonts \subseteq s.invalid_fonts
        /\ t.reload_charsets = s.reload_charsets \cup {Local, Alternate}
        /\ \A f \in Fields \ {"soft_switches", "screen", "reload_charsets", "flash",
                              "trail", "invalid_fonts"} : t[f] = s[f]
    BY <1>8, <1>10
  <2>2. SettingsOK(t)
    BY <2>1, GoodRanges DEF Good, SettingsOK, Fields
  <2>3. Follow(t)
    BY <2>1 DEF Good, Follow, Fields
  <2> QED
    BY <1>10, <2>2, <2>3 DEF Good
<1>12. KeepsUpload(s, t) /\ SameChoice(s, t) /\ KeepsLocal(s, t)
       /\ (InEffect(s) => InEffect(t)) /\ Renews(s, t)
       /\ {Local, Alternate} \subseteq t.reload_charsets
  BY <1>8, <1>10 DEF KeepsUpload, SameChoice, KeepsLocal, InEffect, Effective, Renews, Fields
<1>13. s.custom_rom_write_count = CHARACTER_ROM_SIZE => FontWritten(s, t)
  <2>1. t.trail = Append(Append(Append(Append(Append(s.trail, erased.flash), half.flash),
                                       full.flash), nodir.flash), t.flash)
    BY <1>2, <1>3, <1>4, <1>7, <1>8, <1>10
  <2> HIDE DEF image
  <2>2. /\ t.flash = image(t.invalid_fonts, buffer[0], buffer[1])
        /\ t.trail = Append(Append(Append(Append(Append(s.trail,
                       image(s.flash.fontdir, NoBytes, NoBytes)),
                       image(s.flash.fontdir, buffer[0], NoBytes)),
                       image(s.flash.fontdir, buffer[0], buffer[1])),
                       image(Erased, buffer[0], buffer[1])),
                       t.flash)
    BY <1>2, <1>3, <1>4, <1>7, <1>8, <1>10, <2>1
  <2>3. t.invalid_fonts = s.invalid_fonts \ {slot}
    BY <1>8, <1>10
  <2> QED
    BY <2>2, <2>3, Zenon DEF FontWritten, image
<1>14. font_commit(s) = IF s.custom_rom_write_count # CHARACTER_ROM_SIZE THEN s ELSE t
  BY Zenon DEF font_commit, t, page, dir, valid, written
<1> QED
  BY <1>11, <1>12, <1>13, <1>14

-----------------------------------------------------------------------------
(* A register is written.                                                  *)

\* The lock of the registers.
LockOK(s) == s.dev_config_lock \in {Locked, 1, Unlocked}

\* What a write does.  Command 0x30 selects a font that does not exist; register 8, the
\* defaults and a load leave it to the next detection to set the machine in effect.
Written(s, t, reg, data) ==
  /\ Good(t) /\ LockOK(t) /\ Renews(s, t) /\ t.character_rom = s.character_rom
  /\ <<reg, data>> # <<4, 48>> => KeepsLocal(s, t)
  /\ reg # 8 /\ <<reg, data>> \notin {<<4, 0>>, <<4, 1>>} => (InEffect(s) => InEffect(t))
  /\ \/ ReadsDirectory(s, t) /\ (Quiet(s, t) \/ (reg # 2 /\ Saved(s, t)))
     \/ /\ reg = 2 /\ FontWritten(s, t) /\ SameChoice(s, t)
        /\ {Local, Alternate} \subseteq t.reload_charsets

LEMMA LockWritten ==
  ASSUME NEW s, Good(s), LockOK(s), NEW data
  PROVE  LET t == lock(s, data)
         IN  /\ DOMAIN t = Fields /\ LockOK(t)
             /\ \A f \in Fields \ {"dev_config_lock"} : t[f] = s[f]
<1> DEFINE value == CASE data = 11 -> 1
                      [] data = 22 -> IF s.dev_config_lock = 1 THEN Unlocked
                                      ELSE s.dev_config_lock
                      [] OTHER -> Locked
           t == [s EXCEPT !.dev_config_lock = value]
<1>1. value \in {Locked, 1, Unlocked}
  BY Zenon DEF LockOK
<1> HIDE DEF value
<1>2. /\ DOMAIN t = Fields /\ t.dev_config_lock = value
      /\ \A f \in Fields \ {"dev_config_lock"} : t[f] = s[f]
  BY DEF Good, Fields
<1>3. t = lock(s, data)
  BY Zenon DEF lock, value
<1> HIDE DEF t
<1> QED
  BY <1>1, <1>2, <1>3 DEF LockOK

LEMMA DeviceWritten ==
  ASSUME Good(dev), LockOK(dev), UploadOK(dev), FlashOK(dev.flash), Uploading(dev, sent),
         NEW reg \in 0 .. 15, NEW data \in Byte
  PROVE  LET t == device_write(dev, reg, data)
         IN  Written(dev, t, reg, data) /\ UploadOK(t) /\ Uploading(t, Sent(reg, data))
<1> DEFINE Right(t) == Written(dev, t, reg, data) /\ UploadOK(t)
                       /\ Uploading(t, Sent(reg, data))
<1>1. dev.dev_config_lock # Unlocked \/ reg \notin {2, 3} => Sent(reg, data) = sent
  BY Zenon DEF Sent
\* A handler that leaves the upload alone.
<1>2. ASSUME NEW t, Obeys(dev, t), Sent(reg, data) = sent, reg # 2 \/ Quiet(dev, t),
             <<reg, data>> # <<4, 48>> => KeepsLocal(dev, t),
             reg # 8 /\ <<reg, data>> \notin {<<4, 0>>, <<4, 1>>} =>
               (InEffect(dev) => InEffect(t))
      PROVE  Right(t)
  <2>1. t.flash.fonts = dev.flash.fonts
    BY <1>2 DEF Obeys, Quiet, Saved, FlashOK
  <2>2. UploadOK(t) /\ Uploading(t, sent)
    BY <1>2, <2>1, KeepsUploading DEF Obeys, Step
  <2>3. Written(dev, t, reg, data)
    BY <1>2 DEF Written, Obeys, Step, KeepsUpload, LockOK
  <2> QED
    BY <1>2, <2>2, <2>3
\* ... and only shows something, or changes a setting in the proper way.
<1>3. ASSUME NEW t, Handled(dev, t), Sent(reg, data) = sent, reg # 2 \/ Quiet(dev, t)
      PROVE  Right(t)
  BY <1>2, <1>3 DEF Handled, Obeys
<1>4. ASSUME NEW t, Proper(dev, t), Sent(reg, data) = sent PROVE Right(t)
  BY <1>3, <1>4, ProperHandled DEF Proper
\* A handler that changes nothing but the upload or the lock.
<1>5. ASSUME NEW t, DOMAIN t = Fields, \A f \in Fields \ UploadFields : t[f] = dev[f],
             LockOK(t), UploadOK(t), Uploading(t, Sent(reg, data))
      PROVE  Right(t)
  BY <1>5, UploadsOnly DEF Written
<1> HIDE DEF Right
<1>6. reg = 15 \/ dev.dev_config_lock # Unlocked => Right(dev)
  <2>1. reg = 15 => reg \notin {2, 3}
    OBVIOUS
  <2> QED
    BY <1>1, <1>4, <2>1, StepItself
<1>7. reg = 15 => Right(lock(dev, data))
  <2> SUFFICES ASSUME reg = 15 PROVE Right(lock(dev, data))
    OBVIOUS
  <2> DEFINE t == lock(dev, data)
  <2>1. /\ DOMAIN t = Fields /\ LockOK(t)
        /\ \A f \in Fields \ {"dev_config_lock"} : t[f] = dev[f]
    BY LockWritten
  <2> HIDE DEF t
  <2>2. \A f \in Fields \ UploadFields : t[f] = dev[f]
    BY <2>1 DEF UploadFields
  <2>3. UploadOK(t) /\ Uploading(t, sent)
    BY <2>1 DEF UploadOK, Uploading, Fields
  <2>4. Right(t)
    BY <1>1, <1>5, <2>1, <2>2, <2>3
  <2> QED
    BY <2>4 DEF t
<1>8. reg \in {0, 7} => \A set, clear : \A flag \in StoredFlags :
                           Right(SetOrClear(dev, data, set, clear, flag))
  BY <1>1, <1>4, SetOrClearProper
<1>9. reg = 1 => Right(color_reg(dev, data))
  BY <1>1, <1>4, ColorRegProper
<1>10. reg = 2 /\ dev.dev_config_lock = Unlocked => Right(font_reg(dev, data))
  <2>0. SUFFICES ASSUME reg = 2, dev.dev_config_lock = Unlocked
                 PROVE  Right(font_reg(dev, data))
    OBVIOUS
  <2>a. reg # 3 /\ ~ (dev.dev_config_lock # Unlocked)
    BY <2>0
  <2>1. data % 128 < 32 => Sent(reg, data) = << >>
    BY <2>0, <2>a, Zenon DEF Sent
  <2>2. ~ (data % 128 < 32) => Sent(reg, data) = sent
    BY <2>0, <2>a, Zenon DEF Sent
  <2>3. data = 255 => Right(font_commit(dev))
    <3>0. SUFFICES ASSUME data = 255 PROVE Right(font_commit(dev))
      OBVIOUS
    <3> DEFINE t == font_commit(dev)
    <3>1. \/ t = dev
          \/ /\ FontWritten(dev, t) /\ KeepsUpload(dev, t)
             /\ Good(t) /\ Renews(dev, t) /\ SameChoice(dev, t)
             /\ {Local, Alternate} \subseteq t.reload_charsets
             /\ KeepsLocal(dev, t) /\ (InEffect(dev) => InEffect(t))
      BY FontCommit
    <3> HIDE DEF t
    <3>2. Sent(reg, data) = sent
      BY <2>2, <3>0
    <3>a. Right(dev)
      BY <1>4, <3>2, StepItself
    <3>3. t = dev => Right(t)
      BY <3>a
    <3>4. ASSUME FontWritten(dev, t), KeepsUpload(dev, t),
                 Good(t), Renews(dev, t), SameChoice(dev, t),
                 {Local, Alternate} \subseteq t.reload_charsets,
                 KeepsLocal(dev, t), InEffect(dev) => InEffect(t)
          PROVE  Right(t)
      <4>1. Written(dev, t, reg, data)
        BY <2>0, <3>4 DEF Written, KeepsUpload, LockOK
      <4>2. UploadOK(t)
        BY <3>4 DEF UploadOK, KeepsUpload
      <4> DEFINE slot == dev.custom_rom_font_nr
                 even == 2 * (slot \div 2)
                 half == slot % 2
      <4>3. slot \in Slots
        BY DEF UploadOK
      <4>4. half \in {0, 1} /\ even \in Slots /\ even + 1 \in Slots /\ even # even + 1
        BY <4>3, PairOfSlots DEF Slots
      <4>5. t.flash.fonts[even] = dev.custom_font_buffer[0]
            /\ t.flash.fonts[even + 1] = dev.custom_font_buffer[1]
        BY <3>4, <4>4 DEF FontWritten, Image
      <4>6. t.flash.fonts[even + (1 - half)] = dev.custom_font_buffer[1 - half]
        <5> HIDE DEF half
        <5>1. CASE half = 0
          BY <4>4, <4>5, <5>1
        <5>2. CASE half = 1
          <6>1. even + (1 - half) = even
            BY <4>4, <5>2 DEF Slots
          <6> QED
            BY <4>5, <5>2, <6>1
        <5> QED
          BY <4>4, <5>1, <5>2
      <4>7. Uploading(t, sent)
        BY <3>4, <4>6 DEF Uploading, KeepsUpload
      <4> QED
        BY <3>2, <4>1, <4>2, <4>7, Zenon DEF Right
    <3>5. Right(t)
      BY <3>1, <3>3, <3>4, Zenon
    <3> QED
      BY <3>5 DEF t
  <2>4. data % 128 < 32 => Right(font_select(dev, data))
    <3>0. SUFFICES ASSUME data % 128 < 32 PROVE Right(font_select(dev, data))
      OBVIOUS
    <3> DEFINE t == font_select(dev, data)
    <3>1. /\ DOMAIN t = Fields /\ \A f \in Fields \ UploadFields : t[f] = dev[f]
          /\ t.dev_config_lock = dev.dev_config_lock
          /\ UploadOK(t) /\ Uploading(t, << >>)
      BY FontSelect
    <3> HIDE DEF t
    <3>2. Right(t)
      BY <1>5, <2>1, <3>0, <3>1 DEF LockOK
    <3> QED
      BY <3>2 DEF t
  <2>5. ~ (data % 128 < 32) => Right(dev)
    BY <1>4, <2>2, StepItself
  <2> QED
    BY <2>3, <2>4, <2>5, Zenon DEF font_reg
<1>11. reg = 3 /\ dev.dev_config_lock = Unlocked => Right(font_data(dev, data))
  <2>0. SUFFICES ASSUME reg = 3, dev.dev_config_lock = Unlocked
                 PROVE  Right(font_data(dev, data))
    OBVIOUS
  <2>1. Len(sent) <= CHARACTER_ROM_SIZE => Sent(reg, data) = Append(sent, data)
    <3>1. reg # 2 /\ ~ (dev.dev_config_lock # Unlocked)
      BY <2>0
    <3> QED
      BY <2>0, <3>1, Zenon DEF Sent
  <2> DEFINE t == font_data(dev, data)
  <2>2. /\ DOMAIN t = Fields /\ \A f \in Fields \ UploadFields : t[f] = dev[f]
        /\ t.dev_config_lock = dev.dev_config_lock
        /\ UploadOK(t) /\ Uploading(t, Sent(reg, data))
    BY <2>1, FontData
  <2> HIDE DEF t
  <2>3. Right(t)
    BY <1>5, <2>2 DEF LockOK
  <2> QED
    BY <2>3 DEF t
<1>12. reg = 4 => Right(device_command(dev, data))
  <2> DEFINE t == device_command(dev, data)
  <2>1. /\ Obeys(dev, t)
        /\ data # 48 => KeepsLocal(dev, t)
        /\ data \notin {0, 1} => (InEffect(dev) => InEffect(t))
    BY CommandObeys
  <2> HIDE DEF t
  <2>2. reg = 4 => Right(t)
    BY <1>1, <1>2, <2>1
  <2> QED
    BY <2>2 DEF t
<1>13. /\ reg = 5 => Right(charset_reg(dev, data, "cfg_local_charset", Local))
       /\ reg = 6 => Right(charset_reg(dev, data, "cfg_alt_charset", Alternate))
  BY <1>1, <1>4, FontRegProper
<1>14. reg = 8 => Right(machine_reg(dev, data))
  <2> DEFINE t == machine_reg(dev, data)
  <2>1. Step(dev, t) /\ Quiet(dev, t) /\ KeepsLocal(dev, t)
    BY MachineRegStep
  <2> HIDE DEF t
  <2>2. reg = 8 => Right(t)
    BY <1>1, <1>2, <2>1 DEF Obeys
  <2> QED
    BY <2>2 DEF t
<1>15. reg = 9 => Right(menu_reg(dev, data))
  BY <1>1, <1>3, MenuRegHandled
<1>16. reg \notin {0, 1, 2, 3, 4, 5, 6, 7, 8, 9} => Right(dev)
  BY <1>1, <1>4, StepItself
<1>17. CASE reg = 15
  <2>1. /\ reg # 0 /\ reg # 1 /\ reg # 2 /\ reg # 3 /\ reg # 4
        /\ reg # 5 /\ reg # 6 /\ reg # 7 /\ reg # 8 /\ reg # 9
    BY <1>17
  <2>2. device_write(dev, reg, data) = lock(dev, data)
    BY <1>17, <2>1, Zenon DEF device_write
  <2> QED
    BY <1>7, <1>17, <2>2 DEF Right
<1>18. CASE reg # 15
  <2>1. "SCANLINEEMU" \in StoredFlags /\ "VIDEO7" \in StoredFlags
    BY DEF StoredFlags
  <2>2. CASE dev.dev_config_lock # Unlocked
    <3>1. device_write(dev, reg, data) = dev
      BY <1>18, <2>2, Zenon DEF device_write
    <3> QED
      BY <1>6, <2>2, <3>1 DEF Right
  <2>3. CASE dev.dev_config_lock = Unlocked
    <3>0. CASE reg = 0
      <4>1. Right(SetOrClear(dev, data, 1, 2, "SCANLINEEMU"))
        BY <1>8, <2>1, <3>0
      <4>2. reg # 1 /\ reg # 2 /\ reg # 3 /\ reg # 4 /\ reg # 5 /\ reg # 6
            /\ reg # 7 /\ reg # 8 /\ reg # 9 /\ reg # 15
        BY <3>0
      <4>3. device_write(dev, reg, data) = SetOrClear(dev, data, 1, 2, "SCANLINEEMU")
        BY <2>3, <3>0, <4>2, Zenon DEF device_write
      <4> QED
        BY <4>1, <4>3 DEF Right
    <3>1. CASE reg = 1
      <4>1. Right(color_reg(dev, data))
        BY <1>9, <3>1
      <4>2. reg # 0 /\ reg # 2 /\ reg # 3 /\ reg # 4 /\ reg # 5 /\ reg # 6
            /\ reg # 7 /\ reg # 8 /\ reg # 9 /\ reg # 15
        BY <3>1
      <4>3. device_write(dev, reg, data) = color_reg(dev, data)
        BY <2>3, <3>1, <4>2, Zenon DEF device_write
      <4> QED
        BY <4>1, <4>3 DEF Right
    <3>2. CASE reg = 2
      <4>1. Right(font_reg(dev, data))
        BY <1>10, <2>3, <3>2
      <4>2. reg # 0 /\ reg # 1 /\ reg # 3 /\ reg # 4 /\ reg # 5 /\ reg # 6
            /\ reg # 7 /\ reg # 8 /\ reg # 9 /\ reg # 15
        BY <3>2
      <4>3. device_write(dev, reg, data) = font_reg(dev, data)
        BY <2>3, <3>2, <4>2, Zenon DEF device_write
      <4> QED
        BY <4>1, <4>3 DEF Right
    <3>3. CASE reg = 3
      <4>1. Right(font_data(dev, data))
        BY <1>11, <2>3, <3>3
      <4>2. reg # 0 /\ reg # 1 /\ reg # 2 /\ reg # 4 /\ reg # 5 /\ reg # 6
            /\ reg # 7 /\ reg # 8 /\ reg # 9 /\ reg # 15
        BY <3>3
      <4>3. device_write(dev, reg, data) = font_data(dev, data)
        BY <2>3, <3>3, <4>2, Zenon DEF device_write
      <4> QED
        BY <4>1, <4>3 DEF Right
    <3>4. CASE reg = 4
      <4>1. Right(device_command(dev, data))
        BY <1>12, <3>4
      <4>2. reg # 0 /\ reg # 1 /\ reg # 2 /\ reg # 3 /\ reg # 5 /\ reg # 6
            /\ reg # 7 /\ reg # 8 /\ reg # 9 /\ reg # 15
        BY <3>4
      <4>3. device_write(dev, reg, data) = device_command(dev, data)
        BY <2>3, <3>4, <4>2, Zenon DEF device_write
      <4> QED
        BY <4>1, <4>3 DEF Right
    <3>5. CASE reg = 5
      <4>1. Right(charset_reg(dev, data, "cfg_local_charset", Local))
        BY <1>13, <3>5
      <4>2. reg # 0 /\ reg # 1 /\ reg # 2 /\ reg # 3 /\ reg # 4 /\ reg # 6
            /\ reg # 7 /\ reg # 8 /\ reg # 9 /\ reg # 15
        BY <3>5
      <4>3. device_write(dev, reg, data) = charset_reg(dev, data, "cfg_local_charset", Local)
        BY <2>3, <3>5, <4>2, Zenon DEF device_write
      <4> QED
        BY <4>1, <4>3 DEF Right
    <3>6. CASE reg = 6
      <4>1. Right(charset_reg(dev, data, "cfg_alt_charset", Alternate))
        BY <1>13, <3>6
      <4>2. reg # 0 /\ reg # 1 /\ reg # 2 /\ reg # 3 /\ reg # 4 /\ reg # 5
            /\ reg # 7 /\ reg # 8 /\ reg # 9 /\ reg # 15
        BY <3>6
      <4>3. device_write(dev, reg, data) = charset_reg(dev, data, "cfg_alt_charset", Alternate)
        BY <2>3, <3>6, <4>2, Zenon DEF device_write
      <4> QED
        BY <4>1, <4>3 DEF Right
    <3>7. CASE reg = 7
      <4>1. Right(SetOrClear(dev, data, 1, 2, "VIDEO7"))
        BY <1>8, <2>1, <3>7
      <4>2. reg # 0 /\ reg # 1 /\ reg # 2 /\ reg # 3 /\ reg # 4 /\ reg # 5
            /\ reg # 6 /\ reg # 8 /\ reg # 9 /\ reg # 15
        BY <3>7
      <4>3. device_write(dev, reg, data) = SetOrClear(dev, data, 1, 2, "VIDEO7")
        BY <2>3, <3>7, <4>2, Zenon DEF device_write
      <4> QED
        BY <4>1, <4>3 DEF Right
    <3>8. CASE reg = 8
      <4>1. Right(machine_reg(dev, data))
        BY <1>14, <3>8
      <4>2. reg # 0 /\ reg # 1 /\ reg # 2 /\ reg # 3 /\ reg # 4 /\ reg # 5
            /\ reg # 6 /\ reg # 7 /\ reg # 9 /\ reg # 15
        BY <3>8
      <4>3. device_write(dev, reg, data) = machine_reg(dev, data)
        BY <2>3, <3>8, <4>2, Zenon DEF device_write
      <4> QED
        BY <4>1, <4>3 DEF Right
    <3>9. CASE reg = 9
      <4>1. Right(menu_reg(dev, data))
        BY <1>15, <3>9
      <4>2. reg # 0 /\ reg # 1 /\ reg # 2 /\ reg # 3 /\ reg # 4 /\ reg # 5
            /\ reg # 6 /\ reg # 7 /\ reg # 8 /\ reg # 15
        BY <3>9
      <4>3. device_write(dev, reg, data) = menu_reg(dev, data)
        BY <2>3, <3>9, <4>2, Zenon DEF device_write
      <4> QED
        BY <4>1, <4>3 DEF Right
    <3>10. CASE reg \notin {0, 1, 2, 3, 4, 5, 6, 7, 8, 9}
      <4>1. Right(dev)
        BY <1>16, <3>10
      <4>2. device_write(dev, reg, data) = dev
        BY <1>18, <2>3, <3>10, Zenon DEF device_write
      <4> QED
        BY <4>1, <4>2 DEF Right
    <3> QED
      BY <3>0, <3>1, <3>2, <3>3, <3>4, <3>5, <3>6, <3>7, <3>8, <3>9, <3>10
  <2> QED
    BY <2>2, <2>3
<1> QED
  BY <1>17, <1>18


-----------------------------------------------------------------------------
(* The images of the flash between which the power may go.                 *)

LEMMA SectorParts ==
  ASSUME NEW flash, NEW k \in Sectors
  PROVE  /\ k = 16 => Sector(flash, k) = flash.config
         /\ k = 17 => Sector(flash, k) = flash.fontdir
         /\ k \notin {16, 17} =>
              Sector(flash, k) = <<flash.fonts[2 * k], flash.fonts[2 * k + 1]>>
<1>1. k = 16 => Sector(flash, k) = flash.config
  <2> SUFFICES ASSUME k = 16 PROVE Sector(flash, k) = flash.config
    OBVIOUS
  <2>1. k # 17
    OBVIOUS
  <2> QED
    BY <2>1, Zenon DEF Sector
<1>2. k = 17 => Sector(flash, k) = flash.fontdir
  <2> SUFFICES ASSUME k = 17 PROVE Sector(flash, k) = flash.fontdir
    OBVIOUS
  <2>1. k # 16
    OBVIOUS
  <2> QED
    BY <2>1, Zenon DEF Sector
<1>3. k \notin {16, 17} =>
        Sector(flash, k) = <<flash.fonts[2 * k], flash.fonts[2 * k + 1]>>
  BY Zenon DEF Sector
<1> QED
  BY <1>1, <1>2, <1>3

\* Writing the configuration spoils no other sector.
LEMMA ConfigTorn ==
  ASSUME NEW flash, DOMAIN flash = {"config", "fontdir", "fonts"}, NEW config,
         NEW complete
  PROVE  TornSectors(flash, [flash EXCEPT !.config = config], complete) \subseteq {16}
<1> DEFINE image == [flash EXCEPT !.config = config]
<1>1. image.fonts = flash.fonts /\ image.fontdir = flash.fontdir
  OBVIOUS
<1> HIDE DEF image
<1>2. ASSUME NEW k \in Sectors, k # 16 PROVE Sector(image, k) = Sector(flash, k)
  BY <1>1, <1>2, SectorParts
<1>3. TornSectors(flash, image, complete) \subseteq {16}
  BY <1>2 DEF TornSectors
<1> QED
  BY <1>3 DEF image

\* ... nor does writing two fonts.
LEMMA FontsTorn ==
  ASSUME NEW flash, NEW slot \in Slots, NEW first, NEW second, NEW complete
  PROVE  TornSectors(flash, Image(flash, slot, flash.fontdir, first, second), complete)
           \subseteq {slot \div 2}
<1> DEFINE half  == slot \div 2
           image == Image(flash, slot, flash.fontdir, first, second)
<1>1. half \in 0 .. 15
  BY DEF Slots
<1>2. /\ image.config = flash.config /\ image.fontdir = flash.fontdir
      /\ \A x \in Slots : x # 2 * half /\ x # 2 * half + 1 =>
                            image.fonts[x] = flash.fonts[x]
  BY DEF Image
<1> HIDE DEF image, half
<1>3. ASSUME NEW k \in Sectors, k # half PROVE Sector(image, k) = Sector(flash, k)
  <2>1. CASE k \in {16, 17}
    BY <1>2, <2>1, SectorParts
  <2>2. CASE k \notin {16, 17}
    <3>1. /\ 2 * k \in Slots /\ 2 * k + 1 \in Slots
          /\ 2 * k # 2 * half /\ 2 * k # 2 * half + 1
          /\ 2 * k + 1 # 2 * half /\ 2 * k + 1 # 2 * half + 1
      BY <1>1, <1>3, <2>2 DEF Slots, Sectors
    <3> QED
      BY <1>2, <2>2, <3>1, SectorParts
  <2> QED
    BY <2>1, <2>2
<1>4. TornSectors(flash, image, complete) \subseteq {half}
  BY <1>3 DEF TornSectors
<1> QED
  BY <1>4 DEF image, half

\* ... nor does writing the directory once the fonts are there.
LEMMA DirectoryTorn ==
  ASSUME NEW flash, NEW slot \in Slots, NEW first, NEW second, NEW dir, NEW new
  PROVE  TornSectors(flash, Image(flash, slot, dir, first, second),
                            Image(flash, slot, new, first, second)) \subseteq {17}
<1> DEFINE image    == Image(flash, slot, dir, first, second)
           complete == Image(flash, slot, new, first, second)
<1>1. image.config = complete.config /\ image.fonts = complete.fonts
  BY DEF Image
<1> HIDE DEF image, complete
<1>2. ASSUME NEW k \in Sectors, k # 17 PROVE Sector(image, k) = Sector(complete, k)
  BY <1>1, <1>2, SectorParts
<1>3. TornSectors(flash, image, complete) \subseteq {17}
  BY <1>2 DEF TornSectors
<1> QED
  BY <1>3 DEF image, complete

LEMMA ImageOK ==
  ASSUME NEW flash, FlashOK(flash), NEW slot \in Slots,
         NEW dir, dir = Erased \/ dir \subseteq Slots, NEW first \in Font, NEW second \in Font
  PROVE  LET image == Image(flash, slot, dir, first, second)
         IN  FlashOK(image) /\ image.config = flash.config
<1> DEFINE image == Image(flash, slot, dir, first, second)
<1>1. image.fonts \in [Slots -> Font]
  BY DEF Image, FlashOK
<1>2. /\ DOMAIN image = {"config", "fontdir", "fonts"}
      /\ image.config = flash.config /\ image.fontdir = dir
  BY DEF Image
<1> HIDE DEF image
<1> QED
  BY <1>1, <1>2 DEF FlashOK, image

\* The flash in good order, with at most one sector spoilt.
OneTorn(image, t) ==
  FlashOK(image) /\ \E k \in Sectors : TornSectors(dev.flash, image, t.flash) \subseteq {k}

LEMMA AppendedFive ==
  ASSUME NEW x1, NEW x2, NEW x3, NEW x4, NEW x5
  PROVE  /\ LET r == Append(Append(<< >>, x1), x2)
            IN  DOMAIN r = {1, 2} /\ r[1] = x1 /\ r[2] = x2
         /\ LET r == Append(Append(Append(Append(Append(<< >>, x1), x2), x3), x4), x5)
            IN  /\ DOMAIN r = {1, 2, 3, 4, 5}
                /\ r[1] = x1 /\ r[2] = x2 /\ r[3] = x3 /\ r[4] = x4 /\ r[5] = x5
<1> DEFINE S  == {x1, x2, x3, x4, x5}
           r0 == << >>
           r1 == Append(r0, x1)
           r2 == Append(r1, x2)
           r3 == Append(r2, x3)
           r4 == Append(r3, x4)
           r5 == Append(r4, x5)
<1>1. r0 \in Seq(S) /\ Len(r0) = 0
  OBVIOUS
<1>2. x1 \in S /\ x2 \in S /\ x3 \in S /\ x4 \in S /\ x5 \in S
  OBVIOUS
<1> HIDE DEF S, r0
<1>3. r1 \in Seq(S)
  BY <1>1, <1>2, AppendProperties
<1>4. Len(r1) = Len(r0) + 1 /\ r1[Len(r0) + 1] = x1
  BY <1>1, <1>2, AppendProperties
<1>5. Len(r1) = 1 /\ r1[1] = x1
  BY <1>1, <1>4
<1> HIDE DEF r1
<1>6. r2 \in Seq(S)
  BY <1>2, <1>3, AppendProperties
<1>7. /\ Len(r2) = Len(r1) + 1 /\ r2[Len(r1) + 1] = x2
      /\ \A i \in 1 .. Len(r1) : r2[i] = r1[i]
  BY <1>2, <1>3, AppendProperties
<1> HIDE DEF r2
<1>8. Len(r2) = 2
  BY <1>7, <1>5
<1>9. r2[1] = x1 /\ r2[2] = x2
  BY <1>7, <1>5, <1>5
<1>10. r3 \in Seq(S)
  BY <1>2, <1>6, AppendProperties
<1>11. /\ Len(r3) = Len(r2) + 1 /\ r3[Len(r2) + 1] = x3
      /\ \A i \in 1 .. Len(r2) : r3[i] = r2[i]
  BY <1>2, <1>6, AppendProperties
<1> HIDE DEF r3
<1>12. Len(r3) = 3
  BY <1>11, <1>8
<1>13. r3[1] = x1 /\ r3[2] = x2 /\ r3[3] = x3
  BY <1>11, <1>8, <1>9
<1>14. r4 \in Seq(S)
  BY <1>2, <1>10, AppendProperties
<1>15. /\ Len(r4) = Len(r3) + 1 /\ r4[Len(r3) + 1] = x4
      /\ \A i \in 1 .. Len(r3) : r4[i] = r3[i]
  BY <1>2, <1>10, AppendProperties
<1> HIDE DEF r4
<1>16. Len(r4) = 4
  BY <1>15, <1>12
<1>17. r4[1] = x1 /\ r4[2] = x2 /\ r4[3] = x3 /\ r4[4] = x4
  BY <1>15, <1>12, <1>13
<1>18. r5 \in Seq(S)
  BY <1>2, <1>14, AppendProperties
<1>19. /\ Len(r5) = Len(r4) + 1 /\ r5[Len(r4) + 1] = x5
      /\ \A i \in 1 .. Len(r4) : r5[i] = r4[i]
  BY <1>2, <1>14, AppendProperties
<1> HIDE DEF r5
<1>20. Len(r5) = 5
  BY <1>19, <1>16
<1>21. r5[1] = x1 /\ r5[2] = x2 /\ r5[3] = x3 /\ r5[4] = x4 /\ r5[5] = x5
  BY <1>19, <1>16, <1>17
<1>22. DOMAIN r2 = {1, 2}
  BY <1>6, <1>8
<1>23. DOMAIN r5 = {1, 2, 3, 4, 5}
  <2>1. DOMAIN r5 = 1 .. 5
    BY <1>18, <1>20
  <2> QED
    BY <2>1
<1> QED
  BY <1>9, <1>21, <1>22, <1>23 DEF r0, r1, r2, r3, r4, r5

LEMMA FontImages ==
  ASSUME Good(dev), UploadOK(dev), FlashOK(dev.flash), dev.trail = << >>,
         NEW t, Good(t), FontWritten(dev, t)
  PROVE  /\ FlashOK(t.flash) /\ t.flash.config = dev.flash.config
         /\ \A i \in DOMAIN t.trail :
              OneTorn(t.trail[i], t) /\ t.trail[i].config = dev.flash.config
<1> DEFINE slot == dev.custom_rom_font_nr
           buffer == dev.custom_font_buffer
           dir == dev.flash.fontdir
           a == Image(dev.flash, slot, dir, NoBytes, NoBytes)
           b == Image(dev.flash, slot, dir, buffer[0], NoBytes)
           c == Image(dev.flash, slot, dir, buffer[0], buffer[1])
           d == Image(dev.flash, slot, Erased, buffer[0], buffer[1])
           Right(image) == OneTorn(image, t) /\ image.config = dev.flash.config
<1>1. /\ slot \in Slots /\ buffer[0] \in Font /\ buffer[1] \in Font
      /\ NoBytes \in Font /\ (dir = Erased \/ dir \subseteq Slots)
      /\ t.invalid_fonts \subseteq Slots
  BY DEF UploadOK, FlashOK, NoBytes, Font, Good, SettingsOK
<1>2. /\ t.flash = Image(dev.flash, slot, t.invalid_fonts, buffer[0], buffer[1])
      /\ DOMAIN t.trail = {1, 2, 3, 4, 5}
      /\ t.trail[1] = a /\ t.trail[2] = b /\ t.trail[3] = c
      /\ t.trail[4] = d /\ t.trail[5] = t.flash
  <2>1. t.flash = Image(dev.flash, slot, t.invalid_fonts, buffer[0], buffer[1])
        /\ t.trail = Append(Append(Append(Append(Append(dev.trail, a), b), c), d), t.flash)
    BY DEF FontWritten
  <2> HIDE DEF a, b, c, d
  <2> QED
    BY <2>1, AppendedFive
<1>3. slot \div 2 \in Sectors /\ 17 \in Sectors
  <2>1. slot \in 0 .. 31
    BY <1>1 DEF Slots
  <2> HIDE DEF slot
  <2> QED
    BY <2>1 DEF Sectors
<1>4. Right(a) /\ Right(b) /\ Right(c)
  <2>1. /\ FlashOK(a) /\ FlashOK(b) /\ FlashOK(c)
        /\ a.config = dev.flash.config /\ b.config = dev.flash.config
        /\ c.config = dev.flash.config
    BY <1>1, ImageOK
  <2>2. /\ TornSectors(dev.flash, a, t.flash) \subseteq {slot \div 2}
        /\ TornSectors(dev.flash, b, t.flash) \subseteq {slot \div 2}
        /\ TornSectors(dev.flash, c, t.flash) \subseteq {slot \div 2}
    <3>1. \A x, y : TornSectors(dev.flash, Image(dev.flash, slot, dir, x, y), t.flash)
                      \subseteq {slot \div 2}
      BY <1>1, FontsTorn
    <3> QED
      BY <3>1, Zenon
  <2> HIDE DEF a, b, c, slot
  <2> QED
    BY <1>3, <2>1, <2>2 DEF OneTorn
<1>5. Right(d) /\ Right(t.flash)
  <2>1. /\ FlashOK(d) /\ d.config = dev.flash.config
        /\ FlashOK(t.flash) /\ t.flash.config = dev.flash.config
    BY <1>1, <1>2, ImageOK
  <2>2. \A old : /\ TornSectors(old, d, t.flash) = TornSectors(old, d, t.flash)
                 /\ TornSectors(old, t.flash, t.flash) = {}
    BY DEF TornSectors
  <2>3. TornSectors(dev.flash, d, t.flash) \subseteq {17}
    BY <1>1, <1>2, DirectoryTorn
  <2> HIDE DEF d
  <2> QED
    BY <1>3, <2>1, <2>2, <2>3 DEF OneTorn
<1> HIDE DEF Right, a, b, c, d
<1>6. \A i \in DOMAIN t.trail : Right(t.trail[i])
  BY <1>2, <1>4, <1>5
<1> QED
  BY <1>5, <1>6 DEF Right, OneTorn

LEMMA SavedImages ==
  ASSUME FlashOK(dev.flash), dev.trail = << >>, NEW t, Good(t), Saved(dev, t)
  PROVE  /\ FlashOK(t.flash) /\ t.flash.config = Stored(t) /\ Saves(t)
         /\ \A i \in DOMAIN t.trail :
              OneTorn(t.trail[i], t) /\ t.trail[i].config \in {Erased, Stored(t)}
<1> DEFINE erased == [dev.flash EXCEPT !.config = Erased]
           Right(image) == OneTorn(image, t) /\ image.config \in {Erased, Stored(t)}
<1>1. /\ t.flash = [dev.flash EXCEPT !.config = Stored(t)]
      /\ DOMAIN t.trail = {1, 2} /\ t.trail[1] = erased /\ t.trail[2] = t.flash
      /\ DOMAIN dev.flash = {"config", "fontdir", "fonts"}
  <2>1. /\ t.flash = [dev.flash EXCEPT !.config = Stored(t)]
        /\ t.trail = Append(Append(dev.trail, erased), t.flash)
        /\ DOMAIN dev.flash = {"config", "fontdir", "fonts"}
    BY Zenon DEF Saved, FlashOK
  <2> HIDE DEF erased
  <2> QED
    BY <2>1, AppendedFive
<1>2. WellStored(Stored(t)) /\ Stored(t) # Erased
  BY StoredWell
<1>3. /\ FlashOK(t.flash) /\ t.flash.config = Stored(t)
      /\ FlashOK(erased) /\ erased.config = Erased
  BY <1>1, <1>2 DEF FlashOK, WellStored
<1>4. /\ TornSectors(dev.flash, erased, t.flash) \subseteq {16}
      /\ TornSectors(dev.flash, t.flash, t.flash) \subseteq {16}
  <2>1. \A config : TornSectors(dev.flash, [dev.flash EXCEPT !.config = config], t.flash)
                      \subseteq {16}
    BY <1>1, ConfigTorn
  <2> QED
    BY <1>1, <2>1, Zenon
<1>5. 16 \in Sectors
  BY DEF Sectors
<1> HIDE DEF erased
<1>6. Right(erased) /\ Right(t.flash)
  BY <1>3, <1>4, <1>5 DEF OneTorn
<1> HIDE DEF Right
<1>7. DOMAIN t.trail = {1, 2} /\ t.trail[1] = erased /\ t.trail[2] = t.flash
  BY <1>1
<1>8. Saves(t)
  BY <1>2, <1>3, <1>7 DEF Saves
<1>9. \A i \in DOMAIN t.trail : Right(t.trail[i])
  BY <1>6, <1>7
<1> QED
  BY <1>3, <1>8, <1>9 DEF Right

-----------------------------------------------------------------------------
(* The steps that write no register.                                       *)

\* Whatever core 0, the detection, the ROMX and a reset do.
Calm(s, t) ==
  /\ Good(t) /\ LockOK(t) /\ Quiet(s, t) /\ ReadsDirectory(s, t) /\ KeepsLocal(s, t)
  /\ t.custom_rom_font_nr = s.custom_rom_font_nr
  /\ t.custom_rom_font_type = s.custom_rom_font_type
  /\ t.custom_rom_write_offset = s.custom_rom_write_offset
  /\ t.custom_rom_write_count = s.custom_rom_write_count
  /\ t.custom_font_buffer = s.custom_font_buffer
  /\ DOMAIN t.character_rom = DOMAIN s.character_rom
  /\ InEffect(s) => InEffect(t)

LEMMA StepCalm ==
  ASSUME NEW s, LockOK(s), NEW t, Step(s, t), Quiet(s, t), KeepsLocal(s, t),
         InEffect(s) => InEffect(t)
  PROVE  Calm(s, t)
  BY DEF Calm, Step, KeepsUpload, LockOK

LEMMA DetectionCalm ==
  ASSUME NEW s, Good(s), LockOK(s), NEW machine \in Machine,
         s.current_machine = MACHINE_AUTO
  PROVE  LET t == set_machine([s EXCEPT !.detected_machine = machine], machine)
         IN  Step(s, t) /\ Calm(s, t)
<1> DEFINE u == [s EXCEPT !.detected_machine = machine]
           t == set_machine(u, machine)
<1>1. /\ DOMAIN u = Fields /\ u.detected_machine = machine
      /\ \A f \in Fields \ {"detected_machine"} : u[f] = s[f]
  BY DEF Good, Fields
<1> HIDE DEF u
<1>2. Good(u)
  BY <1>1 DEF Good, SettingsOK, Follow, Fields
<1>3. Step(s, u) /\ Quiet(s, u)
  BY <1>1, <1>2 DEF Step, Renews, ReadsDirectory, KeepsUpload, Quiet, Fields
<1>4. Step(u, t) /\ Quiet(u, t) /\ KeepsLocal(u, t)
      /\ (machine = Effective(u) => InEffect(t))
  BY <1>2, SetMachineStep
<1> HIDE DEF t
<1>5. InEffect(s) => InEffect(t)
  <2>1. InEffect(s) => s.cfg_machine = MACHINE_AUTO
    BY DEF InEffect, Effective
  <2>2. s.cfg_machine = MACHINE_AUTO => Effective(u) = machine
    BY <1>1 DEF Effective, Fields
  <2> QED
    BY <1>4, <2>1, <2>2
<1>6. Step(s, t) /\ Quiet(s, t) /\ KeepsLocal(s, t)
  BY <1>1, <1>3, <1>4, StepTwice DEF Quiet, KeepsLocal, Fields
<1>7. Step(s, t) /\ Calm(s, t)
  BY <1>5, <1>6, StepCalm
<1> QED
  BY <1>7 DEF t, u

LEMMA RomxCalm ==
  ASSUME NEW s, Good(s), LockOK(s), NEW bank \in 0 .. CUSTOM_FONT_COUNT - 1
  PROVE  LET t == [s EXCEPT !.cfg_local_charset = FirstCustom + bank,
                            !.reload_charsets = @ \cup {Local}]
         IN  Step(s, t) /\ Calm(s, t)
<1> DEFINE font == FirstCustom + bank
           t == [s EXCEPT !.cfg_local_charset = font, !.reload_charsets = @ \cup {Local}]
<1>1. font \in 0 .. MAX_FONT_COUNT - 1 /\ font \in 0 .. MAX_FONT_COUNT
      /\ font < MAX_FONT_COUNT
  BY DEF FirstCustom, MAX_FONT_COUNT, CUSTOM_FONT_COUNT
<1> HIDE DEF font
<1>2. /\ DOMAIN t = Fields /\ t.cfg_local_charset = font
      /\ t.reload_charsets = s.reload_charsets \cup {Local}
      /\ \A f \in Fields \ {"cfg_local_charset", "reload_charsets"} : t[f] = s[f]
  BY DEF Good, Fields
<1> HIDE DEF t
<1>3. t.reload_charsets \subseteq {Local, Alternate, Videx}
  BY <1>2, GoodRanges
<1>4. Good(t)
  BY <1>1, <1>2, <1>3 DEF Good, SettingsOK, Follow, Fields
<1>5. Step(s, t) /\ Quiet(s, t) /\ KeepsLocal(s, t) /\ (InEffect(s) => InEffect(t))
  BY <1>1, <1>2, <1>4 DEF Step, Renews, ReadsDirectory, KeepsUpload, Quiet, InEffect,
     Effective, KeepsLocal, Fields
<1>6. Step(s, t) /\ Calm(s, t)
  BY <1>5, StepCalm
<1> QED
  BY <1>6 DEF t, font

LEMMA ResetCalm ==
  ASSUME NEW s, Good(s), LockOK(s)
  PROVE  LET t == [Flag(s, FALSE, "MENU_ENABLE") EXCEPT
                     !.soft_switches = {"TEXT", "V7_MODE1", "V7_MODE2"},
                     !.dev_config_lock = Locked]
         IN  Calm(s, t) /\ Renews(s, t) /\ t.character_rom = s.character_rom
<1> DEFINE u == Flag(s, FALSE, "MENU_ENABLE")
           t == [u EXCEPT !.soft_switches = {"TEXT", "V7_MODE1", "V7_MODE2"},
                          !.dev_config_lock = Locked]
<1>1. Proper(s, u) /\ Good(u) /\ \A f \in Fields \ {"internal_flags"} : u[f] = s[f]
  BY FlagProper DEF Proper, Step
<1> HIDE DEF u
<1>2. /\ DOMAIN t = Fields /\ t.dev_config_lock = Locked
      /\ \A f \in Fields \ {"soft_switches", "dev_config_lock"} : t[f] = u[f]
  BY <1>1 DEF Good, Fields
<1> HIDE DEF t
<1>3. Good(t)
  BY <1>1, <1>2 DEF Good, SettingsOK, Follow, Fields
<1>4. Renews(s, t) /\ ReadsDirectory(s, t) /\ t.character_rom = s.character_rom
  BY <1>1, <1>2 DEF Proper, Step, Renews, ReadsDirectory, Fields
<1>5. Quiet(s, t) /\ KeepsLocal(s, t) /\ (InEffect(s) => InEffect(t))
  BY <1>1, <1>2 DEF Proper, Quiet, KeepsLocal, InEffect, Effective, Fields
<1>6. Calm(s, t)
  BY <1>1, <1>2, <1>3, <1>4, <1>5 DEF Calm, LockOK, Fields
<1>7. Calm(s, t) /\ Renews(s, t) /\ t.character_rom = s.character_rom
  BY <1>4, <1>6
<1> QED
  BY <1>7 DEF t, u

\* What a load of character sets leaves alone.
OnlyLoads(s, t) ==
  /\ DOMAIN t = Fields
  /\ \A f \in Fields \ {"character_rom", "character_rom_videx", "reload_charsets"} :
       t[f] = s[f]
  /\ t.reload_charsets \in {s.reload_charsets, {}}
  /\ DOMAIN t.character_rom = DOMAIN s.character_rom

LEMMA LoadsCalm ==
  ASSUME NEW s, Good(s), LockOK(s), NEW t, OnlyLoads(s, t)
  PROVE  Calm(s, t)
<1>1. Good(t)
  BY DEF Good, OnlyLoads, SettingsOK, Follow, Fields
<1> QED
  BY <1>1 DEF OnlyLoads, Calm, LockOK, Quiet, ReadsDirectory, KeepsLocal, InEffect,
     Effective, Fields

LEMMA LoadLocalOnly ==
  ASSUME NEW s, DOMAIN s = Fields, DOMAIN s.character_rom = {Local, Alternate}
  PROVE  LET t == load_local(s)
         IN  /\ OnlyLoads(s, t) /\ t.reload_charsets = s.reload_charsets
             /\ t.character_rom[Local] =
                  (IF Local \in s.reload_charsets THEN Selected(s, s.cfg_local_charset)
                   ELSE s.character_rom[Local])
             /\ t.character_rom[Alternate] = s.character_rom[Alternate]
<1>1. Local # Alternate
  BY DEF Local, Alternate
<1> DEFINE new == Selected(s, s.cfg_local_charset)
<1> HIDE DEF new
<1>2. load_local(s) = IF Local \in s.reload_charsets
                      THEN [s EXCEPT !.character_rom[Local] = new] ELSE s
  BY Zenon DEF load_local, new
<1>3. CASE Local \in s.reload_charsets
  <2> DEFINE t == [s EXCEPT !.character_rom[Local] = new]
  <2>1. /\ OnlyLoads(s, t) /\ t.reload_charsets = s.reload_charsets
        /\ t.character_rom[Local] = new
        /\ t.character_rom[Alternate] = s.character_rom[Alternate]
    BY <1>1 DEF OnlyLoads, Fields
  <2> HIDE DEF t
  <2>2. load_local(s) = t
    BY <1>2, <1>3 DEF t
  <2> QED
    BY <1>3, <2>1, <2>2 DEF new
<1>4. CASE Local \notin s.reload_charsets
  <2>1. load_local(s) = s
    BY <1>2, <1>4
  <2> QED
    BY <1>4, <2>1 DEF OnlyLoads
<1> QED
  BY <1>3, <1>4

LEMMA LoadAlternateOnly ==
  ASSUME NEW s, DOMAIN s = Fields, DOMAIN s.character_rom = {Local, Alternate}
  PROVE  LET t == load_alternate(s)
         IN  /\ OnlyLoads(s, t) /\ t.reload_charsets = s.reload_charsets
             /\ t.character_rom[Alternate] =
                  (IF Alternate \in s.reload_charsets THEN Selected(s, s.cfg_alt_charset)
                   ELSE s.character_rom[Alternate])
             /\ t.character_rom[Local] = s.character_rom[Local]
<1>1. Local # Alternate
  BY DEF Local, Alternate
<1> DEFINE new == Selected(s, s.cfg_alt_charset)
<1> HIDE DEF new
<1>2. load_alternate(s) = IF Alternate \in s.reload_charsets
                          THEN [s EXCEPT !.character_rom[Alternate] = new] ELSE s
  BY Zenon DEF load_alternate, new
<1>3. CASE Alternate \in s.reload_charsets
  <2> DEFINE t == [s EXCEPT !.character_rom[Alternate] = new]
  <2>1. /\ OnlyLoads(s, t) /\ t.reload_charsets = s.reload_charsets
        /\ t.character_rom[Alternate] = new
        /\ t.character_rom[Local] = s.character_rom[Local]
    BY <1>1 DEF OnlyLoads, Fields
  <2> HIDE DEF t
  <2>2. load_alternate(s) = t
    BY <1>2, <1>3 DEF t
  <2> QED
    BY <1>3, <2>1, <2>2 DEF new
<1>4. CASE Alternate \notin s.reload_charsets
  <2>1. load_alternate(s) = s
    BY <1>2, <1>4
  <2> QED
    BY <1>4, <2>1 DEF OnlyLoads
<1> QED
  BY <1>3, <1>4

LEMMA LoadVidexOnly ==
  ASSUME NEW s, DOMAIN s = Fields
  PROVE  LET t == load_videx(s)
         IN  /\ OnlyLoads(s, t) /\ t.reload_charsets = s.reload_charsets
             /\ t.character_rom = s.character_rom
<1>1. load_videx(s) \in {s, [s EXCEPT !.character_rom_videx = s.cfg_videx_selection]}
  BY Zenon DEF load_videx
<1> DEFINE new == [s EXCEPT !.character_rom_videx = s.cfg_videx_selection]
<1>2. /\ OnlyLoads(s, new) /\ new.reload_charsets = s.reload_charsets
      /\ new.character_rom = s.character_rom
  BY DEF OnlyLoads, Fields
<1> HIDE DEF new
<1>3. OnlyLoads(s, s)
  BY DEF OnlyLoads
<1>4. load_videx(s) = s \/ load_videx(s) = new
  BY <1>1 DEF new
<1> QED
  BY <1>2, <1>3, <1>4

\* All parts of config_load_charsets.
LEMMA LoadAllOnly ==
  ASSUME NEW s, DOMAIN s = Fields, DOMAIN s.character_rom = {Local, Alternate}
  PROVE  LET t == config_load_charsets(s)
         IN  /\ OnlyLoads(s, t) /\ t.reload_charsets = {}
             /\ t.character_rom[Local] =
                  (IF Local \in s.reload_charsets THEN Selected(s, s.cfg_local_charset)
                   ELSE s.character_rom[Local])
             /\ t.character_rom[Alternate] =
                  (IF Alternate \in s.reload_charsets THEN Selected(s, s.cfg_alt_charset)
                   ELSE s.character_rom[Alternate])
<1> DEFINE a == load_local(s)
           b == load_alternate(a)
           c == load_videx(b)
           t == [c EXCEPT !.reload_charsets = {}]
           local == IF Local \in s.reload_charsets THEN Selected(s, s.cfg_local_charset)
                    ELSE s.character_rom[Local]
<1>1. /\ OnlyLoads(s, a) /\ a.reload_charsets = s.reload_charsets
      /\ a.character_rom[Local] = local
      /\ a.character_rom[Alternate] = s.character_rom[Alternate]
  BY LoadLocalOnly
<1> HIDE DEF a, local
<1>2. DOMAIN a = Fields /\ DOMAIN a.character_rom = {Local, Alternate}
  BY <1>1 DEF OnlyLoads
<1> DEFINE alt == IF Alternate \in a.reload_charsets THEN Selected(a, a.cfg_alt_charset)
                  ELSE a.character_rom[Alternate]
<1>3. /\ OnlyLoads(a, b) /\ b.reload_charsets = a.reload_charsets
      /\ b.character_rom[Alternate] = alt
      /\ b.character_rom[Local] = a.character_rom[Local]
  BY <1>2, LoadAlternateOnly
<1>4. alt = IF Alternate \in s.reload_charsets THEN Selected(s, s.cfg_alt_charset)
            ELSE s.character_rom[Alternate]
  <2>1. /\ a.cfg_alt_charset = s.cfg_alt_charset /\ a.invalid_fonts = s.invalid_fonts
        /\ a.flash = s.flash /\ a.unenhance_font = s.unenhance_font
    BY <1>1 DEF OnlyLoads, Fields
  <2>2. Selected(a, a.cfg_alt_charset) = Selected(s, s.cfg_alt_charset)
    BY <2>1, Zenon DEF Selected, Glyphs, check_valid_font
  <2> QED
    BY <1>1, <2>2
<1> HIDE DEF b, alt
<1>5. DOMAIN b = Fields
  BY <1>3 DEF OnlyLoads
<1>6. /\ OnlyLoads(b, c) /\ c.reload_charsets = b.reload_charsets
      /\ c.character_rom = b.character_rom
  BY <1>5, LoadVidexOnly
<1> HIDE DEF c
<1>7. /\ DOMAIN t = Fields /\ t.reload_charsets = {}
      /\ \A f \in Fields \ {"reload_charsets"} : t[f] = c[f]
  BY <1>6 DEF OnlyLoads, Fields
<1> HIDE DEF t
<1>8. OnlyLoads(s, t)
  <2>1. \A f \in Fields \ {"character_rom", "character_rom_videx", "reload_charsets"} :
          t[f] = s[f]
    BY <1>1, <1>3, <1>6, <1>7 DEF OnlyLoads
  <2>2. DOMAIN t.character_rom = DOMAIN s.character_rom
    BY <1>1, <1>3, <1>6, <1>7 DEF OnlyLoads, Fields
  <2> QED
    BY <1>7, <2>1, <2>2 DEF OnlyLoads
<1>9. t.character_rom = b.character_rom
  BY <1>6, <1>7 DEF Fields
<1> QED
  BY <1>1, <1>3, <1>4, <1>7, <1>8, <1>9, Zenon
     DEF config_load_charsets, t, c, b, a, local

-----------------------------------------------------------------------------
(* The inductive invariant.                                                *)

\* Good, and what the flash, the upload and the lock look like between handlers.
Sound(s, bytes) ==
  /\ Good(s) /\ LockOK(s) /\ UploadOK(s) /\ FlashOK(s.flash) /\ Uploading(s, bytes)
  /\ s.trail = << >>
  /\ s.flash.fontdir \in {Erased, s.invalid_fonts}
  /\ DOMAIN s.character_rom = {Local, Alternate}

Inv == Sound(dev, sent) /\ loading \in {"no", "local", "alternate", "videx", "clear"}

LEMMA CalmSound ==
  ASSUME NEW s, NEW bytes, Sound(s, bytes), NEW t, Calm(s, t)
  PROVE  Sound(t, bytes)
<1>1. UploadOK(t) /\ Uploading(t, bytes)
  BY DEF Sound, Calm, Quiet, UploadOK, Uploading
<1>2. t.flash = s.flash /\ t.trail = << >> /\ ReadsDirectory(s, t)
  BY DEF Sound, Calm, Quiet
<1>3. t.flash.fontdir \in {Erased, t.invalid_fonts}
  BY <1>2 DEF Sound, ReadsDirectory
<1> QED
  BY <1>1, <1>2, <1>3 DEF Sound, Calm

LEMMA BootSound ==
  ASSUME NEW flash, FlashOK(flash)
  PROVE  /\ Sound(Boot(flash), << >>) /\ InEffect(Boot(flash))
         /\ Boot(flash).cfg_local_charset < MAX_FONT_COUNT
         /\ {Local, Alternate} \subseteq Boot(flash).reload_charsets
         /\ Boot(flash).flash = flash
<1> DEFINE t == Boot(flash)
<1>1. Booted(t, flash)
  BY BootStarts
<1> HIDE DEF t
<1>2. Uploading(t, << >>)
  <2>1. ~ (CHARACTER_ROM_SIZE + 1 <= CHARACTER_ROM_SIZE)
    BY RomSizeAssumption
  <2> QED
    BY <1>1, <2>1 DEF Booted, Uploading
<1>3. LockOK(t)
  BY <1>1 DEF Booted, LockOK
<1>4. Sound(t, << >>)
  BY <1>1, <1>2, <1>3 DEF Booted, Sound
<1> QED
  BY <1>1, <1>4 DEF Booted, t

LEMMA SettledSame ==
  ASSUME NEW t, DOMAIN t = Fields
  PROVE  LET u == Settle(t)
         IN  /\ DOMAIN u = Fields /\ u.trail = << >>
             /\ \A f \in Fields \ {"trail"} : u[f] = t[f]
  BY DEF Settle, Fields

LEMMA WriteSound ==
  ASSUME Sound(dev, sent), NEW reg \in 0 .. 15, NEW data \in Byte
  PROVE  LET t == device_write(dev, reg, data)
         IN  /\ Written(dev, t, reg, data) /\ FlashOK(t.flash) /\ UploadOK(t)
             /\ Sound(Settle(t), Sent(reg, data))
<1> DEFINE t == device_write(dev, reg, data)
           u == Settle(t)
<1>1. Written(dev, t, reg, data) /\ UploadOK(t) /\ Uploading(t, Sent(reg, data))
  BY DeviceWritten DEF Sound
<1> HIDE DEF t
<1>2. FlashOK(t.flash) /\ t.flash.fontdir \in {Erased, t.invalid_fonts}
  <2>1. CASE ReadsDirectory(dev, t) /\ Quiet(dev, t)
    BY <2>1 DEF Sound, Quiet, ReadsDirectory
  <2>2. CASE ReadsDirectory(dev, t) /\ Saved(dev, t)
    <3>1. FlashOK(t.flash)
      BY <1>1, <2>2, SavedImages DEF Sound, Written
    <3>2. t.flash.fontdir = dev.flash.fontdir
      BY <2>2 DEF Saved, Sound, FlashOK
    <3> QED
      BY <2>2, <3>1, <3>2 DEF Sound, ReadsDirectory
  <2>3. CASE FontWritten(dev, t)
    <3>1. FlashOK(t.flash)
      BY <1>1, <2>3, FontImages DEF Sound, Written
    <3>2. t.flash.fontdir = t.invalid_fonts
      BY <2>3 DEF FontWritten, Image
    <3> QED
      BY <3>1, <3>2
  <2> QED
    BY <1>1, <2>1, <2>2, <2>3 DEF Written
<1>3. /\ DOMAIN u = Fields /\ u.trail = << >>
      /\ \A f \in Fields \ {"trail"} : u[f] = t[f]
  BY <1>1, SettledSame DEF Written, Good
<1> HIDE DEF u
<1>4. Good(u) /\ LockOK(u)
  BY <1>1, <1>3 DEF Written, Good, SettingsOK, Follow, LockOK, Fields
<1>5. UploadOK(u) /\ Uploading(u, Sent(reg, data))
  <2>1. /\ u.custom_rom_font_nr = t.custom_rom_font_nr
        /\ u.custom_rom_font_type = t.custom_rom_font_type
        /\ u.custom_rom_write_offset = t.custom_rom_write_offset
        /\ u.custom_rom_write_count = t.custom_rom_write_count
        /\ u.custom_font_buffer = t.custom_font_buffer
        /\ u.flash = t.flash
    BY <1>3 DEF Fields
  <2> QED
    BY <1>1, <2>1 DEF UploadOK, Uploading
<1>6. u.flash = t.flash /\ u.invalid_fonts = t.invalid_fonts
      /\ DOMAIN u.character_rom = {Local, Alternate}
  BY <1>1, <1>3 DEF Written, Sound, Fields
<1>7. Sound(u, Sent(reg, data))
  BY <1>2, <1>3, <1>4, <1>5, <1>6 DEF Sound
<1> QED
  BY <1>1, <1>2, <1>7 DEF t, u

\* Where the power goes during a write, the flash is in good order.
LEMMA TrailSound ==
  ASSUME Sound(dev, sent), NEW reg \in 0 .. 15, NEW data \in Byte
  PROVE  LET t == device_write(dev, reg, data)
         IN  \A i \in DOMAIN t.trail :
               /\ OneTorn(t.trail[i], t)
               /\ \/ t.trail[i].config = dev.flash.config
                  \/ SameChoice(dev, t) /\ t.trail[i].config \in {Erased, Stored(t)}
<1> DEFINE t == device_write(dev, reg, data)
<1>1. Written(dev, t, reg, data)
  BY WriteSound, Zenon
<1> HIDE DEF t
<1>2. \A i \in DOMAIN t.trail :
        /\ OneTorn(t.trail[i], t)
        /\ \/ t.trail[i].config = dev.flash.config
           \/ SameChoice(dev, t) /\ t.trail[i].config \in {Erased, Stored(t)}
  <2>1. CASE Quiet(dev, t)
    BY <2>1 DEF Sound, Quiet
  <2>2. CASE Saved(dev, t)
    BY <1>1, <2>2, SavedImages DEF Sound, Written, Saved
  <2>3. CASE FontWritten(dev, t)
    BY <1>1, <2>3, FontImages DEF Sound, Written
  <2> QED
    BY <1>1, <2>1, <2>2, <2>3 DEF Written
<1> QED
  BY <1>2 DEF t

\* Everything but the register writes and the power.
CalmAction ==
  \/ \E m \in Detected : machine_auto_detection(m)
  \/ \E b \in RomxBanks : RomxSelect(b)
  \/ Reset
  \/ StartLoading \/ LoadLocal \/ LoadAlternate \/ LoadVidex \/ ClearReload
  \/ LoadUndisturbed
  \/ Switch

LEMMA CalmActions ==
  ASSUME Inv, CalmAction
  PROVE  /\ Calm(dev, dev') /\ sent' = sent /\ kept' = kept
         /\ loading' \in {"no", "local", "alternate", "videx", "clear"}
<1>1. /\ Good(dev) /\ LockOK(dev) /\ DOMAIN dev = Fields
      /\ DOMAIN dev.character_rom = {Local, Alternate}
      /\ loading \in {"no", "local", "alternate", "videx", "clear"}
  BY DEF Inv, Sound, Good
<1>2. ASSUME NEW m \in Detected, machine_auto_detection(m) PROVE Calm(dev, dev')
  <2>1. m \in Machine /\ dev.current_machine = MACHINE_AUTO
        /\ dev' = set_machine([dev EXCEPT !.detected_machine = m], m)
    BY <1>2, DetectedAssumption DEF machine_auto_detection
  <2> QED
    BY <1>1, <2>1, DetectionCalm
<1>3. ASSUME NEW b \in RomxBanks, RomxSelect(b) PROVE Calm(dev, dev')
  <2>1. b \in 0 .. CUSTOM_FONT_COUNT - 1
    BY RomxBanksAssumption
  <2>2. dev' = [dev EXCEPT !.cfg_local_charset = FirstCustom + b,
                           !.reload_charsets = @ \cup {Local}]
    BY <1>3 DEF RomxSelect
  <2> QED
    BY <1>1, <2>1, <2>2, RomxCalm
<1>4. ASSUME Reset PROVE Calm(dev, dev')
  BY <1>1, <1>4, ResetCalm DEF Reset
<1>5. ASSUME NEW t, OnlyLoads(dev, t), dev' = t PROVE Calm(dev, dev')
  BY <1>1, <1>5, LoadsCalm
<1>6. ASSUME StartLoading PROVE Calm(dev, dev')
  <2>1. OnlyLoads(dev, dev)
    BY <1>1 DEF OnlyLoads
  <2> QED
    BY <1>5, <1>6, <2>1 DEF StartLoading
<1>7. ASSUME LoadLocal PROVE Calm(dev, dev')
  BY <1>1, <1>5, <1>7, LoadLocalOnly DEF LoadLocal, Load
<1>8. ASSUME LoadAlternate PROVE Calm(dev, dev')
  BY <1>1, <1>5, <1>8, LoadAlternateOnly DEF LoadAlternate, Load
<1>9. ASSUME LoadVidex PROVE Calm(dev, dev')
  BY <1>1, <1>5, <1>9, LoadVidexOnly DEF LoadVidex, Load
<1>10. ASSUME ClearReload PROVE Calm(dev, dev')
  <2> DEFINE t == [dev EXCEPT !.reload_charsets = {}]
  <2>1. OnlyLoads(dev, t)
    BY <1>1 DEF OnlyLoads, Fields
  <2>2. dev' = t
    BY <1>10 DEF ClearReload, Load
  <2> QED
    BY <1>5, <2>1, <2>2
<1>11. ASSUME LoadUndisturbed PROVE Calm(dev, dev')
  BY <1>1, <1>5, <1>11, LoadAllOnly DEF LoadUndisturbed
<1>12. ASSUME Switch PROVE Calm(dev, dev')
  <2>1. PICK on \in BOOLEAN, quick \in BOOLEAN, color \in BOOLEAN :
          dev' = update_toggle_switch(dev, on, quick, color)
    BY <1>12 DEF Switch
  <2>2. Proper(dev, dev')
    BY <1>1, <2>1, SwitchProper
  <2> QED
    BY <1>1, <2>2, StepCalm DEF Proper
<1>13. Calm(dev, dev')
  BY <1>2, <1>3, <1>4, <1>6, <1>7, <1>8, <1>9, <1>10, <1>11, <1>12 DEF CalmAction
<1>14. sent' = sent /\ kept' = kept
  BY DEF CalmAction, machine_auto_detection, RomxSelect, Reset, StartLoading, LoadLocal,
     LoadAlternate, LoadVidex, ClearReload, Load, LoadUndisturbed, Switch
<1>15. loading' \in {"no", "local", "alternate", "videx", "clear"}
  BY <1>1 DEF CalmAction, machine_auto_detection, RomxSelect, Reset, StartLoading,
     LoadLocal, LoadAlternate, LoadVidex, ClearReload, Load, LoadUndisturbed, Switch
<1> QED
  BY <1>13, <1>14, <1>15

\* A register write, a restart, or one of the others.
LEMMA ActionCases ==
  ASSUME Next \/ QuietNext
  PROVE  \/ CalmAction
         \/ \E w \in Writes : DeviceWrite(w[1], w[2])
         \/ PowerCycle
         \/ \E w \in Writes : PowerLoss(w[1], w[2])
  BY DEF Next, QuietNext, Core1, Core0, Power, CalmAction

LEMMA WritesRange ==
  ASSUME NEW w \in Writes
  PROVE  w[1] \in 0 .. 15 /\ w[2] \in Byte /\ w = <<w[1], w[2]>>
  BY WritesAssumption

\* The state in which the power went, and what the firmware makes of it.
LEMMA LossSound ==
  ASSUME Inv, NEW w \in Writes, PowerLoss(w[1], w[2])
  PROVE  LET t == device_write(dev, w[1], w[2])
         IN  \E i \in DOMAIN t.trail :
               /\ dev' = Boot(t.trail[i]) /\ dev'.flash = t.trail[i] /\ sent' = << >>
               /\ loading' = "local"
               /\ OneTorn(t.trail[i], t)
               /\ \/ t.trail[i].config = dev.flash.config
                  \/ SameChoice(dev, t) /\ t.trail[i].config \in {Erased, Stored(t)}
<1> DEFINE t == device_write(dev, w[1], w[2])
<1>1. w[1] \in 0 .. 15 /\ w[2] \in Byte
  BY WritesRange
<1>2. \A i \in DOMAIN t.trail :
        /\ OneTorn(t.trail[i], t)
        /\ \/ t.trail[i].config = dev.flash.config
           \/ SameChoice(dev, t) /\ t.trail[i].config \in {Erased, Stored(t)}
  BY <1>1, TrailSound DEF Inv
<1>3. PICK i \in DOMAIN t.trail : Restart(t.trail[i])
  BY Zenon DEF PowerLoss
<1> HIDE DEF t
<1>4. dev' = Boot(t.trail[i]) /\ sent' = << >> /\ loading' = "local"
  BY <1>3 DEF Restart
<1>5. Boot(t.trail[i]).flash = t.trail[i]
  BY <1>2, BootSound DEF OneTorn
<1>6. \E j \in DOMAIN t.trail :
        /\ dev' = Boot(t.trail[j]) /\ dev'.flash = t.trail[j] /\ sent' = << >>
        /\ loading' = "local"
        /\ OneTorn(t.trail[j], t)
        /\ \/ t.trail[j].config = dev.flash.config
           \/ SameChoice(dev, t) /\ t.trail[j].config \in {Erased, Stored(t)}
  BY <1>2, <1>4, <1>5
<1> QED
  BY <1>6 DEF t

LEMMA InvInit ==
  ASSUME Init
  PROVE  Inv /\ InEffect(dev) /\ dev.cfg_local_charset < MAX_FONT_COUNT
         /\ {Local, Alternate} \subseteq dev.reload_charsets
         /\ kept = UserSettings(Boot(dev.flash))
<1>1. PICK config \in OldConfigs \cup {Erased} :
        dev = Boot([FreshFlash EXCEPT !.config = config])
  BY DEF Init
<1> DEFINE flash == [FreshFlash EXCEPT !.config = config]
<1>2. FlashOK(flash)
  <2>1. NoBytes \in Font
    BY DEF NoBytes, Font
  <2>2. config = Erased \/ WellStored(config)
    BY OldConfigsAssumption
  <2> QED
    BY <2>1, <2>2 DEF FreshFlash, FlashOK
<1> HIDE DEF flash
<1>3. /\ Sound(dev, << >>) /\ InEffect(dev)
      /\ dev.cfg_local_charset < MAX_FONT_COUNT
      /\ {Local, Alternate} \subseteq dev.reload_charsets
      /\ dev.flash = flash
  BY <1>1, <1>2, BootSound DEF flash
<1>4. kept = UserSettings(Boot(dev.flash))
  BY <1>1, <1>3 DEF Init, flash
<1> QED
  BY <1>3, <1>4 DEF Inv, Init

LEMMA InvStep ==
  ASSUME Inv, Next \/ QuietNext
  PROVE  Inv'
<1>1. CASE CalmAction
  BY <1>1, CalmActions, CalmSound DEF Inv
<1>2. ASSUME NEW w \in Writes, DeviceWrite(w[1], w[2]) PROVE Inv'
  <2>1. w[1] \in 0 .. 15 /\ w[2] \in Byte
    BY WritesRange
  <2>2. Sound(Settle(device_write(dev, w[1], w[2])), Sent(w[1], w[2]))
    BY <2>1, WriteSound DEF Inv
  <2>3. dev' = Settle(device_write(dev, w[1], w[2])) /\ sent' = Sent(w[1], w[2])
        /\ loading' = loading
    BY <1>2, Zenon DEF DeviceWrite
  <2>4. Sound(dev', sent')
    BY <2>2, <2>3
  <2> QED
    BY <2>3, <2>4 DEF Inv
<1>3. CASE PowerCycle
  <2>1. FlashOK(dev.flash)
    BY DEF Inv, Sound
  <2> QED
    BY <1>3, <2>1, BootSound DEF PowerCycle, Restart, Inv
<1>4. ASSUME NEW w \in Writes, PowerLoss(w[1], w[2]) PROVE Inv'
  <2> DEFINE t == device_write(dev, w[1], w[2])
  <2>1. PICK i \in DOMAIN t.trail : /\ dev' = Boot(t.trail[i]) /\ sent' = << >>
                                    /\ loading' = "local" /\ FlashOK(t.trail[i])
    BY <1>4, LossSound DEF OneTorn
  <2> HIDE DEF t
  <2> QED
    BY <2>1, BootSound DEF Inv
<1> QED
  BY <1>1, <1>2, <1>3, <1>4, ActionCases

\* The settings, the lock, an upload and the images of the flash are sound in every
\* state, whether core 0's loads are overtaken by core 1 or not: the invariant that
\* the theorems below rest on.
THEOREM InvAlways ==
  (Spec => []Inv) /\ (QuietSpec => []Inv)
<1>1. Init => Inv
  BY InvInit
<1>2. Inv /\ [Next]_vars => Inv'
  <2>1. CASE Next
    BY <2>1, InvStep
  <2>2. CASE UNCHANGED vars
    BY <2>2 DEF vars, Inv
  <2> QED
    BY <2>1, <2>2
<1>3. Inv /\ [QuietNext]_vars => Inv'
  <2>1. CASE QuietNext
    BY <2>1, InvStep
  <2>2. CASE UNCHANGED vars
    BY <2>2 DEF vars, Inv
  <2> QED
    BY <2>1, <2>2
<1> QED
  BY <1>1, <1>2, <1>3, PTL DEF Spec, QuietSpec

-----------------------------------------------------------------------------
(* Theorems.                                                               *)

\* Every setting, the state of an upload and the images of the flash stay in their
\* ranges, whatever the Apple II writes to the registers and whenever the power
\* goes: config.c, device_regs.c, menu.c, and the loads and switches of render.c.
THEOREM SettingsTyped == Spec => []TypeOK
<1>1. Inv => TypeOK
  BY DEF Inv, Sound, Good, LockOK, TypeOK
<1> QED
  BY <1>1, InvAlways, PTL

\* The internal flags follow the settings that they derive from, whichever of the
\* callers of config_setflags and set_machine changed those last.
THEOREM FlagsAlwaysFollow == Spec => []FlagsFollow
<1>1. Inv => FlagsFollow
  BY DEF Inv, Sound, Good, Follow, FlagsFollow
<1> QED
  BY <1>1, InvAlways, PTL

\* The font directory in flash is the one in memory, or is being written.
THEOREM DirectoryAlwaysAgrees == Spec => []DirectoryAgrees
<1>1. Inv => DirectoryAgrees
  BY DEF Inv, Sound, DirectoryAgrees
<1> QED
  BY <1>1, InvAlways, PTL

\* A font is written to flash only as the bytes that were sent for it, and nothing
\* else of the font region changes: device_regs.c, config_flash_write.
THEOREM UploadsExact == Spec => UploadExact
<1> DEFINE A == \A w \in Writes :
       w[1] = 2 /\ dev'.flash # dev.flash /\ DeviceWrite(2, w[2]) =>
         LET slot == dev.custom_rom_font_nr
         IN  /\ Len(sent) = CHARACTER_ROM_SIZE
             /\ dev'.flash.fonts =
                  [dev.flash.fonts EXCEPT ![slot] =
                     [i \in 1 .. CHARACTER_ROM_SIZE |->
                        FontByte(dev.custom_rom_font_type, sent[i])]]
             /\ dev'.invalid_fonts = dev.invalid_fonts \ {slot}
<1>1. ASSUME Inv PROVE A
  <2> SUFFICES ASSUME NEW w \in Writes, w[1] = 2, dev'.flash # dev.flash,
                      DeviceWrite(2, w[2])
               PROVE  LET slot == dev.custom_rom_font_nr
                      IN  /\ Len(sent) = CHARACTER_ROM_SIZE
                          /\ dev'.flash.fonts =
                               [dev.flash.fonts EXCEPT ![slot] =
                                  [i \in 1 .. CHARACTER_ROM_SIZE |->
                                     FontByte(dev.custom_rom_font_type, sent[i])]]
                          /\ dev'.invalid_fonts = dev.invalid_fonts \ {slot}
    OBVIOUS
  <2> DEFINE t      == device_write(dev, 2, w[2])
             slot   == dev.custom_rom_font_nr
             even   == 2 * (slot \div 2)
             half   == slot % 2
             buffer == dev.custom_font_buffer
             fonts  == dev.flash.fonts
             type   == dev.custom_rom_font_type
             font   == [i \in 1 .. CHARACTER_ROM_SIZE |-> FontByte(type, sent[i])]
  <2>1. Written(dev, t, 2, w[2]) /\ dev' = Settle(t) /\ Sound(dev, sent)
    <3>1. 2 \in 0 .. 15 /\ w[2] \in Byte
      BY WritesRange
    <3>2. Sound(dev, sent)
      BY <1>1 DEF Inv
    <3>3. dev' = Settle(t)
      BY Zenon DEF DeviceWrite
    <3>4. Written(dev, t, 2, w[2])
      BY <3>1, <3>2, WriteSound, Zenon
    <3> QED
      BY <3>2, <3>3, <3>4
  <2> HIDE DEF t
  <2>2. dev'.flash = t.flash /\ dev'.invalid_fonts = t.invalid_fonts
    BY <2>1, SettledSame DEF Written, Good, Fields
  <2>3. FontWritten(dev, t)
    BY <2>1, <2>2 DEF Written, Quiet
  <2>4. /\ dev.custom_rom_write_count = CHARACTER_ROM_SIZE
        /\ t.invalid_fonts = dev.invalid_fonts \ {slot}
        /\ t.flash = Image(dev.flash, slot, t.invalid_fonts, buffer[0], buffer[1])
    BY <2>3 DEF FontWritten
  <2>5. /\ slot \in Slots /\ even \in Slots /\ even + 1 \in Slots
        /\ half \in {0, 1} /\ slot = even + half
    <3>1. slot \in Slots
      BY <2>1 DEF Sound, UploadOK
    <3> HIDE DEF slot
    <3> QED
      BY <3>1, PairOfSlots
  <2>6. /\ Len(sent) = CHARACTER_ROM_SIZE
        /\ \A i \in 1 .. CHARACTER_ROM_SIZE : buffer[half][i] = FontByte(type, sent[i])
        /\ buffer[1 - half] = fonts[even + (1 - half)]
    <3>1. CHARACTER_ROM_SIZE <= CHARACTER_ROM_SIZE
      BY RomSizeAssumption
    <3>2. Uploading(dev, sent)
      BY <2>1 DEF Sound
    <3> QED
      BY <2>4, <3>1, <3>2 DEF Uploading
  <2>7. buffer \in [{0, 1} -> Font] /\ fonts \in [Slots -> Font]
    BY <2>1 DEF Sound, UploadOK, FlashOK
  <2> HIDE DEF slot, even, half, buffer, fonts, type
  <2>8. buffer[half] = font
    BY <2>5, <2>6, <2>7 DEF Font
  <2> HIDE DEF font
  <2>9. t.flash.fonts = [fonts EXCEPT ![slot] = font]
    <3>1. t.flash.fonts = [x \in Slots |-> IF x = even THEN buffer[0]
                                           ELSE IF x = even + 1 THEN buffer[1]
                                           ELSE fonts[x]]
      BY <2>4 DEF Image, even, fonts
    <3>2. CASE half = 0
      <4>1. buffer[1] = fonts[even + 1] /\ slot = even /\ buffer[0] = font
        BY <2>5, <2>6, <2>8, <3>2 DEF Slots
      <4> QED
        BY <2>5, <2>7, <3>1, <4>1 DEF Slots
    <3>3. CASE half = 1
      <4>1. 1 - half = 0 /\ even + 0 = even
        BY <2>5, <3>3 DEF Slots
      <4>2. buffer[0] = fonts[even]
        BY <2>6, <4>1, Zenon
      <4>3. slot = even + 1 /\ buffer[1] = font
        BY <2>5, <2>8, <3>3
      <4>4. even # even + 1
        BY <2>5 DEF Slots
      <4>5. \A x \in Slots : t.flash.fonts[x] = IF x = slot THEN font ELSE fonts[x]
        BY <3>1, <4>2, <4>3, <4>4
      <4>6. DOMAIN t.flash.fonts = Slots
            /\ t.flash.fonts = [x \in Slots |-> t.flash.fonts[x]]
        BY <3>1
      <4> QED
        BY <2>7, <4>5, <4>6
    <3> QED
      BY <2>5, <3>2, <3>3
  <2> QED
    BY <2>2, <2>4, <2>6, <2>9 DEF slot, fonts, type, font
<1> QED
  BY <1>1, InvAlways, PTL DEF UploadExact

\* No power loss during a register write spoils more than one sector of the flash:
\* config_flash_write, and the order in which device_regs.c calls it.
THEOREM OneSectorOnly == Spec => OneSectorTorn
<1> DEFINE A == \A w \in Writes :
       dev'.flash # dev.flash /\ PowerLoss(w[1], w[2]) =>
         Cardinality(TornSectors(dev.flash, dev'.flash,
                                 device_write(dev, w[1], w[2]).flash)) <= 1
<1>1. ASSUME Inv PROVE A
  <2> SUFFICES ASSUME NEW w \in Writes, PowerLoss(w[1], w[2])
               PROVE  Cardinality(TornSectors(dev.flash, dev'.flash,
                                     device_write(dev, w[1], w[2]).flash)) <= 1
    OBVIOUS
  <2> DEFINE t    == device_write(dev, w[1], w[2])
             torn == TornSectors(dev.flash, dev'.flash, t.flash)
  <2>1. PICK i \in DOMAIN t.trail : dev'.flash = t.trail[i] /\ OneTorn(t.trail[i], t)
    BY <1>1, LossSound, Zenon
  <2>2. PICK k \in Sectors : torn \subseteq {k}
    BY <2>1 DEF OneTorn
  <2> HIDE DEF torn
  <2>3. IsFiniteSet({k}) /\ Cardinality({k}) = 1
    BY FS_Singleton
  <2>4. Cardinality(torn) <= 1
    BY <2>2, <2>3, FS_Subset
  <2> QED
    BY <2>4 DEF torn
<1> QED
  BY <1>1, InvAlways, PTL DEF OneSectorTorn

-----------------------------------------------------------------------------
(* What is saved.                                                          *)

\* The settings that the flash holds are those that were saved last.
Remembers == kept = UserSettings(Boot(dev.flash)) /\ dev.cfg_local_charset < MAX_FONT_COUNT

LEMMA RemembersStep ==
  ASSUME Inv, Remembers, Next, <<4, 48>> \notin Writes
  PROVE  Remembers'
<1> DEFINE Brings(k, s) == k = UserSettings(Boot(s.flash))
                           /\ s.cfg_local_charset < MAX_FONT_COUNT
<1>0. FlashOK(dev.flash) /\ Good(dev)
  BY DEF Inv, Sound
<1>1. CASE CalmAction
  <2>1. dev'.flash = dev.flash /\ KeepsLocal(dev, dev') /\ kept' = kept
    BY <1>1, CalmActions DEF Calm, Quiet
  <2> QED
    BY <2>1 DEF Remembers, KeepsLocal
<1>2. ASSUME NEW w \in Writes, DeviceWrite(w[1], w[2]) PROVE Remembers'
  <2> DEFINE t == device_write(dev, w[1], w[2])
             u == Settle(t)
  <2>1. /\ Written(dev, t, w[1], w[2]) /\ FlashOK(t.flash)
        /\ <<w[1], w[2]>> # <<4, 48>>
    <3>1. w[1] \in 0 .. 15 /\ w[2] \in Byte /\ w = <<w[1], w[2]>>
      BY WritesRange
    <3>2. Sound(dev, sent)
      BY DEF Inv
    <3>3. Written(dev, t, w[1], w[2]) /\ FlashOK(t.flash)
      BY <3>1, <3>2, WriteSound, Zenon
    <3> QED
      BY <3>1, <3>3
  <2>2. dev' = u /\ kept' = (IF Saves(t) THEN UserSettings(t) ELSE kept)
    BY <1>2, Zenon DEF DeviceWrite
  <2> HIDE DEF t
  <2>3. Good(t) /\ t.cfg_local_charset < MAX_FONT_COUNT
    BY <2>1 DEF Written, KeepsLocal, Remembers
  <2>4. u.flash = t.flash /\ u.cfg_local_charset = t.cfg_local_charset
    BY <2>3, SettledSame DEF Good, Fields
  <2> HIDE DEF u
  <2>5. kept' = UserSettings(Boot(t.flash))
    <3>1. CASE Saved(dev, t)
      <4>1. Saves(t) /\ t.flash.config = Stored(t)
        BY <1>0, <2>3, <3>1, SavedImages DEF Inv, Sound
      <4>2. UserSettings(Boot(t.flash)) = UserSettings(t)
        BY <2>1, <2>3, <4>1, SavedReturns
      <4> QED
        BY <2>2, <4>1, <4>2
    <3>2. CASE Quiet(dev, t) \/ FontWritten(dev, t)
      <4>1. ~ Saves(t) /\ t.flash.config = dev.flash.config
        <5>1. CASE Quiet(dev, t)
          BY <5>1 DEF Quiet, Saves, Inv, Sound
        <5>2. CASE FontWritten(dev, t)
          <6>1. /\ t.flash.config = dev.flash.config
                /\ \A i \in DOMAIN t.trail : t.trail[i].config = dev.flash.config
            BY <2>3, <5>2, FontImages DEF Inv, Sound
          <6> QED
            BY <6>1 DEF Saves
        <5> QED
          BY <3>2, <5>1, <5>2
      <4>2. UserSettings(Boot(t.flash)) = UserSettings(Boot(dev.flash))
        BY <1>0, <2>1, <4>1, BootSettings
      <4> QED
        BY <2>2, <4>1, <4>2 DEF Remembers
    <3> QED
      BY <2>1, <3>1, <3>2 DEF Written
  <2>6. Brings(kept', dev')
    BY <2>2, <2>3, <2>4, <2>5
  <2> QED
    BY <2>6 DEF Remembers
<1>3. CASE PowerCycle
  <2>1. dev' = Boot(dev.flash) /\ kept' = kept
    BY <1>3 DEF PowerCycle, Restart
  <2>2. Brings(kept', dev')
    BY <1>0, <2>1, BootSound DEF Remembers
  <2> QED
    BY <2>2 DEF Remembers
<1>4. ASSUME NEW w \in Writes, PowerLoss(w[1], w[2]) PROVE Remembers'
  <2> DEFINE t == device_write(dev, w[1], w[2])
  <2>1. PICK i \in DOMAIN t.trail : /\ dev' = Boot(t.trail[i])
                                    /\ dev'.flash = t.trail[i] /\ FlashOK(t.trail[i])
    BY <1>4, LossSound DEF OneTorn
  <2> HIDE DEF t
  <2>2. kept' = UserSettings(dev')
    BY <1>4 DEF PowerLoss
  <2>3. Brings(kept', dev')
    BY <2>1, <2>2, BootSound
  <2> QED
    BY <2>3 DEF Remembers
<1> QED
  BY <1>1, <1>2, <1>3, <1>4, ActionCases

LEMMA RemembersAlways ==
  ASSUME <<4, 48>> \notin Writes
  PROVE  Spec => []Remembers
<1>1. Init => Remembers
  BY InvInit DEF Remembers
<1>2. Inv /\ Remembers /\ [Next]_vars => Remembers'
  <2>1. CASE Next
    BY <2>1, RemembersStep
  <2>2. CASE UNCHANGED vars
    BY <2>2 DEF vars, Remembers
  <2> QED
    BY <2>1, <2>2
<1> QED
  BY <1>1, <1>2, InvAlways, PTL DEF Spec

\* What config_save wrote last comes back at the next power-on, each setting of it.
\* The hypothesis leaves out command 0x30, which selects a font that does not exist
\* and that config_load corrects.
THEOREM PowerOnReturns ==
  ASSUME <<4, 48>> \notin Writes
  PROVE  Spec => PowerOnRestores
<1>1. Remembers /\ [Next]_vars => [PowerCycle => UserSettings(dev') = kept]_vars
  BY DEF Remembers, PowerCycle, Restart
<1> QED
  BY <1>1, RemembersAlways, PTL DEF Spec, PowerOnRestores

\* A power loss during a save leaves the old settings, the new ones or the defaults,
\* because config_flash_write erases the sector before it programs it, and the magic
\* word is not there in between.
THEOREM TornSavesSafe ==
  ASSUME <<4, 48>> \notin Writes
  PROVE  Spec => TornSaveSafe
<1> DEFINE A == kept' # kept /\ (\E w \in Writes : PowerLoss(w[1], w[2]))
                  => UserSettings(dev') \in {UserSettings(dev), DefaultSettings}
<1>1. ASSUME Inv, Remembers PROVE A
  <2> SUFFICES ASSUME kept' # kept, NEW w \in Writes, PowerLoss(w[1], w[2])
               PROVE  UserSettings(dev') \in {UserSettings(dev), DefaultSettings}
    OBVIOUS
  <2> DEFINE t == device_write(dev, w[1], w[2])
  <2>1. PICK i \in DOMAIN t.trail :
          /\ dev' = Boot(t.trail[i]) /\ OneTorn(t.trail[i], t)
          /\ \/ t.trail[i].config = dev.flash.config
             \/ SameChoice(dev, t) /\ t.trail[i].config \in {Erased, Stored(t)}
    BY <1>1, LossSound, Zenon
  <2> DEFINE image == t.trail[i]
  <2>2. /\ dev' = Boot(image) /\ FlashOK(image)
        /\ \/ image.config = dev.flash.config
           \/ SameChoice(dev, t) /\ image.config \in {Erased, Stored(t)}
    BY <2>1 DEF OneTorn
  <2>3. Good(t)
    <3>1. w[1] \in 0 .. 15 /\ w[2] \in Byte
      BY WritesRange
    <3>2. Sound(dev, sent)
      BY <1>1 DEF Inv
    <3>3. Written(dev, t, w[1], w[2])
      BY <3>1, <3>2, WriteSound, Zenon
    <3> QED
      BY <3>3 DEF Written
  <2> HIDE DEF image, t
  <2>4. FlashOK(dev.flash) /\ Good(dev) /\ dev.cfg_local_charset < MAX_FONT_COUNT
        /\ kept = UserSettings(Boot(dev.flash))
    BY <1>1 DEF Inv, Sound, Remembers
  <2>5. kept' = UserSettings(dev')
    BY DEF PowerLoss
  <2>6. CASE image.config = dev.flash.config
    <3>1. UserSettings(Boot(image)) = UserSettings(Boot(dev.flash))
      BY <2>2, <2>4, <2>6, BootSettings
    <3> QED
      BY <2>2, <2>4, <2>5, <3>1
  <2>7. CASE image.config = Erased
    <3>1. FlashOK(FreshFlash) /\ FreshFlash.config = Erased
      BY DEF FreshFlash, FlashOK, NoBytes, Font
    <3>2. UserSettings(Boot(image)) = DefaultSettings
      BY <2>2, <2>7, <3>1, BootSettings DEF DefaultSettings
    <3> QED
      BY <2>2, <3>2
  <2>8. CASE SameChoice(dev, t) /\ image.config = Stored(t)
    <3>1. UserSettings(t) = UserSettings(dev) /\ t.cfg_local_charset < MAX_FONT_COUNT
      BY <2>3, <2>4, <2>8, SameSettings DEF SameChoice
    <3>2. UserSettings(Boot(image)) = UserSettings(t)
      BY <2>2, <2>3, <2>8, <3>1, SavedReturns
    <3> QED
      BY <2>2, <3>1, <3>2
  <2> QED
    BY <2>2, <2>6, <2>7, <2>8
<1> QED
  BY <1>1, InvAlways, RemembersAlways, PTL DEF TornSaveSafe

-----------------------------------------------------------------------------
(* The machine in effect.                                                  *)

LEMMA InEffectStep ==
  ASSUME Inv, InEffect(dev), Next,
         \A w \in Writes : w[1] # 8 /\ w \notin {<<4, 0>>, <<4, 1>>}
  PROVE  InEffect(dev')
<1>1. CASE CalmAction
  BY <1>1, CalmActions DEF Calm
<1>2. ASSUME NEW w \in Writes, DeviceWrite(w[1], w[2]) PROVE InEffect(dev')
  <2> DEFINE t == device_write(dev, w[1], w[2])
             u == Settle(t)
  <2>1. w[1] \in 0 .. 15 /\ w[2] \in Byte /\ w = <<w[1], w[2]>>
    BY WritesRange
  <2>2. Sound(dev, sent)
    BY DEF Inv
  <2>3. Written(dev, t, w[1], w[2])
    BY <2>1, <2>2, WriteSound, Zenon
  <2>4. dev' = u
    BY <1>2, Zenon DEF DeviceWrite
  <2> HIDE DEF t
  <2>5. w[1] # 8 /\ <<w[1], w[2]>> \notin {<<4, 0>>, <<4, 1>>}
    BY <2>1, Zenon
  <2>6. InEffect(t) /\ DOMAIN t = Fields
    BY <2>3, <2>5 DEF Written, Good
  <2>7. InEffect(u)
    BY <2>6, SettledSame DEF InEffect, Effective, Fields
  <2> QED
    BY <2>4, <2>7
<1>3. CASE PowerCycle
  <2>1. FlashOK(dev.flash)
    BY DEF Inv, Sound
  <2> QED
    BY <1>3, <2>1, BootSound DEF PowerCycle, Restart
<1>4. ASSUME NEW w \in Writes, PowerLoss(w[1], w[2]) PROVE InEffect(dev')
  <2> DEFINE t == device_write(dev, w[1], w[2])
  <2>1. PICK i \in DOMAIN t.trail : dev' = Boot(t.trail[i]) /\ FlashOK(t.trail[i])
    BY <1>4, LossSound DEF OneTorn
  <2> HIDE DEF t
  <2> QED
    BY <2>1, BootSound
<1> QED
  BY <1>1, <1>2, <1>3, <1>4, ActionCases

\* The machine in effect is the chosen or the detected one, and the fonts and flags
\* are those of that machine, through the menu, a save, an upload, the detection, the
\* ROMX, resets and restarts.  The hypothesis leaves out the registers that change the
\* choice and leave it to the next start, or to the menu, to put it into effect.
THEOREM MachineAlwaysInEffect ==
  ASSUME \A w \in Writes : w[1] # 8 /\ w \notin {<<4, 0>>, <<4, 1>>}
  PROVE  Spec => []MachineInEffect
<1> DEFINE J == InEffect(dev)
<1>1. Init => J
  BY InvInit
<1>2. Inv /\ J /\ [Next]_vars => J'
  <2>1. CASE Next
    BY <2>1, InEffectStep
  <2>2. CASE UNCHANGED vars
    BY <2>2 DEF vars
  <2> QED
    BY <2>1, <2>2
<1>3. Inv /\ J => MachineInEffect
  BY DEF Inv, Sound, Good, Follow, FlagsFollow, InEffect, MachineInEffect
<1> QED
  BY <1>1, <1>2, <1>3, InvAlways, PTL DEF Spec

-----------------------------------------------------------------------------
(* ESC.                                                                    *)

LEMMA EscapeDisables ==
  ASSUME NEW s, Good(s)
  PROVE  "MENU_ENABLE" \notin menu_reg(s, Escape).internal_flags
<1>1. Escape # 0 /\ Escape # KeyOpen /\ Escape # KeyRefresh /\ Upper(Escape) = Escape
  BY DEF Escape, KeyOpen, KeyRefresh, Upper
<1> DEFINE t == Flag(s, FALSE, "MENU_ENABLE")
<1>2. "MENU_ENABLE" \notin t.internal_flags
  BY DEF Flag, Good, Fields
<1> HIDE DEF t
<1>3. menuCheckKeys(s, Escape) = t
  <2>1. Escape # Bang /\ ~ Increases(s, Escape) /\ ~ Decreases(s, Escape)
    BY DEF Escape, Bang, Increases, Decreases, Jump, EnterKeys, RightKeys, LeftKeys
  <2>2. Upper(Escape) = Escape
    BY <1>1
  <2> QED
    BY <2>1, <2>2, Zenon DEF menuCheckKeys, t
<1>4. NoRedraw(s, Escape)
  BY <1>1, Zenon DEF NoRedraw
<1>5. menuShow(s, Escape) = t
  BY <1>1, <1>3, <1>4, Zenon DEF menuShow
<1>6. menu_reg(s, Escape) = IF "MENU_ENABLE" \in s.internal_flags THEN t ELSE s
  BY <1>1, <1>5, Zenon DEF menu_reg
<1> QED
  BY <1>2, <1>6

\* ESC leaves the menu from its every page and in its every state: menu.c:816.
THEOREM EscapeAlwaysLeaves == Spec => EscapeLeaves
<1> DEFINE A == dev.dev_config_lock = Unlocked /\ DeviceWrite(9, Escape)
                  => "MENU_ENABLE" \notin dev'.internal_flags
<1>1. ASSUME Inv PROVE A
  <2> SUFFICES ASSUME dev.dev_config_lock = Unlocked, DeviceWrite(9, Escape)
               PROVE  "MENU_ENABLE" \notin dev'.internal_flags
    OBVIOUS
  <2> DEFINE t == device_write(dev, 9, Escape)
  <2>1. /\ 9 # 15 /\ 9 # 0 /\ 9 # 1 /\ 9 # 2 /\ 9 # 3 /\ 9 # 4 /\ 9 # 5 /\ 9 # 6
        /\ 9 # 7 /\ 9 # 8 /\ ~ (dev.dev_config_lock # Unlocked)
    OBVIOUS
  <2>2. t = menu_reg(dev, Escape)
    BY <2>1, Zenon DEF device_write
  <2>3. Good(dev) /\ FlashOK(dev.flash) /\ Escape \in Byte
    BY <1>1 DEF Inv, Sound, Escape, Byte
  <2>4. DOMAIN t = Fields
    BY <2>2, <2>3, MenuRegHandled DEF Handled, Step, Good
  <2>5. "MENU_ENABLE" \notin t.internal_flags
    BY <2>2, <2>3, EscapeDisables
  <2>6. dev' = Settle(t)
    BY Zenon DEF DeviceWrite
  <2> HIDE DEF t
  <2> QED
    BY <2>4, <2>5, <2>6, SettledSame DEF Fields
<1> QED
  BY <1>1, InvAlways, PTL DEF EscapeLeaves

-----------------------------------------------------------------------------
(* The character sets on the screen.                                       *)

\* What is not to be loaded is what is selected.
Fresh(s) ==
  /\ Local \notin s.reload_charsets =>
       s.character_rom[Local] = Selected(s, s.cfg_local_charset)
  /\ Alternate \notin s.reload_charsets =>
       s.character_rom[Alternate] = Selected(s, s.cfg_alt_charset)

LEMMA SelectedSame ==
  ASSUME NEW s, NEW t, t.flash.fonts = s.flash.fonts, t.invalid_fonts = s.invalid_fonts,
         t.unenhance_font = s.unenhance_font, NEW font
  PROVE  Selected(t, font) = Selected(s, font)
<1>1. \A f : Glyphs(t, f) = Glyphs(s, f)
  BY Zenon DEF Glyphs
<1>2. check_valid_font(t, font) = check_valid_font(s, font)
  BY Zenon DEF check_valid_font
<1> QED
  BY <1>1, <1>2, Zenon DEF Selected

LEMMA RenewsFresh ==
  ASSUME NEW s, NEW t, Renews(s, t), t.character_rom = s.character_rom,
         t.flash.fonts = s.flash.fonts, Fresh(s)
  PROVE  Fresh(t)
<1>1. ASSUME Local \notin t.reload_charsets
      PROVE  t.character_rom[Local] = Selected(t, t.cfg_local_charset)
  <2>1. /\ Local \notin s.reload_charsets /\ t.cfg_local_charset = s.cfg_local_charset
        /\ t.invalid_fonts = s.invalid_fonts /\ t.unenhance_font = s.unenhance_font
    BY <1>1 DEF Renews
  <2>2. Selected(t, t.cfg_local_charset) = Selected(s, t.cfg_local_charset)
    BY <2>1, SelectedSame, Zenon
  <2> QED
    BY <2>1, <2>2 DEF Fresh
<1>2. ASSUME Alternate \notin t.reload_charsets
      PROVE  t.character_rom[Alternate] = Selected(t, t.cfg_alt_charset)
  <2>1. /\ Alternate \notin s.reload_charsets /\ t.cfg_alt_charset = s.cfg_alt_charset
        /\ t.invalid_fonts = s.invalid_fonts /\ t.unenhance_font = s.unenhance_font
    BY <1>2 DEF Renews
  <2>2. Selected(t, t.cfg_alt_charset) = Selected(s, t.cfg_alt_charset)
    BY <2>1, SelectedSame, Zenon
  <2> QED
    BY <2>1, <2>2 DEF Fresh
<1> QED
  BY <1>1, <1>2 DEF Fresh

LEMMA StepFresh ==
  ASSUME NEW s, NEW t, Step(s, t), Quiet(s, t), Fresh(s)
  PROVE  Fresh(t)
  BY RenewsFresh DEF Step, KeepsUpload, Quiet

\* All of a load brings back what is selected.
LEMMA LoadFresh ==
  ASSUME NEW s, DOMAIN s = Fields, DOMAIN s.character_rom = {Local, Alternate}, Fresh(s)
  PROVE  Fresh(config_load_charsets(s))
<1> DEFINE t == config_load_charsets(s)
<1>1. /\ OnlyLoads(s, t)
      /\ t.character_rom[Local] =
           (IF Local \in s.reload_charsets THEN Selected(s, s.cfg_local_charset)
            ELSE s.character_rom[Local])
      /\ t.character_rom[Alternate] =
           (IF Alternate \in s.reload_charsets THEN Selected(s, s.cfg_alt_charset)
            ELSE s.character_rom[Alternate])
  BY LoadAllOnly, Zenon
<1> HIDE DEF t
<1>2. /\ t.flash.fonts = s.flash.fonts /\ t.invalid_fonts = s.invalid_fonts
      /\ t.unenhance_font = s.unenhance_font
      /\ t.cfg_local_charset = s.cfg_local_charset
      /\ t.cfg_alt_charset = s.cfg_alt_charset
  BY <1>1 DEF OnlyLoads, Fields
<1>3. \A font : Selected(t, font) = Selected(s, font)
  BY <1>2, SelectedSame, Zenon
<1>4. Fresh(t)
  BY <1>1, <1>2, <1>3 DEF Fresh
<1> QED
  BY <1>4 DEF t

LEMMA FreshStep ==
  ASSUME Inv, Fresh(dev), QuietNext
  PROVE  Fresh(dev')
<1>1. /\ Good(dev) /\ LockOK(dev) /\ DOMAIN dev = Fields /\ FlashOK(dev.flash)
      /\ DOMAIN dev.character_rom = {Local, Alternate}
  BY DEF Inv, Sound, Good
<1>2. ASSUME NEW m \in Detected, machine_auto_detection(m) PROVE Fresh(dev')
  <2>1. m \in Machine /\ dev.current_machine = MACHINE_AUTO
        /\ dev' = set_machine([dev EXCEPT !.detected_machine = m], m)
    BY <1>2, DetectedAssumption DEF machine_auto_detection
  <2>2. Step(dev, dev') /\ Quiet(dev, dev')
    BY <1>1, <2>1, DetectionCalm DEF Calm
  <2> QED
    BY <2>2, StepFresh
<1>3. ASSUME NEW b \in RomxBanks, RomxSelect(b) PROVE Fresh(dev')
  <2>1. b \in 0 .. CUSTOM_FONT_COUNT - 1
    BY RomxBanksAssumption
  <2>2. Step(dev, dev') /\ Quiet(dev, dev')
    BY <1>1, <1>3, <2>1, RomxCalm DEF RomxSelect, Calm
  <2> QED
    BY <2>2, StepFresh
<1>4. CASE Reset
  <2>1. /\ Renews(dev, dev') /\ dev'.character_rom = dev.character_rom
        /\ Quiet(dev, dev')
    BY <1>1, <1>4, ResetCalm DEF Reset, Calm
  <2> QED
    BY <2>1, RenewsFresh DEF Quiet
<1>5. CASE LoadUndisturbed
  BY <1>1, <1>5, LoadFresh DEF LoadUndisturbed
<1>6. CASE Switch
  <2>1. PICK on, quick, color \in BOOLEAN :
          dev' = update_toggle_switch(dev, on, quick, color)
    BY <1>6 DEF Switch
  <2>2. Step(dev, dev') /\ Quiet(dev, dev')
    BY <1>1, <2>1, SwitchProper DEF Proper
  <2> QED
    BY <2>2, StepFresh
<1>7. ASSUME NEW w \in Writes, DeviceWrite(w[1], w[2]) PROVE Fresh(dev')
  <2> DEFINE t == device_write(dev, w[1], w[2])
             u == Settle(t)
  <2>1. w[1] \in 0 .. 15 /\ w[2] \in Byte
    BY WritesRange
  <2>2. Sound(dev, sent)
    BY DEF Inv
  <2>3. Written(dev, t, w[1], w[2])
    BY <2>1, <2>2, WriteSound, Zenon
  <2>4. dev' = u
    BY <1>7, Zenon DEF DeviceWrite
  <2> HIDE DEF t
  <2>5. DOMAIN t = Fields /\ Renews(dev, t) /\ t.character_rom = dev.character_rom
    BY <2>3 DEF Written, Good
  <2>6. Quiet(dev, t) => t.flash.fonts = dev.flash.fonts
    BY DEF Quiet
  <2>7. Saved(dev, t) => t.flash.fonts = dev.flash.fonts
    BY <1>1 DEF Saved, FlashOK
  <2>8. Fresh(t)
    <3>1. CASE {Local, Alternate} \subseteq t.reload_charsets
      BY <3>1 DEF Fresh
    <3>2. CASE t.flash.fonts = dev.flash.fonts
      BY <2>5, <3>2, RenewsFresh
    <3> QED
      BY <2>3, <2>6, <2>7, <3>1, <3>2 DEF Written
  <2>9. /\ u.reload_charsets = t.reload_charsets
        /\ u.cfg_local_charset = t.cfg_local_charset
        /\ u.cfg_alt_charset = t.cfg_alt_charset /\ u.character_rom = t.character_rom
        /\ u.unenhance_font = t.unenhance_font /\ u.invalid_fonts = t.invalid_fonts
        /\ u.flash = t.flash
    BY <2>5, SettledSame DEF Fields
  <2> HIDE DEF u
  <2>10. Renews(t, u)
    BY <2>9 DEF Renews
  <2> QED
    BY <2>4, <2>8, <2>9, <2>10, RenewsFresh
<1>8. CASE PowerCycle
  <2>1. {Local, Alternate} \subseteq dev'.reload_charsets
    BY <1>1, <1>8, BootSound DEF PowerCycle, Restart
  <2> QED
    BY <2>1 DEF Fresh
<1>9. ASSUME NEW w \in Writes, PowerLoss(w[1], w[2]) PROVE Fresh(dev')
  <2> DEFINE t == device_write(dev, w[1], w[2])
  <2>1. PICK i \in DOMAIN t.trail : dev' = Boot(t.trail[i]) /\ FlashOK(t.trail[i])
    BY <1>9, LossSound DEF OneTorn
  <2> HIDE DEF t
  <2>2. {Local, Alternate} \subseteq dev'.reload_charsets
    BY <2>1, BootSound
  <2> QED
    BY <2>2 DEF Fresh
<1> QED
  BY <1>2, <1>3, <1>4, <1>5, <1>6, <1>7, <1>8, <1>9 DEF QuietNext, Core1, Power

\* A character set that is not to be loaded is, on the screen, the font that the
\* settings select: every change of a choice, of the "unenhanced" state or of the font
\* directory and every upload asks for the load again (config.c, deviceregs.c), as long
\* as core 0's load is not overtaken by such a change (MCLostReload shows that one).
THEOREM RomAlwaysFresh == QuietSpec => []RomFresh
<1> DEFINE J == Fresh(dev)
<1>1. Init => J
  BY InvInit DEF Fresh
<1>2. Inv /\ J /\ [QuietNext]_vars => J'
  <2>1. CASE QuietNext
    BY <2>1, FreshStep
  <2>2. CASE UNCHANGED vars
    BY <2>2 DEF vars
  <2> QED
    BY <2>1, <2>2
<1>3. J => RomFresh
  BY DEF Fresh, RomFresh
<1> QED
  BY <1>1, <1>2, <1>3, InvAlways, PTL DEF QuietSpec
-----------------------------------------------------------------------------
(* The menu on the screen.                                                 *)

\* The screen shows the values that the settings have.
Truthful(s) ==
  LET now == Values(s)
  IN  /\ s.screen.shown # << >>
      /\ \A f \in DOMAIN now \ {"alt"} : s.screen.shown[1][f] = now[f]
      /\ now.alt # << >> => s.screen.shown[1].alt = now.alt

Selectable(s) == s.CurrentMenu = EntryAlt => LANGUAGE_SWITCH_ENABLED(s)

\* Whatever else is on the screen, the next key takes it away and draws the menu anew.
MenuSound(s) ==
  "MENU_ENABLE" \in s.internal_flags =>
    /\ DOMAIN s.screen = {"page", "shown"}
    /\ s.screen.page = "menu" => Truthful(s)
    /\ s.screen.page # "menu" => s.IgnoreNextKeypress /\ s.MenuNeedsRedraw
    /\ Selectable(s)

\* The menu can be drawn: on its own page, or all of it.
Ready(s) ==
  /\ \/ s.MenuNeedsRedraw
     \/ DOMAIN s.screen = {"page", "shown"} /\ s.screen.page = "menu"
  /\ Selectable(s)

MenuFields ==
  {"screen", "IgnoreNextKeypress", "MenuNeedsRedraw", "CurrentMenu", "internal_flags",
   "cfg_machine", "cfg_local_charset", "cfg_alt_charset", "cfg_videx_selection",
   "input_switch_mode", "color_mode", "rendering_fx"}

LEMMA MenuSame ==
  ASSUME NEW s, NEW t, \A f \in MenuFields : t[f] = s[f], MenuSound(s)
  PROVE  MenuSound(t)
<1>1. /\ t.screen = s.screen /\ t.IgnoreNextKeypress = s.IgnoreNextKeypress
      /\ t.MenuNeedsRedraw = s.MenuNeedsRedraw /\ t.CurrentMenu = s.CurrentMenu
      /\ t.internal_flags = s.internal_flags /\ t.input_switch_mode = s.input_switch_mode
      /\ Values(t) = Values(s)
  BY DEF MenuFields, Values, LANGUAGE_SWITCH_ENABLED
<1> QED
  BY <1>1, Zenon DEF MenuSound, Truthful, Selectable, LANGUAGE_SWITCH_ENABLED

LEMMA DrawSound ==
  ASSUME NEW s, Good(s), Ready(s)
  PROVE  MenuSound(DrawMenu(s))
<1> DEFINE whole == [menuShowFrame(s, "menu") EXCEPT !.MenuNeedsRedraw = FALSE]
           frame == IF s.MenuNeedsRedraw THEN whole ELSE s
           alt   == IF Values(s).alt = << >> /\ frame.screen.shown # << >>
                    THEN frame.screen.shown[1].alt ELSE Values(s).alt
           drawn == [Values(s) EXCEPT !.alt = alt]
           t     == [frame EXCEPT !.screen.shown = <<drawn>>]
<1>1. /\ DOMAIN whole = Fields /\ DOMAIN whole.screen = {"page", "shown"}
      /\ whole.screen.page = "menu"
      /\ \A f \in Fields \ {"soft_switches", "screen", "MenuNeedsRedraw"} : whole[f] = s[f]
  BY DEF menuShowFrame, Good, Fields
<1> HIDE DEF whole
<1>2. /\ DOMAIN frame = Fields /\ DOMAIN frame.screen = {"page", "shown"}
      /\ frame.screen.page = "menu"
      /\ \A f \in Fields \ {"soft_switches", "screen", "MenuNeedsRedraw"} : frame[f] = s[f]
  BY <1>1 DEF Good, Ready
<1> HIDE DEF frame
<1>3. /\ \A f \in DOMAIN Values(s) \ {"alt"} : drawn[f] = Values(s)[f]
      /\ Values(s).alt # << >> => drawn.alt = Values(s).alt
  BY DEF Values
<1> HIDE DEF drawn
<1>4. /\ DOMAIN t.screen = {"page", "shown"} /\ t.screen.page = "menu"
      /\ t.screen.shown = <<drawn>>
      /\ \A f \in Fields \ {"soft_switches", "screen", "MenuNeedsRedraw"} : t[f] = s[f]
  BY <1>2 DEF Fields
<1>5. DrawMenu(s) = t
  BY Zenon DEF DrawMenu, t, drawn, frame, whole
<1> HIDE DEF t
<1>6. /\ t.input_switch_mode = s.input_switch_mode /\ t.CurrentMenu = s.CurrentMenu
      /\ Values(t) = Values(s)
  BY <1>4 DEF Fields, Values, LANGUAGE_SWITCH_ENABLED
<1>7. Truthful(t)
  <2>1. <<drawn>> # << >> /\ <<drawn>>[1] = drawn
    OBVIOUS
  <2>2. t.screen.shown # << >> /\ t.screen.shown[1] = drawn
    BY <1>4, <2>1
  <2> QED
    BY <1>3, <1>6, <2>2, Zenon DEF Truthful
<1>8. Selectable(t)
  BY <1>6 DEF Ready, Selectable, LANGUAGE_SWITCH_ENABLED
<1> QED
  BY <1>4, <1>5, <1>7, <1>8 DEF MenuSound

\* A function that leaves the menu alone, whatever it does to the settings.
Behind(s, t) ==
  /\ DOMAIN t = DOMAIN s
  /\ t.screen = s.screen /\ t.CurrentMenu = s.CurrentMenu
  /\ t.MenuNeedsRedraw = s.MenuNeedsRedraw
  /\ "MENU_ENABLE" \in t.internal_flags <=> "MENU_ENABLE" \in s.internal_flags

LEMMA BehindTwice ==
  ASSUME NEW s, NEW t, NEW u, Behind(s, t), Behind(t, u)
  PROVE  Behind(s, u)
  BY DEF Behind

LEMMA FlagBehind ==
  ASSUME NEW s, DOMAIN s = Fields, NEW condition, NEW name, name # "MENU_ENABLE"
  PROVE  Behind(s, Flag(s, condition, name)) /\ Behind(s, Toggle(s, name))
<1>1. ASSUME NEW c PROVE Behind(s, Flag(s, c, name))
  BY DEF Flag, Behind, Fields
<1> QED
  BY <1>1 DEF Toggle

LEMMA SetMachineBehind ==
  ASSUME NEW s, DOMAIN s = Fields, s.unenhance_font \in BOOLEAN, NEW machine
  PROVE  Behind(s, set_machine(s, machine))
<1> DEFINE t == set_machine(s, machine)
           flagged == Flag(s, IIeFont(machine), "IIE_REGS")
<1>1. SetsMachine(s, t, machine)
  BY SetMachine
<1>2. Behind(s, flagged)
  BY FlagBehind
<1> HIDE DEF t
<1> QED
  BY <1>1, <1>2 DEF SetsMachine, Behind, Fields, t

LEMMA StoredFlagsBehind ==
  ASSUME NEW s, DOMAIN s = Fields, NEW names \in SUBSET StoredFlags
  PROVE  Behind(s, WithStoredFlags(s, names))
  BY DEF WithStoredFlags, StoredFlags, Behind, Fields

LEMMA SetFlagsBehind ==
  ASSUME NEW s, DOMAIN s = Fields
  PROVE  Behind(s, config_setflags(s))
<1> DEFINE dgr == Flag(s, s.rendering_fx \in {FX_ENABLED, FX_DGR_ONLY}, "INTERP_DGR")
<1>1. Behind(s, dgr) /\ DOMAIN dgr = Fields
  BY FlagBehind DEF Behind
<1>2. ASSUME NEW c PROVE Behind(s, Flag(dgr, c, "INTERP_DHGR"))
  BY <1>1, FlagBehind, BehindTwice
<1> QED
  BY <1>2, Zenon DEF config_setflags, dgr

LEMMA DefaultsBehind ==
  ASSUME NEW s, Good(s)
  PROVE  Behind(s, config_load_defaults(s))
<1> DEFINE names   == {"SCANLINEEMU", "VIDEO7"}
           stored  == WithStoredFlags(s, names)
           effects == [stored EXCEPT !.rendering_fx = FX_ENABLED]
           flags   == config_setflags(effects)
           auto    == [flags EXCEPT !.color_mode = COLOR_MODE_BW,
                                    !.cfg_machine = MACHINE_AUTO]
           machine == set_machine(auto, s.detected_machine)
           fonts   == [machine EXCEPT
                         !.input_switch_mode = ModeSwitchLangCycle,
                         !.unenhance_font = FALSE,
                         !.cfg_local_charset = 0, !.cfg_alt_charset = 0,
                         !.cfg_videx_selection = 0,
                         !.reload_charsets = @ \cup {Local, Alternate}]
           t       == Flag(fonts, FALSE, "VIDEX")
<1>1. DOMAIN s = Fields /\ s.unenhance_font \in BOOLEAN /\ names \subseteq StoredFlags
  BY DEF Good, SettingsOK, StoredFlags
<1>2. Behind(s, stored) /\ DOMAIN stored = Fields /\ stored.unenhance_font \in BOOLEAN
  BY <1>1, StoredFlagsBehind DEF Behind, WithStoredFlags, Fields
<1> HIDE DEF names, stored
<1>3. Behind(s, effects) /\ DOMAIN effects = Fields /\ effects.unenhance_font \in BOOLEAN
  BY <1>2 DEF Behind, Fields
<1> HIDE DEF effects
<1>4. Behind(s, flags) /\ DOMAIN flags = Fields /\ flags.unenhance_font \in BOOLEAN
  <2>1. Behind(effects, flags)
    BY <1>3, SetFlagsBehind
  <2>2. flags.unenhance_font = effects.unenhance_font
    BY <1>3 DEF config_setflags, Flag, Fields
  <2> QED
    BY <1>3, <2>1, <2>2, BehindTwice DEF Behind
<1> HIDE DEF flags
<1>5. Behind(s, auto) /\ DOMAIN auto = Fields /\ auto.unenhance_font \in BOOLEAN
  BY <1>4 DEF Behind, Fields
<1> HIDE DEF auto
<1>6. Behind(s, machine) /\ DOMAIN machine = Fields
  BY <1>5, SetMachineBehind, BehindTwice DEF Behind
<1> HIDE DEF machine
<1>7. Behind(s, fonts) /\ DOMAIN fonts = Fields
  BY <1>6 DEF Behind, Fields
<1> HIDE DEF fonts
<1>8. Behind(s, t)
  BY <1>7, FlagBehind, BehindTwice
<1>9. config_load_defaults(s) = t
  BY Zenon DEF config_load_defaults, t, fonts, machine, auto, flags, effects, stored, names
<1> QED
  BY <1>8, <1>9

LEMMA LoadBehind ==
  ASSUME NEW s, Good(s), FlashOK(s.flash)
  PROVE  Behind(s, config_load(s))
<1> DEFINE dirs    == IF s.flash.fontdir = Erased THEN s
                      ELSE [s EXCEPT !.invalid_fonts = s.flash.fontdir]
           cfg     == s.flash.config
           type    == stored_machine(cfg)
           chosen  == [dirs EXCEPT !.cfg_machine = type]
           machine == set_machine(chosen, type)
           flags   == WithStoredFlags(machine, cfg.flags)
           card    == [flags EXCEPT !.cfg_videx_selection = cfg.videx_selection]
           videx   == IF cfg.size = "full" THEN Flag(card, cfg.videx_selection > 0, "VIDEX")
                      ELSE flags
           fx      == IF cfg.size # "without rendering_fx"
                      THEN [videx EXCEPT !.rendering_fx = cfg.rendering_fx] ELSE videx
           effects == config_setflags(fx)
           font(n) == IF n >= MAX_FONT_COUNT THEN 0 ELSE n
           t       == [effects EXCEPT
                         !.input_switch_mode = cfg.input_switch_mode,
                         !.unenhance_font = type = MACHINE_IIE,
                         !.color_mode = IF cfg.color_mode <= 2 THEN cfg.color_mode ELSE 0,
                         !.cfg_local_charset = font(cfg.local_charset),
                         !.cfg_alt_charset = font(cfg.alt_charset),
                         !.reload_charsets = @ \cup {Local, Alternate}]
<1>1. DOMAIN s = Fields /\ s.unenhance_font \in BOOLEAN
  BY DEF Good, SettingsOK
<1>2. Behind(s, dirs) /\ Good(dirs)
  <2>1. /\ DOMAIN dirs = Fields
        /\ \/ dirs.invalid_fonts = s.invalid_fonts
           \/ s.flash.fontdir # Erased /\ dirs.invalid_fonts = s.flash.fontdir
        /\ \A f \in Fields \ {"invalid_fonts"} : dirs[f] = s[f]
    BY <1>1 DEF Fields
  <2> HIDE DEF dirs
  <2>2. dirs.invalid_fonts \subseteq Slots
    BY <2>1 DEF FlashOK, Good, SettingsOK
  <2> QED
    BY <1>1, <2>1, <2>2 DEF Good, SettingsOK, Follow, Behind, Fields
<1>3. config_load(s) = IF cfg = Erased THEN config_load_defaults(dirs)
                       ELSE load_stored(dirs, cfg)
  BY Zenon DEF config_load, dirs
<1> HIDE DEF dirs
<1>4. CASE cfg = Erased
  BY <1>2, <1>3, <1>4, DefaultsBehind, BehindTwice
<1>5. CASE cfg # Erased
  <2>1. cfg.flags \in SUBSET StoredFlags
    BY <1>5 DEF FlashOK, WellStored, Configs
  <2>2. load_stored(dirs, cfg) = t
    BY Zenon DEF load_stored
  <2> HIDE DEF cfg, type, font
  <2>3. Behind(s, chosen) /\ DOMAIN chosen = Fields /\ chosen.unenhance_font \in BOOLEAN
    BY <1>1, <1>2 DEF Good, SettingsOK, Behind, Fields
  <2> HIDE DEF chosen
  <2>4. Behind(s, machine) /\ DOMAIN machine = Fields
    BY <2>3, SetMachineBehind, BehindTwice DEF Behind
  <2> HIDE DEF machine
  <2>5. Behind(s, flags) /\ DOMAIN flags = Fields
    BY <2>1, <2>4, StoredFlagsBehind, BehindTwice DEF Behind
  <2> HIDE DEF flags
  <2>6. Behind(s, card) /\ DOMAIN card = Fields
    BY <2>5 DEF Behind, Fields
  <2> HIDE DEF card
  <2>7. Behind(s, videx) /\ DOMAIN videx = Fields
    BY <2>5, <2>6, FlagBehind, BehindTwice DEF Behind
  <2> HIDE DEF videx
  <2>8. Behind(s, fx) /\ DOMAIN fx = Fields
    BY <2>7 DEF Behind, Fields
  <2> HIDE DEF fx
  <2>9. Behind(s, effects) /\ DOMAIN effects = Fields
    BY <2>8, SetFlagsBehind, BehindTwice DEF Behind
  <2> HIDE DEF effects
  <2>10. Behind(s, t)
    BY <2>9 DEF Behind, Fields
  <2> QED
    BY <1>3, <1>5, <2>2, <2>10
<1> QED
  BY <1>4, <1>5

LEMMA ReloadBehind ==
  ASSUME NEW s, DOMAIN s = Fields, NEW change, NEW bit
  PROVE  Behind(s, Reload(s, change, bit))
  BY DEF Reload, Behind, Fields

\* A line of the menu is changed.
LEMMA SetEntryBehind ==
  ASSUME NEW s, Good(s), NEW increase \in BOOLEAN
  PROVE  /\ Behind(s, SetEntry(s, increase))
         /\ s.CurrentMenu = EntryAlt =>
              SetEntry(s, increase).input_switch_mode = s.input_switch_mode
<1> DEFINE Right(t) == /\ Behind(s, t)
                       /\ s.CurrentMenu = EntryAlt =>
                            t.input_switch_mode = s.input_switch_mode
<1>1. DOMAIN s = Fields /\ s.unenhance_font \in BOOLEAN
      /\ "input_switch_mode" \in Fields
  BY DEF Good, SettingsOK, Fields
<1>2. Right(s)
  BY DEF Behind
<1>3. s.CurrentMenu = EntryMachine =>
        Right(LET chosen == [s EXCEPT !.cfg_machine = NextMachine(@, increase)]
              IN  set_machine(chosen, Effective(chosen)))
  <2> DEFINE chosen == [s EXCEPT !.cfg_machine = NextMachine(@, increase)]
             t      == set_machine(chosen, Effective(chosen))
  <2>1. Behind(s, chosen) /\ DOMAIN chosen = Fields /\ chosen.unenhance_font \in BOOLEAN
    BY <1>1 DEF Behind, Fields
  <2> HIDE DEF chosen
  <2>2. Behind(s, t)
    BY <2>1, SetMachineBehind, BehindTwice
  <2>3. EntryMachine # EntryAlt
    BY DEF EntryMachine, EntryAlt
  <2> QED
    BY <2>2, <2>3, Zenon DEF t, chosen
<1>4. s.CurrentMenu = EntryLocal =>
        Right(LET font == Stepped(s.cfg_local_charset, increase, 0, MAX_FONT_COUNT - 1)
              IN  Reload([s EXCEPT !.cfg_local_charset = font],
                         font # s.cfg_local_charset, Local))
  <2> DEFINE font  == Stepped(s.cfg_local_charset, increase, 0, MAX_FONT_COUNT - 1)
             other == [s EXCEPT !.cfg_local_charset = font]
             t     == Reload(other, font # s.cfg_local_charset, Local)
  <2> HIDE DEF font
  <2>1. Behind(s, other) /\ DOMAIN other = Fields
    BY <1>1 DEF Behind, Fields
  <2> HIDE DEF other
  <2>2. Behind(s, t)
    BY <2>1, ReloadBehind, BehindTwice
  <2>3. EntryLocal # EntryAlt
    BY DEF EntryLocal, EntryAlt
  <2> QED
    BY <2>2, <2>3, Zenon DEF t, other, font
<1>5. s.CurrentMenu = EntrySwitch =>
        Right(LET mode == [s EXCEPT !.input_switch_mode =
                             Stepped(@, increase, ModeSwitchDisabled, ModeSwitchLangCycle)]
              IN  IF LANGUAGE_SWITCH_ENABLED(mode) THEN mode
                  ELSE [mode EXCEPT !.language_switch = FALSE])
  <2> DEFINE n    == Stepped(s.input_switch_mode, increase, ModeSwitchDisabled,
                             ModeSwitchLangCycle)
             mode == [s EXCEPT !.input_switch_mode = n]
             off  == [mode EXCEPT !.language_switch = FALSE]
  <2> HIDE DEF n
  <2>1. Behind(s, mode) /\ Behind(s, off)
    BY <1>1 DEF Behind, Fields
  <2>2. EntrySwitch # EntryAlt
    BY DEF EntrySwitch, EntryAlt
  <2> QED
    BY <2>1, <2>2, Zenon DEF off, mode, n
<1>6. Right(LET font == NextAlt(s.cfg_alt_charset, increase)
            IN  Reload([s EXCEPT !.cfg_alt_charset = font],
                       font # s.cfg_alt_charset, Alternate))
  <2> DEFINE font  == NextAlt(s.cfg_alt_charset, increase)
             other == [s EXCEPT !.cfg_alt_charset = font]
             t     == Reload(other, font # s.cfg_alt_charset, Alternate)
  <2> HIDE DEF font
  <2>1. Behind(s, other) /\ DOMAIN other = Fields
        /\ other.input_switch_mode = s.input_switch_mode
    BY <1>1 DEF Behind, Fields
  <2> HIDE DEF other
  <2>2. Behind(s, t)
    BY <2>1, ReloadBehind, BehindTwice
  <2>3. t.input_switch_mode = s.input_switch_mode
    BY <2>1 DEF Reload, Fields
  <2> QED
    BY <2>2, <2>3, Zenon DEF t, other, font
<1>7. Right([s EXCEPT !.color_mode = Stepped(@, increase, 0, 2)])
  BY <1>1 DEF Behind, Fields
<1>8. ASSUME NEW name, name # "MENU_ENABLE" PROVE Right(Toggle(s, name))
  <2>1. Toggle(s, name).input_switch_mode = s.input_switch_mode
    BY <1>1 DEF Toggle, Flag, Fields
  <2>2. Behind(s, Toggle(s, name))
    BY <1>1, <1>8, FlagBehind
  <2> QED
    BY <2>1, <2>2
<1>9. Right(config_setflags([s EXCEPT !.rendering_fx = Stepped(@, increase, 0, FX_DGR_ONLY)]))
  <2> DEFINE w == [s EXCEPT !.rendering_fx = Stepped(@, increase, 0, FX_DGR_ONLY)]
  <2>1. Behind(s, w) /\ DOMAIN w = Fields /\ w.input_switch_mode = s.input_switch_mode
    BY <1>1 DEF Behind, Fields
  <2> HIDE DEF w
  <2>2. config_setflags(w).input_switch_mode = w.input_switch_mode
    BY <2>1 DEF config_setflags, Flag, Fields
  <2>3. Right(config_setflags(w))
    BY <2>1, <2>2, SetFlagsBehind, BehindTwice
  <2> QED
    BY <2>3 DEF w
<1>10. Right(LET v7 == Toggle(s, "VIDEO7")
             IN  IF "VIDEO7" \in v7.internal_flags
                 THEN [v7 EXCEPT !.soft_switches = @ \cup {"V7_MODE1", "V7_MODE2"}]
                 ELSE v7)
  <2> DEFINE v7 == Toggle(s, "VIDEO7")
             on == [v7 EXCEPT !.soft_switches = @ \cup {"V7_MODE1", "V7_MODE2"}]
  <2>1. Right(v7) /\ DOMAIN v7 = Fields
    BY <1>1, <1>8 DEF Behind
  <2> HIDE DEF v7
  <2>2. Right(on)
    BY <2>1 DEF Behind, Fields
  <2> QED
    BY <2>1, <2>2, Zenon DEF on, v7
<1>11. Right(LET n == Stepped(s.cfg_videx_selection, increase, 0, VIDEX_FONT_COUNT)
             IN  Flag(Reload([s EXCEPT !.cfg_videx_selection = n],
                             n # s.cfg_videx_selection /\ n > 0, Videx),
                      n > 0, "VIDEX"))
  <2> DEFINE n     == Stepped(s.cfg_videx_selection, increase, 0, VIDEX_FONT_COUNT)
             other == [s EXCEPT !.cfg_videx_selection = n]
             w     == Reload(other, n # s.cfg_videx_selection /\ n > 0, Videx)
             t     == Flag(w, n > 0, "VIDEX")
  <2> HIDE DEF n
  <2>1. Behind(s, other) /\ DOMAIN other = Fields
        /\ other.input_switch_mode = s.input_switch_mode
    BY <1>1 DEF Behind, Fields
  <2> HIDE DEF other
  <2>2. Behind(s, w) /\ DOMAIN w = Fields /\ w.input_switch_mode = s.input_switch_mode
    BY <2>1, ReloadBehind, BehindTwice DEF Behind, Reload, Fields
  <2> HIDE DEF w
  <2>3. Right(t)
    BY <2>2, FlagBehind, BehindTwice DEF Flag, Fields
  <2> QED
    BY <2>3, Zenon DEF t, w, other, n
<1>12. Right(Flag(Toggle(s, "DEBUG_LINES"), FALSE, "TEST"))
  <2> DEFINE debug == Toggle(s, "DEBUG_LINES")
  <2>1. Right(debug) /\ DOMAIN debug = Fields
    BY <1>1, <1>8 DEF Behind
  <2> HIDE DEF debug
  <2>2. Right(Flag(debug, FALSE, "TEST"))
    BY <2>1, FlagBehind, BehindTwice DEF Flag, Fields
  <2> QED
    BY <2>2 DEF debug
<1>13. Right(Toggle(s, "FORCED_MONO")) /\ Right(Toggle(s, "SCANLINEEMU"))
  BY <1>8
<1> HIDE DEF Right
<1>14. Right(SetEntry(s, increase))
  BY ONLY <1>2, <1>3, <1>4, <1>5, <1>6, <1>7, <1>9, <1>10, <1>11, <1>12, <1>13, Zenon
     DEF SetEntry
<1> QED
  BY <1>14 DEF Right

\* No key leads to the entry of the alternate character set while it is hidden.
LEMMA EntrySelectable ==
  ASSUME NEW s, Good(s), Selectable(s), NEW key \in Byte
  PROVE  Entry(s, key) = EntryAlt => LANGUAGE_SWITCH_ENABLED(s)
<1> DEFINE c == s.CurrentMenu
           Fine(e) == e = EntryAlt => LANGUAGE_SWITCH_ENABLED(s)
<1>1. c \in Int
  BY GoodRanges
<1>2. Fine(c)
  BY DEF Selectable
<1>3. ASSUME NEW e, NEW other, other # EntryAlt PROVE Fine(Skip(s, e, other))
  BY <1>3, Zenon DEF Skip
<1>4. EntrySwitch # EntryAlt /\ EntryAlt + 1 # EntryAlt
  BY DEF EntrySwitch, EntryAlt
<1>5. /\ MENU_ENTRY_COUNT - 1 # EntryAlt /\ 0 # EntryAlt
      /\ c >= EntryAbout => c - 3 # EntryAlt
      /\ c >= MENU_OFS_NONCFG => c + 3 # EntryAlt
  BY <1>1 DEF MENU_ENTRY_COUNT, MENU_OFS_NONCFG, EntryAlt, EntryAbout
<1>6. \A k \in DOMAIN Jump : Jump[k] # EntryAlt
  <2>1. /\ EntryDebug # EntryAlt /\ EntryRestore # EntryAlt /\ EntryLoad # EntryAlt
        /\ EntrySave # EntryAlt /\ EntryAbout # EntryAlt /\ EntryAbout + 1 # EntryAlt
        /\ EntryTest # EntryAlt
    BY DEF EntryDebug, EntryRestore, EntryLoad, EntrySave, EntryAbout, EntryTest,
       MENU_OFS_NONCFG, EntryAlt
  <2> DEFINE keys == {68, 82, 76, 83, 65, 66, 84}
  <2>2. DOMAIN Jump = keys
        /\ \A k \in keys : Jump[k] = CASE k = 68 -> EntryDebug   [] k = 82 -> EntryRestore
                                       [] k = 76 -> EntryLoad    [] k = 83 -> EntrySave
                                       [] k = 65 -> EntryAbout   [] k = 66 -> EntryAbout + 1
                                       [] k = 84 -> EntryTest
    BY Zenon DEF Jump
  <2> QED
    BY <2>1, <2>2
<1> HIDE DEF Fine, c
<1>7. \A k \in DOMAIN Jump : Fine(Jump[k])
  BY <1>6 DEF Fine
<1>8. /\ Fine(Skip(s, key - 48, EntrySwitch)) /\ Fine(Skip(s, c - 1, EntrySwitch))
      /\ Fine(Skip(s, c + 1, EntryAlt + 1))
  BY <1>3, <1>4
<1>9. /\ Fine(MENU_ENTRY_COUNT - 1) /\ Fine(0)
      /\ c >= EntryAbout => Fine(c - 3)
      /\ c >= MENU_OFS_NONCFG => Fine(c + 3)
  BY <1>5 DEF Fine
<1>10. Fine(Entry(s, key))
  BY ONLY <1>2, <1>7, <1>8, <1>9, Zenon DEF Entry, c
<1> QED
  BY <1>10 DEF Fine

\* The menu can be drawn after a function that leaves it alone ...
LEMMA BehindReady ==
  ASSUME NEW s, Ready(s), NEW t, Behind(s, t), Selectable(t)
  PROVE  Ready(t)
  BY DEF Ready, Behind

\* ... and after a move to another entry.
LEMMA MovedReady ==
  ASSUME NEW s, Good(s), Ready(s), NEW key \in Byte
  PROVE  LET moved == [s EXCEPT !.CurrentMenu = Entry(s, key)]
         IN  /\ Ready(moved) /\ DOMAIN moved = Fields
             /\ moved.CurrentMenu = Entry(s, key)
             /\ Presents(s, moved)
<1> DEFINE e == Entry(s, key)
           moved == [s EXCEPT !.CurrentMenu = e]
<1>1. e = EntryAlt => LANGUAGE_SWITCH_ENABLED(s)
  BY EntrySelectable DEF Ready
<1>2. Presents(s, moved)
  BY EntryRange, MovePresents
<1> HIDE DEF e
<1>3. /\ DOMAIN moved = Fields /\ moved.CurrentMenu = e
      /\ moved.input_switch_mode = s.input_switch_mode
      /\ moved.screen = s.screen /\ moved.MenuNeedsRedraw = s.MenuNeedsRedraw
  BY DEF Good, Fields
<1> HIDE DEF moved
<1>4. Ready(moved)
  BY <1>1, <1>3 DEF Ready, Selectable, LANGUAGE_SWITCH_ENABLED
<1> QED
  BY <1>2, <1>3, <1>4 DEF moved, e

\* The functions at the foot of the menu that put something else on the screen.
LEMMA PageSound ==
  ASSUME NEW s, Good(s), s.MenuNeedsRedraw, s.CurrentMenu >= EntrySave
  PROVE  MenuSound(RunEntry(s))
<1>1. s.CurrentMenu # EntryAlt /\ s.CurrentMenu # EntryRestore /\ s.CurrentMenu # EntryLoad
  BY GoodRanges DEF EntrySave, EntryAlt, EntryRestore, EntryLoad, MENU_OFS_NONCFG
<1>2. ASSUME NEW w, NEW page, DOMAIN w = Fields, page \in {"saved", "info", "test"},
             DOMAIN w.screen = {"page", "shown"}, w.screen.page = page,
             w.MenuNeedsRedraw = s.MenuNeedsRedraw, w.CurrentMenu = s.CurrentMenu
      PROVE  MenuSound([w EXCEPT !.IgnoreNextKeypress = TRUE])
  <2> DEFINE t == [w EXCEPT !.IgnoreNextKeypress = TRUE]
  <2>1. /\ t.IgnoreNextKeypress = TRUE /\ t.screen = w.screen
        /\ t.MenuNeedsRedraw = s.MenuNeedsRedraw /\ t.CurrentMenu = s.CurrentMenu
    BY <1>2 DEF Fields
  <2> HIDE DEF t
  <2>2. page # "menu"
    BY <1>2
  <2>3. MenuSound(t)
    BY <1>1, <1>2, <2>1, <2>2 DEF MenuSound, Selectable
  <2> QED
    BY <2>3 DEF t
<1>3. ASSUME NEW w, DOMAIN w = Fields, w.MenuNeedsRedraw = s.MenuNeedsRedraw,
             w.CurrentMenu = s.CurrentMenu, NEW page \in {"saved", "info"}
      PROVE  MenuSound([menuShowFrame(w, page) EXCEPT !.IgnoreNextKeypress = TRUE])
  <2> DEFINE frame == menuShowFrame(w, page)
  <2>1. /\ DOMAIN frame = Fields /\ DOMAIN frame.screen = {"page", "shown"}
        /\ frame.screen.page = page
        /\ frame.MenuNeedsRedraw = s.MenuNeedsRedraw /\ frame.CurrentMenu = s.CurrentMenu
    BY <1>3 DEF menuShowFrame, Fields
  <2> HIDE DEF frame
  <2>2. MenuSound([frame EXCEPT !.IgnoreNextKeypress = TRUE])
    BY <1>2, <2>1
  <2> QED
    BY <2>2 DEF frame
<1>4. MenuSound([menuShowFrame(config_save(s), "saved") EXCEPT !.IgnoreNextKeypress = TRUE])
  <2> DEFINE saved == config_save(s)
  <2>1. DOMAIN saved = Fields /\ saved.MenuNeedsRedraw = s.MenuNeedsRedraw
        /\ saved.CurrentMenu = s.CurrentMenu
    BY DEF config_save, config_write, Flashed, Good, Fields
  <2> HIDE DEF saved
  <2>2. MenuSound([menuShowFrame(saved, "saved") EXCEPT !.IgnoreNextKeypress = TRUE])
    BY <1>3, <2>1
  <2> QED
    BY <2>2 DEF saved
<1>5. MenuSound([menuShowTest(s) EXCEPT !.IgnoreNextKeypress = TRUE])
  <2> DEFINE test == menuShowTest(s)
  <2>1. /\ DOMAIN test = Fields /\ DOMAIN test.screen = {"page", "shown"}
        /\ test.screen.page = "test"
        /\ test.MenuNeedsRedraw = s.MenuNeedsRedraw /\ test.CurrentMenu = s.CurrentMenu
    BY DEF menuShowTest, Good, Fields
  <2> HIDE DEF test
  <2>2. MenuSound([test EXCEPT !.IgnoreNextKeypress = TRUE])
    BY <1>2, <2>1
  <2> QED
    BY <2>2 DEF test
<1>6. MenuSound([menuShowFrame(s, "info") EXCEPT !.IgnoreNextKeypress = TRUE])
  BY <1>3 DEF Good
<1> QED
  BY <1>1, <1>4, <1>5, <1>6, Zenon DEF RunEntry

\* The settings that the others bring back.
LEMMA RestoreBehind ==
  ASSUME NEW s, Good(s), FlashOK(s.flash), s.CurrentMenu \in {EntryRestore, EntryLoad}
  PROVE  Behind(s, RunEntry(s))
<1>1. ASSUME NEW d, Good(d), Behind(s, d) PROVE Behind(s, set_machine(d, Effective(d)))
  <2>1. DOMAIN d = Fields /\ d.unenhance_font \in BOOLEAN
    BY <1>1 DEF Good, SettingsOK
  <2>2. Behind(d, set_machine(d, Effective(d)))
    BY <2>1, SetMachineBehind
  <2> QED
    BY <1>1, <2>2, BehindTwice
<1>2. Behind(s, LET d == config_load_defaults(s) IN set_machine(d, Effective(d)))
  <2> DEFINE d == config_load_defaults(s)
  <2>1. Good(d) /\ Behind(s, d)
    BY DefaultsStep, DefaultsBehind DEF Reloads, Step
  <2> HIDE DEF d
  <2>2. Behind(s, set_machine(d, Effective(d)))
    BY <1>1, <2>1
  <2> QED
    BY <2>2, Zenon DEF d
<1>3. Behind(s, LET d == config_load(s) IN set_machine(d, Effective(d)))
  <2> DEFINE d == config_load(s)
  <2>1. Reloads(s, d) /\ Behind(s, d)
    BY ConfigLoad, LoadBehind, Zenon
  <2> HIDE DEF d
  <2>2. Behind(s, set_machine(d, Effective(d)))
    BY <1>1, <2>1 DEF Reloads, Step
  <2> QED
    BY <2>2, Zenon DEF d
<1>4. s.CurrentMenu = EntryRestore \/ s.CurrentMenu = EntryLoad
  OBVIOUS
<1>5. /\ EntryRestore # EntryLoad
      /\ EntryRestore # EntrySave /\ EntryRestore # EntryTest
      /\ EntryLoad # EntrySave /\ EntryLoad # EntryTest
  BY DEF EntryRestore, EntryLoad, EntrySave, EntryTest, MENU_OFS_NONCFG
<1> QED
  BY <1>2, <1>3, <1>4, <1>5, Zenon DEF RunEntry

\* After a key the menu is drawn anew, or it is no longer there.
LEMMA KeysSound ==
  ASSUME NEW s, Good(s), FlashOK(s.flash), Ready(s), NEW char \in Byte
  PROVE  IF NoRedraw(s, char) THEN MenuSound(menuCheckKeys(s, char))
         ELSE Ready(menuCheckKeys(s, char))
<1> DEFINE key   == Upper(char)
           moved == [s EXCEPT !.CurrentMenu = Entry(s, key)]
           cmd   == [moved EXCEPT !.MenuNeedsRedraw = TRUE]
           t     == menuCheckKeys(s, char)
           leaves == LeavesMenu(moved, TRUE)
           Right(u) == IF NoRedraw(s, char) THEN MenuSound(u) ELSE Ready(u)
<1>1. key \in Byte
  BY DEF Upper, Byte
<1>2. NoRedraw(s, char) <=> key = Escape \/ (Increases(s, key) /\ leaves)
  BY Zenon DEF NoRedraw
<1>3. t = CASE key = Escape -> Flag(s, FALSE, "MENU_ENABLE")
            [] key = Bang -> IF "DEBUG_LINES" \in s.internal_flags
                             THEN Toggle(s, "TEST") ELSE s
            [] Increases(s, key) -> menuDoSelection(cmd, TRUE)
            [] Decreases(s, key) -> menuDoSelection(cmd, FALSE)
            [] OTHER -> moved
  BY Zenon DEF menuCheckKeys
<1>4. /\ key \in {Escape, Bang} => ~ Increases(s, key) /\ ~ Decreases(s, key)
      /\ Increases(s, key) => ~ Decreases(s, key)
      /\ Escape # Bang
  BY DEF Bang, Escape, Increases, Decreases, Jump, EnterKeys, RightKeys, LeftKeys
<1> HIDE DEF key
<1>5. Ready(moved) /\ DOMAIN moved = Fields /\ Presents(s, moved)
  BY <1>1, MovedReady
<1>6. leaves <=> moved.CurrentMenu >= EntrySave
  BY Zenon DEF LeavesMenu
<1> HIDE DEF moved, leaves, t
<1>7. Good(moved)
  BY <1>5, PresentsProper
<1>8. /\ Good(cmd) /\ FlashOK(cmd.flash) /\ DOMAIN cmd = Fields
      /\ cmd.MenuNeedsRedraw = TRUE
      /\ cmd.CurrentMenu = moved.CurrentMenu /\ Selectable(cmd)
  <2>1. Presents(s, cmd) /\ Presents(moved, cmd)
    BY <1>5, <1>7, RedrawPresents, PresentsTwice
  <2>2. Good(cmd) /\ cmd.flash = s.flash
    BY <2>1, PresentsProper DEF Presents, Fields, Shown
  <2>3. /\ cmd.MenuNeedsRedraw = TRUE /\ cmd.CurrentMenu = moved.CurrentMenu
        /\ cmd.input_switch_mode = moved.input_switch_mode
    BY <1>5 DEF Fields
  <2> QED
    BY <1>5, <2>2, <2>3 DEF Ready, Selectable, LANGUAGE_SWITCH_ENABLED, Good
<1> HIDE DEF cmd
<1>9. ASSUME NEW u, Behind(cmd, u),
             cmd.CurrentMenu = EntryAlt => u.input_switch_mode = cmd.input_switch_mode
      PROVE  Ready(u)
  BY <1>8, <1>9 DEF Behind, Ready, Selectable, LANGUAGE_SWITCH_ENABLED
<1>10. ASSUME NEW increase \in BOOLEAN, cmd.CurrentMenu < MENU_OFS_NONCFG
       PROVE  Ready(menuDoSelection(cmd, increase))
  <2>1. Ready(SetEntry(cmd, increase))
    BY <1>8, <1>9, SetEntryBehind
  <2>2. ~ (cmd.CurrentMenu >= MENU_OFS_NONCFG)
    BY <1>8, <1>10, GoodRanges DEF MENU_OFS_NONCFG
  <2>3. menuDoSelection(cmd, increase) = SetEntry(cmd, increase)
    BY <1>10, <2>2, Zenon DEF menuDoSelection
  <2> QED
    BY <2>1, <2>3
<1>11. cmd.CurrentMenu \in Int
  BY <1>8, GoodRanges
<1>12. CASE key = Escape
  <2>1. "MENU_ENABLE" \notin Flag(s, FALSE, "MENU_ENABLE").internal_flags
    BY DEF Flag, Good, Fields
  <2>2. t = Flag(s, FALSE, "MENU_ENABLE")
    BY <1>3, <1>4, <1>12, Zenon
  <2> QED
    BY <1>2, <1>12, <2>1, <2>2 DEF MenuSound, t
<1>13. CASE key = Bang
  <2>1. t = IF "DEBUG_LINES" \in s.internal_flags THEN Toggle(s, "TEST") ELSE s
    BY <1>3, <1>4, <1>13, Zenon
  <2>2. Behind(s, Toggle(s, "TEST"))
    BY FlagBehind DEF Good
  <2>3. Toggle(s, "TEST").input_switch_mode = s.input_switch_mode
    BY DEF Toggle, Flag, Good, Fields
  <2>4. Ready(Toggle(s, "TEST"))
    BY <2>2, <2>3, BehindReady DEF Ready, Selectable, Behind, LANGUAGE_SWITCH_ENABLED
  <2> QED
    BY <1>2, <1>4, <1>13, <2>1, <2>4 DEF t
<1>14. CASE key # Escape /\ key # Bang /\ Increases(s, key)
  <2>1. t = menuDoSelection(cmd, TRUE)
    BY <1>3, <1>4, <1>14, Zenon
  <2>2. CASE leaves
    <3>1. cmd.CurrentMenu >= EntrySave
      BY <1>6, <1>8, <2>2
    <3>2. ~ (cmd.CurrentMenu < MENU_OFS_NONCFG) /\ cmd.CurrentMenu >= MENU_OFS_NONCFG
      BY <1>11, <3>1 DEF EntrySave, MENU_OFS_NONCFG
    <3>3. t = RunEntry(cmd)
      BY <2>1, <3>2, Zenon DEF menuDoSelection
    <3>4. MenuSound(t)
      BY <1>8, <3>1, <3>3, PageSound
    <3> QED
      BY <1>2, <1>14, <2>2, <3>4 DEF t
  <2>3. CASE ~ leaves
    <3>1. ~ (cmd.CurrentMenu >= EntrySave)
      BY <1>6, <1>8, <2>3
    <3>2. CASE cmd.CurrentMenu < MENU_OFS_NONCFG
      BY <1>2, <1>10, <1>14, <2>1, <2>3, <3>2 DEF t
    <3>3. CASE ~ (cmd.CurrentMenu < MENU_OFS_NONCFG)
      <4>1. /\ cmd.CurrentMenu \in {EntryRestore, EntryLoad}
            /\ cmd.CurrentMenu >= MENU_OFS_NONCFG /\ cmd.CurrentMenu # EntryAlt
        BY <1>11, <3>1, <3>3 DEF EntrySave, EntryRestore, EntryLoad, EntryAlt, MENU_OFS_NONCFG
      <4>2. t = RunEntry(cmd)
        BY <2>1, <3>3, <4>1, Zenon DEF menuDoSelection
      <4>3. Ready(t)
        BY <1>8, <1>9, <4>1, <4>2, RestoreBehind
      <4> QED
        BY <1>2, <1>14, <2>3, <4>3 DEF t
    <3> QED
      BY <3>2, <3>3
  <2> QED
    BY <2>2, <2>3
<1>15. CASE key # Escape /\ key # Bang /\ ~ Increases(s, key) /\ Decreases(s, key)
  <2>1. t = menuDoSelection(cmd, FALSE)
    BY <1>3, <1>15, Zenon
  <2>2. CASE cmd.CurrentMenu < MENU_OFS_NONCFG
    BY <1>2, <1>10, <1>15, <2>1, <2>2 DEF t
  <2>3. CASE ~ (cmd.CurrentMenu < MENU_OFS_NONCFG)
    <3>1. t = cmd
      BY <2>1, <2>3, Zenon DEF menuDoSelection
    <3>2. Ready(cmd)
      BY <1>8 DEF Ready
    <3> QED
      BY <1>2, <1>15, <3>1, <3>2 DEF t
  <2> QED
    BY <2>2, <2>3
<1>16. CASE key # Escape /\ key # Bang /\ ~ Increases(s, key) /\ ~ Decreases(s, key)
  <2>1. t = moved
    BY <1>3, <1>16, Zenon
  <2> QED
    BY <1>2, <1>5, <1>16, <2>1 DEF t
<1> QED
  BY <1>12, <1>13, <1>14, <1>15, <1>16

\* The menu answers a key.
LEMMA MenuShowSound ==
  ASSUME NEW s, Good(s), FlashOK(s.flash), NEW key \in Byte,
         \/ key = KeyOpen
         \/ key = KeyRefresh /\ Selectable(s)
         \/ "MENU_ENABLE" \in s.internal_flags /\ MenuSound(s)
  PROVE  MenuSound(menuShow(s, key))
<1> DEFINE opened == [s EXCEPT !.CurrentMenu = 0, !.MenuNeedsRedraw = TRUE,
                               !.IgnoreNextKeypress = FALSE]
           redraw == [s EXCEPT !.MenuNeedsRedraw = TRUE]
           begun  == CASE key = KeyOpen -> opened
                       [] key = KeyRefresh -> redraw
                       [] OTHER -> s
           page   == [begun EXCEPT !.IgnoreNextKeypress = FALSE]
           t      == menuCheckKeys(begun, key)
<1>1. Presents(s, opened) /\ Ready(opened)
  <2>1. 0 \in 0 .. MENU_ENTRY_COUNT - 1 /\ 0 # EntryAlt
    BY DEF MENU_ENTRY_COUNT, EntryAlt
  <2>2. opened.MenuNeedsRedraw = TRUE /\ opened.CurrentMenu = 0
    BY DEF Good, Fields
  <2>3. Presents(s, opened)
    BY <2>1, PresentsItself DEF Presents, Fields, Shown
  <2> QED
    BY <2>1, <2>2, <2>3 DEF Ready, Selectable
<1>2. Presents(s, redraw) /\ Presents(s, s)
  BY RedrawPresents, PresentsItself
<1>3. /\ key = KeyRefresh => Ready(redraw)
      /\ key # KeyOpen /\ key # KeyRefresh => Ready(s)
  <2>1. /\ redraw.MenuNeedsRedraw = TRUE /\ redraw.CurrentMenu = s.CurrentMenu
        /\ redraw.input_switch_mode = s.input_switch_mode
    BY DEF Good, Fields
  <2>2. KeyRefresh # KeyOpen
    BY DEF KeyOpen, KeyRefresh
  <2> HIDE DEF redraw
  <2> QED
    BY <2>1, <2>2 DEF MenuSound, Ready, Selectable, LANGUAGE_SWITCH_ENABLED
<1> HIDE DEF opened, redraw
<1>4. Presents(s, begun) /\ Ready(begun)
  <2>1. KeyOpen # KeyRefresh
    BY DEF KeyOpen, KeyRefresh
  <2> QED
    BY <1>1, <1>2, <1>3, <2>1, Zenon
<1> HIDE DEF begun
<1>5. Good(begun) /\ FlashOK(begun.flash)
  BY <1>4, PresentsProper DEF Presents, Fields, Shown
<1>6. MenuSound(DrawMenu(page))
  <2>1. Good(page)
    BY <1>4, <1>5, IgnorePresents, PresentsProper
  <2>2. /\ page.MenuNeedsRedraw = begun.MenuNeedsRedraw /\ page.screen = begun.screen
        /\ page.CurrentMenu = begun.CurrentMenu
        /\ page.input_switch_mode = begun.input_switch_mode
    BY <1>5 DEF Good, Fields
  <2> HIDE DEF page
  <2>3. Ready(page)
    BY <1>4, <2>2 DEF Ready, Selectable, LANGUAGE_SWITCH_ENABLED
  <2> QED
    BY <2>1, <2>3, DrawSound
<1>7. IF NoRedraw(begun, key) THEN MenuSound(t) ELSE Ready(t)
  BY <1>4, <1>5, KeysSound
<1>8. Good(t)
  BY <1>5, KeysHandled DEF Handled, Step
<1> HIDE DEF t
<1>9. ~ NoRedraw(begun, key) => MenuSound(DrawMenu(t))
  BY <1>7, <1>8, DrawSound
<1> QED
  BY <1>6, <1>7, <1>9, Zenon DEF menuShow, t, page, begun, opened, redraw


-----------------------------------------------------------------------------
(* The switch, seen from the menu.                                         *)

\* A change of the display that leaves the menu, and what it can select, alone.
Aside(s, t) == Behind(s, t) /\ t.input_switch_mode = s.input_switch_mode

LEMMA FlagAside ==
  ASSUME NEW s, DOMAIN s = Fields, NEW condition, NEW name, name # "MENU_ENABLE"
  PROVE  Aside(s, Flag(s, condition, name)) /\ Aside(s, Toggle(s, name))
<1>1. ASSUME NEW c PROVE Flag(s, c, name).input_switch_mode = s.input_switch_mode
  BY DEF Flag, Fields
<1> QED
  BY <1>1, FlagBehind DEF Aside, Toggle

LEMMA AsideTwice ==
  ASSUME NEW s, NEW t, NEW u, Aside(s, t), Aside(t, u)
  PROVE  Aside(s, u)
  BY BehindTwice DEF Aside

LEMMA CycleAside ==
  ASSUME NEW s, DOMAIN s = Fields, NEW color \in BOOLEAN
  PROVE  Aside(s, cycle_display_modes(s, color))
<1> DEFINE last == s.color_mode >= COLOR_MODE_AMBER
           tint == [s EXCEPT !.color_mode = IF last THEN COLOR_MODE_BW ELSE @ + 1]
<1>1. Aside(s, tint) /\ DOMAIN tint = Fields
  BY DEF Aside, Behind, Fields
<1> HIDE DEF last, tint
<1>2. Aside(s, Flag(tint, FALSE, "FORCED_MONO")) /\ Aside(s, Toggle(tint, "SCANLINEEMU"))
  BY <1>1, FlagAside, AsideTwice
<1>3. Aside(s, Flag(Toggle(s, "SCANLINEEMU"), TRUE, "FORCED_MONO"))
  <2> DEFINE lines == Toggle(s, "SCANLINEEMU")
  <2>1. Aside(s, lines) /\ DOMAIN lines = Fields
    BY FlagAside DEF Aside, Behind
  <2> HIDE DEF lines
  <2>2. Aside(s, Flag(lines, TRUE, "FORCED_MONO"))
    BY <2>1, FlagAside, AsideTwice
  <2> QED
    BY <2>2 DEF lines
<1> QED
  BY <1>1, <1>2, <1>3, Zenon DEF cycle_display_modes, tint, last

LEMMA SwitchedAside ==
  ASSUME NEW s, DOMAIN s = Fields, NEW on \in BOOLEAN, NEW quick \in BOOLEAN,
         NEW color \in BOOLEAN
  PROVE  Aside(s, switched(s, on, quick, color))
<1> DEFINE language == [s EXCEPT !.language_switch = on]
<1>1. Aside(s, language) /\ DOMAIN language = Fields
  BY DEF Aside, Behind, Fields
<1> HIDE DEF language
<1>2. Aside(s, Flag(s, on, "FORCED_MONO")) /\ Aside(s, s)
  BY FlagAside DEF Aside, Behind
<1>3. Aside(s, Toggle(language, "FORCED_MONO"))
  BY <1>1, FlagAside, AsideTwice
<1>4. Aside(s, cycle_display_modes(s, color))
      /\ Aside(s, cycle_display_modes(language, color))
  BY <1>1, CycleAside, AsideTwice
<1> QED
  BY <1>1, <1>2, <1>3, <1>4, Zenon DEF switched, language

\* The switch changes what the menu shows, and draws it anew; only the mode that
\* selects character sets alone changes nothing of it.
LEMMA SwitchSound ==
  ASSUME NEW s, Good(s), FlashOK(s.flash), MenuSound(s),
         NEW on \in BOOLEAN, NEW quick \in BOOLEAN, NEW color \in BOOLEAN
  PROVE  MenuSound(update_toggle_switch(s, on, quick, color))
<1> DEFINE moved == switched(s, on, quick, color)
           done  == [moved EXCEPT !.debounce_last = on]
<1>1. Proper(s, moved) /\ Good(moved) /\ Aside(s, moved)
  BY SwitchedProper, SwitchedAside DEF Proper, Step, Good
<1>2. s.input_switch_mode = ModeSwitchLanguage =>
        moved = [s EXCEPT !.language_switch = on]
  <2>1. /\ ModeSwitchLanguage # ModeSwitchMonochrome
        /\ ModeSwitchLanguage # ModeSwitchCycleVideo
        /\ ModeSwitchLanguage # ModeSwitchLangMonochrome
        /\ ModeSwitchLanguage # ModeSwitchLangCycle
    BY DEF ModeSwitchLanguage, ModeSwitchMonochrome, ModeSwitchCycleVideo,
       ModeSwitchLangMonochrome, ModeSwitchLangCycle
  <2> QED
    BY <2>1, Zenon DEF switched
<1> HIDE DEF moved
<1>3. /\ DOMAIN done = Fields
      /\ \A f \in Fields \ {"debounce_last"} : done[f] = moved[f]
  BY <1>1 DEF Good, Fields
<1>4. Good(done) /\ FlashOK(done.flash)
  <2>1. Good(done)
    BY <1>1, DebouncePresents, PresentsProper
  <2>2. done.flash = s.flash
    BY <1>1, <1>3 DEF Proper, Quiet, Fields
  <2> QED
    BY <2>1, <2>2
<1> HIDE DEF done
<1>5. Aside(s, done)
  BY <1>1, <1>3 DEF Aside, Behind, Good, Fields
<1>6. CASE s.input_switch_mode = ModeSwitchLanguage
  <2>1. \A f \in MenuFields : done[f] = s[f]
    BY <1>2, <1>3, <1>6 DEF Good, MenuFields, Fields
  <2>2. MenuSound(done)
    BY <2>1, MenuSame
  <2>3. done.input_switch_mode = ModeSwitchLanguage
    BY <1>5, <1>6 DEF Aside
  <2> QED
    BY <2>2, <2>3, Zenon DEF update_toggle_switch, done, moved
<1>7. CASE s.input_switch_mode # ModeSwitchLanguage
  <2>1. CASE "MENU_ENABLE" \in done.internal_flags
    <3>1. Selectable(done)
      BY <1>5, <2>1 DEF Aside, Behind, MenuSound, Selectable, LANGUAGE_SWITCH_ENABLED
    <3>2. KeyRefresh \in Byte
      BY DEF KeyRefresh, Byte
    <3>3. MenuSound(menuShow(done, KeyRefresh))
      BY <1>4, <3>1, <3>2, MenuShowSound
    <3>4. done.input_switch_mode # ModeSwitchLanguage
      BY <1>5, <1>7 DEF Aside
    <3> QED
      BY <2>1, <3>3, <3>4, Zenon DEF update_toggle_switch, done, moved
  <2>2. CASE "MENU_ENABLE" \notin done.internal_flags
    <3>1. MenuSound(done)
      BY <2>2 DEF MenuSound
    <3> QED
      BY <2>2, <3>1, Zenon DEF update_toggle_switch, done, moved
  <2> QED
    BY <2>1, <2>2
<1> QED
  BY <1>6, <1>7


-----------------------------------------------------------------------------
(* A write to a register, seen from the menu.                              *)

Closed(s) == "MENU_ENABLE" \notin s.internal_flags

\* No register but that of the menu opens it.
LEMMA FontCommitClosed ==
  ASSUME NEW s, DOMAIN s = Fields, Closed(s)
  PROVE  Closed(font_commit(s))
<1> DEFINE slot    == s.custom_rom_font_nr
           buffer  == s.custom_font_buffer
           even    == 2 * (slot \div 2)
           erased  == Flashed(s, WithFonts(s.flash, [x \in Pair(slot) |-> NoBytes]))
           half    == Flashed(erased, WithFonts(erased.flash, [x \in {even} |-> buffer[0]]))
           full    == Flashed(half, WithFonts(half.flash, [x \in {even + 1} |-> buffer[1]]))
           written == font_write(s, slot, buffer)
           valid   == [written EXCEPT !.invalid_fonts = @ \ {slot}]
           nodir   == Flashed(valid, [valid.flash EXCEPT !.fontdir = Erased])
           dir     == config_font_update(valid)
           page    == menuShowFrame(dir, "saved")
           t       == [page EXCEPT !.reload_charsets = @ \cup {Local, Alternate}]
           Same(u) == DOMAIN u = Fields /\ u.internal_flags = s.internal_flags
<1>1. ASSUME NEW u, Same(u), NEW image PROVE Same(Flashed(u, image))
  BY <1>1 DEF Flashed, Fields
<1>2. Same(written)
  <2>1. Same(erased)
    BY <1>1
  <2>2. Same(half)
    <3> HIDE DEF Same, erased
    <3> QED
      BY <1>1, <2>1
  <2>3. Same(full)
    <3> HIDE DEF Same, half
    <3> QED
      BY <1>1, <2>2
  <2>4. written = full
    BY Zenon DEF font_write, full, half, erased
  <2> QED
    BY <2>3, <2>4
<1> HIDE DEF written
<1>3. Same(valid)
  BY <1>2 DEF Fields
<1> HIDE DEF valid
<1>4. Same(dir)
  <2>1. Same(nodir)
    <3> HIDE DEF Same
    <3> QED
      BY <1>1, <1>3
  <2>2. Same(Flashed(nodir, [nodir.flash EXCEPT !.fontdir = valid.invalid_fonts]))
    <3> HIDE DEF Same, nodir
    <3> QED
      BY <1>1, <2>1
  <2> QED
    BY <2>2, Zenon DEF config_font_update, nodir, Same
<1> HIDE DEF dir
<1>5. Same(page)
  BY <1>4 DEF menuShowFrame, Fields
<1> HIDE DEF page
<1>6. Closed(t)
  BY <1>5 DEF Closed, Fields
<1> QED
  BY <1>6, Zenon DEF font_commit, t, page, dir, valid, written

LEMMA BehindClosed ==
  ASSUME NEW s, Closed(s), NEW t, Behind(s, t)
  PROVE  Closed(t)
  BY DEF Closed, Behind

LEMMA WriteClosed ==
  ASSUME Sound(dev, sent), Closed(dev), NEW reg \in 0 .. 15, reg # 9, NEW data \in Byte
  PROVE  Closed(device_write(dev, reg, data))
<1> DEFINE font == data - 16
<1>1. Good(dev) /\ DOMAIN dev = Fields /\ LockOK(dev) /\ FlashOK(dev.flash)
      /\ UploadOK(dev) /\ Uploading(dev, sent)
  BY DEF Sound, Good
<1>2. Closed(lock(dev, data))
  BY <1>1, LockWritten DEF Closed, Fields
<1>3. ASSUME NEW u, DOMAIN u = Fields, Closed(u), NEW set, NEW clear, NEW flag \in StoredFlags
      PROVE  Closed(SetOrClear(u, data, set, clear, flag))
  <2> DEFINE on == IF Bit(data, set) THEN Flag(u, TRUE, flag) ELSE u
  <2>1. flag # "MENU_ENABLE"
    BY DEF StoredFlags
  <2>2. Closed(on) /\ DOMAIN on = Fields
    <3> DEFINE t == Flag(u, TRUE, flag)
    <3>1. Behind(u, t)
      BY <1>3, <2>1, FlagBehind
    <3> HIDE DEF t
    <3>2. on \in {t, u}
      BY DEF t
    <3> HIDE DEF on
    <3> QED
      BY <1>3, <3>1, <3>2 DEF Behind, Closed
  <2> HIDE DEF on
  <2>3. Closed(Flag(on, FALSE, flag))
    BY <2>1, <2>2, FlagBehind, BehindClosed
  <2> QED
    BY <2>2, <2>3, Zenon DEF SetOrClear, on
<1>4. /\ Closed(SetOrClear(dev, data, 1, 2, "SCANLINEEMU"))
      /\ Closed(SetOrClear(dev, data, 1, 2, "VIDEO7"))
  BY <1>1, <1>3 DEF StoredFlags
<1>5. Closed(color_reg(dev, data))
  <2> DEFINE color == IF data % 4 # 0 THEN [dev EXCEPT !.color_mode = (data % 4) - 1]
                      ELSE dev
  <2>1. DOMAIN color = Fields /\ Closed(color)
    BY <1>1 DEF Closed, Fields
  <2> HIDE DEF color
  <2>2. Closed(SetOrClear(color, data, 64, 128, "FORCED_MONO"))
    BY <1>3, <2>1 DEF StoredFlags
  <2> QED
    BY <2>2, Zenon DEF color_reg, color
<1>6. Closed(font_reg(dev, data))
  <2>1. Closed(font_select(dev, data))
    BY <1>1 DEF font_select, Closed, Fields
  <2>2. Closed(font_commit(dev))
    BY <1>1, FontCommitClosed
  <2> QED
    BY <2>1, <2>2, Zenon DEF font_reg
<1>7. Closed(font_data(dev, data))
  BY <1>1 DEF font_data, Closed, Fields
<1>8. Closed(device_command(dev, data))
  <2>1. Closed(config_load_defaults(dev)) /\ Closed(config_load(dev))
    BY <1>1, DefaultsBehind, LoadBehind, BehindClosed
  <2>2. Closed(config_save(dev))
    BY <1>1 DEF config_save, config_write, Flashed, Closed, Fields
  <2>3. Closed([dev EXCEPT !.cfg_local_charset = data - 16,
                           !.reload_charsets = @ \cup {Local}])
    BY <1>1 DEF Closed, Fields
  <2> QED
    BY <2>1, <2>2, <2>3, Zenon DEF device_command
<1>9. /\ Closed(charset_reg(dev, data, "cfg_local_charset", Local))
      /\ Closed(charset_reg(dev, data, "cfg_alt_charset", Alternate))
  BY <1>1 DEF charset_reg, Closed, Fields
<1>10. Closed(machine_reg(dev, data))
  BY <1>1 DEF machine_reg, Closed, Fields
<1>11. CASE reg = 15
  <2>1. /\ reg # 0 /\ reg # 1 /\ reg # 2 /\ reg # 3 /\ reg # 4
        /\ reg # 5 /\ reg # 6 /\ reg # 7 /\ reg # 8 /\ reg # 9
    BY <1>11
  <2> QED
    BY <1>2, <1>11, <2>1, Zenon DEF device_write
<1>12. CASE reg # 15
  BY <1>4, <1>5, <1>6, <1>7, <1>8, <1>9, <1>10, <1>12, Zenon DEF device_write
<1> QED
  BY <1>11, <1>12


LEMMA MenuRegSound ==
  ASSUME NEW s, Good(s), FlashOK(s.flash), MenuSound(s), NEW data \in Byte
  PROVE  MenuSound(menu_reg(s, data))
<1> DEFINE opened == Flag(s, TRUE, "MENU_ENABLE")
<1>1. CASE data = 0
  <2>1. Good(opened) /\ FlashOK(opened.flash)
    BY FlagProper DEF Proper, Step, Quiet
  <2>2. "MENU_ENABLE" \in opened.internal_flags
    BY DEF Flag, Good, Fields
  <2> HIDE DEF opened
  <2>3. MenuSound(menuShow(opened, data))
    BY <1>1, <2>1, MenuShowSound DEF KeyOpen
  <2> QED
    BY <1>1, <2>2, <2>3, Zenon DEF menu_reg, opened
<1>2. CASE data # 0 /\ "MENU_ENABLE" \in s.internal_flags
  <2>1. MenuSound(menuShow(s, data))
    BY <1>2, MenuShowSound
  <2> QED
    BY <1>2, <2>1, Zenon DEF menu_reg
<1>3. CASE data # 0 /\ "MENU_ENABLE" \notin s.internal_flags
  BY <1>3, Zenon DEF menu_reg
<1> QED
  BY <1>1, <1>2, <1>3

\* A write leaves the menu in order, if it is one to the menu or the lock, or if the
\* menu is not open.
LEMMA WriteMenuSound ==
  ASSUME Sound(dev, sent), MenuSound(dev), NEW reg \in 0 .. 15, NEW data \in Byte,
         reg \in {9, 15} \/ Closed(dev)
  PROVE  MenuSound(Settle(device_write(dev, reg, data)))
<1> DEFINE t == device_write(dev, reg, data)
<1>1. Good(dev) /\ LockOK(dev) /\ FlashOK(dev.flash)
  BY DEF Sound
<1>2. MenuSound(t)
  <2>1. CASE reg = 15
    <3>1. /\ reg # 0 /\ reg # 1 /\ reg # 2 /\ reg # 3 /\ reg # 4
          /\ reg # 5 /\ reg # 6 /\ reg # 7 /\ reg # 8 /\ reg # 9
      BY <2>1
    <3>2. t = lock(dev, data)
      BY <2>1, <3>1, Zenon DEF device_write
    <3> HIDE DEF t
    <3>3. \A f \in MenuFields : t[f] = dev[f]
      BY <1>1, <3>2, LockWritten DEF MenuFields, Fields
    <3> QED
      BY <3>3, MenuSame
  <2>2. CASE reg = 9
    <3>1. /\ reg # 0 /\ reg # 1 /\ reg # 2 /\ reg # 3 /\ reg # 4
          /\ reg # 5 /\ reg # 6 /\ reg # 7 /\ reg # 8 /\ reg # 15
      BY <2>2
    <3>2. t \in {dev, menu_reg(dev, data)}
      <4>1. CASE dev.dev_config_lock # Unlocked
        <5>1. t = dev
          BY <3>1, <4>1, Zenon DEF device_write
        <5> QED
          BY <5>1
      <4>2. CASE dev.dev_config_lock = Unlocked
        <5>1. t = menu_reg(dev, data)
          BY <2>2, <3>1, <4>2, Zenon DEF device_write
        <5> QED
          BY <5>1
      <4> QED
        BY <4>1, <4>2
    <3> HIDE DEF t
    <3> QED
      BY <1>1, <3>2, MenuRegSound
  <2>3. CASE reg # 9 /\ Closed(dev)
    <3>1. Closed(t)
      BY <2>3, WriteClosed
    <3> HIDE DEF t
    <3> QED
      BY <3>1 DEF Closed, MenuSound
  <2> QED
    BY <2>1, <2>2, <2>3
<1>3. DOMAIN t = Fields
  BY WriteSound, Zenon DEF Written, Good
<1> HIDE DEF t
<1>4. \A f \in MenuFields : Settle(t)[f] = t[f]
  BY <1>3, SettledSame DEF MenuFields, Fields
<1>5. MenuSound(Settle(t))
  BY <1>2, <1>4, MenuSame
<1> QED
  BY <1>5 DEF t

-----------------------------------------------------------------------------
(* The other steps, seen from the menu.                                    *)

LEMMA ClosedSound ==
  ASSUME NEW s, Closed(s)
  PROVE  MenuSound(s)
  BY DEF Closed, MenuSound

LEMMA BootClosed ==
  ASSUME NEW flash, FlashOK(flash)
  PROVE  Closed(Boot(flash))
<1> DEFINE s == PowerOn(flash)
<1>1. Good(s) /\ FlashOK(s.flash)
  BY PowerOnGood
<1>2. Closed(s)
  BY DEF PowerOn, Closed
<1> HIDE DEF s
<1>3. Closed(config_load(s))
  BY <1>1, <1>2, LoadBehind, BehindClosed
<1> QED
  BY <1>3 DEF Boot, s

LEMMA LoadsMenuSound ==
  ASSUME NEW s, MenuSound(s), NEW t, OnlyLoads(s, t)
  PROVE  MenuSound(t)
<1>1. \A f \in MenuFields : t[f] = s[f]
  BY DEF OnlyLoads, MenuFields, Fields
<1> QED
  BY <1>1, MenuSame

\* Core 0.
LEMMA Core0MenuSound ==
  ASSUME Inv, MenuSound(dev), Core0 \/ LoadUndisturbed
  PROVE  MenuSound(dev')
<1>1. /\ Good(dev) /\ DOMAIN dev = Fields /\ FlashOK(dev.flash)
      /\ DOMAIN dev.character_rom = {Local, Alternate}
  BY DEF Inv, Sound, Good
<1>2. CASE StartLoading
  BY <1>2 DEF StartLoading
<1>3. CASE LoadLocal
  BY <1>1, <1>3, LoadLocalOnly, LoadsMenuSound DEF LoadLocal, Load
<1>4. CASE LoadAlternate
  BY <1>1, <1>4, LoadAlternateOnly, LoadsMenuSound DEF LoadAlternate, Load
<1>5. CASE LoadVidex
  BY <1>1, <1>5, LoadVidexOnly, LoadsMenuSound DEF LoadVidex, Load
<1>6. CASE ClearReload
  <2> DEFINE t == [dev EXCEPT !.reload_charsets = {}]
  <2>1. OnlyLoads(dev, t)
    BY <1>1 DEF OnlyLoads, Fields
  <2>2. dev' = t
    BY <1>6 DEF ClearReload, Load
  <2> HIDE DEF t
  <2> QED
    BY <2>1, <2>2, LoadsMenuSound
<1>7. CASE LoadUndisturbed
  BY <1>1, <1>7, LoadAllOnly, LoadsMenuSound DEF LoadUndisturbed
<1>8. CASE Switch
  <2>1. PICK on \in BOOLEAN, quick \in BOOLEAN, color \in BOOLEAN :
          dev' = update_toggle_switch(dev, on, quick, color)
    BY <1>8 DEF Switch
  <2> QED
    BY <1>1, <2>1, SwitchSound
<1> QED
  BY <1>2, <1>3, <1>4, <1>5, <1>6, <1>7, <1>8 DEF Core0

\* Core 1, but for the registers, while the menu is not open.
LEMMA Core1Closed ==
  ASSUME Inv, Closed(dev),
         (\E m \in Detected : machine_auto_detection(m)) \/ (\E b \in RomxBanks : RomxSelect(b))
  PROVE  Closed(dev')
<1>1. DOMAIN dev = Fields /\ dev.unenhance_font \in BOOLEAN
  BY DEF Inv, Sound, Good, SettingsOK
<1>2. ASSUME NEW m \in Detected, machine_auto_detection(m) PROVE Closed(dev')
  <2> DEFINE found == [dev EXCEPT !.detected_machine = m]
  <2>1. dev' = set_machine(found, m)
    BY <1>2 DEF machine_auto_detection
  <2>2. DOMAIN found = Fields /\ found.unenhance_font \in BOOLEAN /\ Closed(found)
    BY <1>1 DEF Closed, Fields
  <2> HIDE DEF found
  <2> QED
    BY <2>1, <2>2, SetMachineBehind, BehindClosed
<1>3. ASSUME NEW b \in RomxBanks, RomxSelect(b) PROVE Closed(dev')
  BY <1>1, <1>3 DEF RomxSelect, Closed, Fields
<1> QED
  BY <1>2, <1>3

LEMMA MenuSoundStep ==
  ASSUME Inv, MenuSound(dev), PatientNext
  PROVE  MenuSound(dev')
<1>1. ASSUME NEW w \in Writes, DeviceWrite(w[1], w[2]), w[1] \in {9, 15} \/ Closed(dev)
      PROVE  MenuSound(dev')
  <2>1. w[1] \in 0 .. 15 /\ w[2] \in Byte
    BY WritesRange
  <2>2. MenuSound(Settle(device_write(dev, w[1], w[2])))
    BY <1>1, <2>1, WriteMenuSound DEF Inv
  <2>3. dev' = Settle(device_write(dev, w[1], w[2]))
    BY <1>1, Zenon DEF DeviceWrite
  <2> QED
    BY <2>2, <2>3
<1>2. CASE Reset
  <2>1. Closed(dev')
    BY <1>2 DEF Reset, Flag, Closed, Inv, Sound, Good, Fields
  <2> QED
    BY <2>1, ClosedSound
<1>3. CASE Closed(dev) /\ Core1
  <2>1. CASE (\E m \in Detected : machine_auto_detection(m))
             \/ (\E b \in RomxBanks : RomxSelect(b))
    BY <1>3, <2>1, Core1Closed, ClosedSound
  <2> QED
    BY <1>1, <1>2, <1>3, <2>1 DEF Core1
<1>4. CASE Core0 \/ LoadUndisturbed
  BY <1>4, Core0MenuSound
<1>5. CASE PowerCycle
  <2>1. dev' = Boot(dev.flash) /\ FlashOK(dev.flash)
    BY <1>5 DEF PowerCycle, Restart, Inv, Sound
  <2> QED
    BY <2>1, BootClosed, ClosedSound
<1>6. ASSUME NEW w \in Writes, PowerLoss(w[1], w[2]) PROVE MenuSound(dev')
  <2> DEFINE t == device_write(dev, w[1], w[2])
  <2>1. PICK i \in DOMAIN t.trail : dev' = Boot(t.trail[i]) /\ FlashOK(t.trail[i])
    BY <1>6, LossSound DEF OneTorn
  <2> HIDE DEF t
  <2> QED
    BY <2>1, BootClosed, ClosedSound
<1> QED
  BY <1>1, <1>2, <1>3, <1>4, <1>5, <1>6 DEF PatientNext, Power, Closed

LEMMA PatientAlways ==
  PatientSpec => [](Inv /\ MenuSound(dev))
<1>1. Init => Inv /\ MenuSound(dev)
  <2> SUFFICES ASSUME Init PROVE Inv /\ MenuSound(dev)
    OBVIOUS
  <2>1. Inv /\ FlashOK(dev.flash)
    BY InvInit DEF Inv, Sound
  <2>2. PICK config \in OldConfigs \cup {Erased} :
          dev = Boot([FreshFlash EXCEPT !.config = config])
    BY DEF Init
  <2>3. FlashOK([FreshFlash EXCEPT !.config = config])
    <3>1. NoBytes \in Font
      BY DEF NoBytes, Font
    <3>2. config = Erased \/ WellStored(config)
      BY OldConfigsAssumption
    <3> QED
      BY <3>1, <3>2 DEF FreshFlash, FlashOK
  <2> QED
    BY <2>1, <2>2, <2>3, BootClosed, ClosedSound
<1>2. Inv /\ MenuSound(dev) /\ [PatientNext]_vars => (Inv /\ MenuSound(dev))'
  <2>1. ASSUME Inv, MenuSound(dev), PatientNext PROVE Inv' /\ MenuSound(dev')
    <3>1. Next \/ QuietNext
      BY <2>1 DEF PatientNext, Next, QuietNext, Core1
    <3> QED
      BY <2>1, <3>1, InvStep, MenuSoundStep
  <2>2. ASSUME Inv, MenuSound(dev), UNCHANGED vars PROVE Inv' /\ MenuSound(dev')
    BY <2>2 DEF vars, Inv
  <2> QED
    BY <2>1, <2>2
<1> QED
  BY <1>1, <1>2, PTL DEF PatientSpec

\* While the program leaves the registers to the menu, the menu on the screen shows
\* the values that the settings have, after a key, a change by the switch, a load and
\* the defaults, and does not select an entry that is hidden: menu.c:692, render.c:245.
THEOREM MenuAlwaysTruthful == PatientSpec => []MenuTruthful
<1>1. MenuSound(dev) => MenuTruthful
  BY Zenon DEF MenuSound, MenuTruthful, Truthful, Selectable
<1> QED
  BY <1>1, PatientAlways, PTL


\* Neither does the key that takes another page away change a setting.
LEMMA PageKeys ==
  ASSUME NEW s, Good(s), MenuSound(s), s.screen.page # "menu", NEW data \in Byte
  PROVE  SameChoice(s, menu_reg(s, data)) /\ Good(menu_reg(s, data))
<1> DEFINE Right(t) == SameChoice(s, t) /\ Good(t)
           flag(on) == Flag(s, on, "MENU_ENABLE")
<1>1. ASSUME NEW on \in BOOLEAN PROVE Right(flag(on))
  <2>1. flag(on).internal_flags \cap StoredFlags = s.internal_flags \cap StoredFlags
    BY DEF Flag, StoredFlags, Good, Fields
  <2>2. Proper(s, flag(on))
        /\ \A f \in Fields \ {"internal_flags"} : flag(on)[f] = s[f]
    BY FlagProper
  <2> HIDE DEF flag
  <2> QED
    BY <2>1, <2>2 DEF SameChoice, Proper, Step, Fields
<1>2. CASE data = 0
  <2> DEFINE opened == flag(TRUE)
  <2>1. Right(opened)
    BY <1>1
  <2>2. "MENU_ENABLE" \in opened.internal_flags
    BY DEF Flag, Good, Fields
  <2>3. menu_reg(s, data) = menuShow(opened, data)
    BY <1>2, <2>2, Zenon DEF menu_reg, opened, flag
  <2> HIDE DEF opened
  <2>4. data \in {KeyOpen, KeyRefresh}
    BY <1>2 DEF KeyOpen
  <2>5. SameChoice(opened, menuShow(opened, data)) /\ Good(menuShow(opened, data))
    BY <2>1, <2>4, RefreshPresents, PresentsProper
  <2> QED
    BY <2>1, <2>3, <2>5 DEF SameChoice
<1>3. CASE data # 0 /\ Closed(s)
  <2>1. menu_reg(s, data) = s
    BY <1>3, Zenon DEF menu_reg, Closed
  <2> QED
    BY <2>1 DEF SameChoice
<1>4. CASE data # 0 /\ ~ Closed(s)
  <2>1. "MENU_ENABLE" \in s.internal_flags /\ s.IgnoreNextKeypress
    BY <1>4 DEF Closed, MenuSound
  <2>2. menu_reg(s, data) = menuShow(s, data)
    BY <1>4, <2>1, Zenon DEF menu_reg
  <2>3. CASE data = KeyRefresh
    <3>1. Presents(s, menuShow(s, data))
      BY <2>3, RefreshPresents
    <3> QED
      BY <2>2, <3>1, PresentsProper
  <2>4. CASE data = Escape
    <3>1. Escape # 0 /\ Escape # KeyOpen /\ Escape # KeyRefresh /\ Upper(Escape) = Escape
          /\ Escape # Bang /\ ~ Increases(s, Escape) /\ ~ Decreases(s, Escape)
      BY DEF Escape, KeyOpen, KeyRefresh, Upper, Bang, Increases, Decreases, Jump,
         EnterKeys, RightKeys, LeftKeys
    <3>2. menuCheckKeys(s, Escape) = flag(FALSE)
      BY <3>1, Zenon DEF menuCheckKeys, flag
    <3>3. NoRedraw(s, Escape)
      BY <3>1, Zenon DEF NoRedraw
    <3>4. menuShow(s, Escape) = flag(FALSE)
      BY <3>1, <3>2, <3>3, Zenon DEF menuShow
    <3>5. Right(flag(FALSE))
      BY <1>1
    <3> HIDE DEF flag
    <3> QED
      BY <2>2, <2>4, <3>4, <3>5
  <2>5. CASE data # KeyRefresh /\ data # Escape
    <3> DEFINE page == [s EXCEPT !.IgnoreNextKeypress = FALSE]
    <3>1. data # KeyOpen
      BY <1>4 DEF KeyOpen
    <3>2. menuShow(s, data) = DrawMenu(page)
      BY <2>1, <2>5, <3>1, Zenon DEF menuShow, page
    <3>3. Presents(s, page) /\ Good(page)
      BY IgnorePresents, PresentsProper
    <3> HIDE DEF page
    <3>4. Presents(s, DrawMenu(page))
      BY <3>3, DrawPresents, PresentsTwice
    <3> QED
      BY <2>2, <3>2, <3>4, PresentsProper
  <2> QED
    BY <2>3, <2>4, <2>5
<1> QED
  BY <1>2, <1>3, <1>4

\* Under the same condition a key changes a setting only while the menu is what is on
\* the screen: the keys on the information pages, the test page and the page "SAVED!"
\* take these away, or leave the menu, and do nothing else (menuShow, menu.c:808).
THEOREM KeysActOnMenu == PatientSpec => KeyActsOnMenu
<1> DEFINE A == (\E w \in Writes : w[1] = 9 /\ DeviceWrite(w[1], w[2]))
                  /\ UserSettings(dev') # UserSettings(dev) => dev.screen.page = "menu"
<1>1. ASSUME Inv, MenuSound(dev) PROVE A
  <2> SUFFICES ASSUME NEW w \in Writes, w[1] = 9, DeviceWrite(w[1], w[2]),
                      dev.screen.page # "menu"
               PROVE  UserSettings(dev') = UserSettings(dev)
    OBVIOUS
  <2> DEFINE t == device_write(dev, 9, w[2])
  <2>1. w[2] \in Byte /\ Good(dev)
    BY <1>1, WritesRange DEF Inv, Sound
  <2>2. t \in {dev, menu_reg(dev, w[2])}
    <3>1. /\ 9 # 15 /\ 9 # 0 /\ 9 # 1 /\ 9 # 2 /\ 9 # 3 /\ 9 # 4 /\ 9 # 5 /\ 9 # 6
          /\ 9 # 7 /\ 9 # 8
      OBVIOUS
    <3>2. t = dev \/ t = menu_reg(dev, w[2])
      BY <3>1, Zenon DEF device_write
    <3> QED
      BY <3>2
  <2>3. dev' = Settle(t)
    BY Zenon DEF DeviceWrite
  <2> HIDE DEF t
  <2>4. SameChoice(dev, t) /\ Good(t)
    <3>1. SameChoice(dev, dev)
      BY DEF SameChoice
    <3> QED
      BY <1>1, <2>1, <2>2, <3>1, PageKeys
  <2>5. /\ DOMAIN dev' = Fields
        /\ \A f \in Fields \ {"trail"} : dev'[f] = t[f]
    BY <2>3, <2>4, SettledSame DEF Good
  <2>6. SameChoice(dev, dev') /\ Good(dev')
    <3>1. Good(dev')
      BY <2>4, <2>5 DEF Good, SettingsOK, Follow, Fields
    <3>2. SameChoice(dev, dev')
      BY <2>4, <2>5 DEF SameChoice, Fields
    <3> QED
      BY <3>1, <3>2
  <2> QED
    BY <2>1, <2>6, SameSettings
<1> QED
  BY <1>1, PatientAlways, PTL DEF KeyActsOnMenu
=============================================================================
