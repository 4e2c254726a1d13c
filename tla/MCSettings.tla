----------------------------- MODULE MCSettings -----------------------------
(* The register writes that the runs of Settings allow, for TLC.           *)
EXTENDS Settings

Unlock == {<<15, 11>>, <<15, 22>>}
Keys(keys) == {<<9, key>> : key \in keys}

\* What firmware 1.0 left behind: no choice of effects and Videx fonts, the
\* enhanced font as an option of its own, and a font that is gone.
Version1 == [size |-> "without rendering_fx", flags |-> {"VIDEO7"},
             color_mode |-> 7, machine_type |-> MACHINE_IIE,
             local_charset |-> 40, alt_charset |-> 9,
             input_switch_mode |-> ModeSwitchLanguage,
             OBSOLETE_enhanced_font_enabled |-> TRUE,
             rendering_fx |-> 255, videx_selection |-> 255]
OldFlash == {Version1, [Version1 EXCEPT !.machine_type = 7],
             [Version1 EXCEPT !.size = "without videx_selection", !.rendering_fx = 2]}

\* A session with the menu: the machine, loading and saving.
MachineKeys == Unlock \cup Keys({0, 48, 8, 21, 82, 76, 83, 65, 27})

\* The effects and the Videx card, restoring, loading and saving.
EffectKeys == Unlock \cup Keys({0, 55, 57, 8, 21, 82, 76, 83})
FewValues == dev.cfg_videx_selection <= 1

\* The switch while the menu is on the screen, and its mode.
SwitchKeys == Unlock \cup Keys({0, 50, 8, 21, 66})

\* The alternate character set, which only some modes of the switch show.
AlternateKeys == Unlock \cup Keys({0, 50, 51, 52, 11, 10, 8, 21})
FewFonts == /\ dev.cfg_alt_charset <= 10
            /\ dev.CurrentMenu \in {0, EntrySwitch, EntryAlt, 4}

\* Programs that use the registers directly, in any order.
Direct == Unlock \cup {<<4, 0>>, <<4, 1>>, <<4, 2>>, <<1, 66>>, <<8, 1>>}
\* Two of the three colors, and the switch stays on only while the registers are open.
FewModes == dev.color_mode <= 1 /\ (dev.debounce_last => dev.dev_config_lock = Unlocked)

\* Uploads of fonts 2 and 3, which share a sector, as Apple II and IIe files.
Uploads == Unlock \cup {<<2, 2>>, <<2, 131>>, <<2, 255>>, <<3, 1>>, <<3, 130>>}

\* Uploads of a font that is in use.
Reloads == Unlock \cup {<<2, 2>>, <<2, 255>>, <<3, 1>>, <<5, 18>>, <<5, 3>>, <<6, 18>>}

====================================================================
