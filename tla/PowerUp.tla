------------------------------ MODULE PowerUp ------------------------------
(***************************************************************************)
(* The state in which the firmware starts: the initial values of its       *)
(* global variables, and the configuration that main loads.                *)
(***************************************************************************)
EXTENDS DeviceRegs

FreshFlash == [config |-> Erased, fontdir |-> Erased,
               fonts |-> [x \in Slots |-> NoBytes]]

\* The variables as they are initialised.
PowerOn(flash) ==
  [detected_machine |-> MACHINE_AUTO, cfg_machine |-> MACHINE_AUTO,
   current_machine |-> MACHINE_AUTO, done |-> FALSE,
   language_switch |-> FALSE, unenhance_font |-> FALSE,
   reload_charsets |-> {Videx},
   cfg_videx_selection |-> 0, cfg_local_charset |-> 0, cfg_alt_charset |-> 0,
   invalid_fonts |-> Slots,
   color_mode |-> 1, rendering_fx |-> FX_ENABLED,
   input_switch_mode |-> ModeSwitchCycleVideo,
   internal_flags |-> {"INTERP_DGR", "INTERP_DHGR"},
   soft_switches |-> {"TEXT", "V7_MODE1", "V7_MODE2"},
   character_rom |-> [x \in {Local, Alternate} |->
                        [glyphs |-> [font |-> MAX_FONT_COUNT, bytes |-> << >>],
                         unenhanced |-> FALSE]],
   character_rom_videx |-> 0,
   CurrentMenu |-> 0, IgnoreNextKeypress |-> FALSE, MenuNeedsRedraw |-> FALSE,
   screen |-> [page |-> "title", shown |-> << >>],
   custom_rom_font_nr |-> 0, custom_rom_font_type |-> 0,
   custom_rom_write_offset |-> 0,
   custom_rom_write_count |-> CHARACTER_ROM_SIZE + 1,
   custom_font_buffer |-> [h \in {0, 1} |-> [i \in 1 .. CHARACTER_ROM_SIZE |-> 0]],
   dev_config_lock |-> Locked, debounce_last |-> FALSE,
   flash |-> flash, trail |-> << >>]

Boot(flash) == config_load(PowerOn(flash))
=============================================================================
