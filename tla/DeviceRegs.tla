----------------------------- MODULE DeviceRegs -----------------------------
(***************************************************************************)
(* The registers that the card offers to the Apple II: device_regs.c.      *)
(***************************************************************************)
EXTENDS Menu

\* data & mask, of which one bit is set.
Bit(data, mask) == (data \div mask) % 2 = 1

reverse_7bits(data) ==
  LET moved(from, to) == IF Bit(data, from) THEN to ELSE 0
  IN  moved(1, 64) + moved(2, 32) + moved(4, 16) + moved(8, 8) + moved(16, 4)
        + moved(32, 2) + moved(64, 1)

\* A byte of a font file: an Apple II file is bit-reversed, an Apple IIe file
\* is inverted ((data & 0x7F) ^ 0x7F).
FontByte(type, data) ==
  IF type = 0 THEN reverse_7bits(data) ELSE 127 - (data % 128)

Locked   == 0
Unlocked == 2

\* Register 15: the lock opens on 11, 22; any other value closes it.
lock(s, data) ==
  [s EXCEPT !.dev_config_lock =
     CASE data = 11 -> 1
       [] data = 22 -> IF @ = 1 THEN Unlocked ELSE @
       [] OTHER -> Locked]

\* A pair of bits, one of which sets a flag and the other of which clears it.
SetOrClear(s, data, set, clear, flag) ==
  LET on == IF Bit(data, set) THEN Flag(s, TRUE, flag) ELSE s
  IN  IF Bit(data, clear) THEN Flag(on, FALSE, flag) ELSE on

color_reg(s, data) ==
  LET color == IF data % 4 # 0 THEN [s EXCEPT !.color_mode = (data % 4) - 1] ELSE s
  IN  SetOrClear(color, data, 64, 128, "FORCED_MONO")

\* Mutant of font_select: the bytes of an abandoned upload still count.
FontSelectKeepsCount(s, data) ==
  [s EXCEPT !.custom_rom_write_offset = CHARACTER_ROM_SIZE * (data % 2),
            !.custom_rom_font_nr = data % 32,
            !.custom_rom_write_count = IF @ > CHARACTER_ROM_SIZE THEN 0 ELSE @,
            !.custom_rom_font_type = data \div 128,
            !.custom_font_buffer =
               [h \in {0, 1} |-> s.flash.fonts[2 * ((data % 32) \div 2) + h]]]

\* Register 2: select a font to upload, or (255) write it to flash.
font_select(s, data) ==
  LET slot == data % 32
      even == 2 * (slot \div 2)
  IN  [s EXCEPT !.custom_rom_write_offset = CHARACTER_ROM_SIZE * (data % 2),
                !.custom_rom_font_nr = slot,
                !.custom_rom_write_count = 0,
                !.custom_rom_font_type = data \div 128,
                !.custom_font_buffer = [h \in {0, 1} |-> s.flash.fonts[even + h]]]

\* Mutants of font_commit: the alternate character set is not loaded again, the
\* directory is written too early, or it is erased before the font is safe.
FontCommitReloadsLocal(s) ==
  IF s.custom_rom_write_count # CHARACTER_ROM_SIZE THEN s
  ELSE LET written == font_write(s, s.custom_rom_font_nr, s.custom_font_buffer)
           valid   == [written EXCEPT !.invalid_fonts = @ \ {s.custom_rom_font_nr}]
       IN  [config_font_update(valid) EXCEPT !.reload_charsets = @ \cup {Local}]

FontCommitEarlyDirectory(s) ==
  IF s.custom_rom_write_count # CHARACTER_ROM_SIZE THEN s
  ELSE LET written == font_write(s, s.custom_rom_font_nr, s.custom_font_buffer)
       IN  [config_font_update(written) EXCEPT
              !.invalid_fonts = @ \ {s.custom_rom_font_nr}]

FontCommitErasesDirectory(s) ==
  IF s.custom_rom_write_count # CHARACTER_ROM_SIZE THEN s
  ELSE LET first   == Flashed(s, [s.flash EXCEPT !.fontdir = Erased])
           written == font_write(first, s.custom_rom_font_nr, s.custom_font_buffer)
       IN  config_font_update([written EXCEPT
                                 !.invalid_fonts = @ \ {s.custom_rom_font_nr}])

\* Only a font of which exactly all bytes came is written.
font_commit(s) ==
  IF s.custom_rom_write_count # CHARACTER_ROM_SIZE THEN s
  ELSE LET slot    == s.custom_rom_font_nr
           written == font_write(s, slot, s.custom_font_buffer)
           valid   == [written EXCEPT !.invalid_fonts = @ \ {slot}]
       IN  [menuShowFrame(config_font_update(valid), "saved") EXCEPT
              !.reload_charsets = @ \cup {Local, Alternate}]

font_reg(s, data) ==
  CASE data = 255 -> font_commit(s)
    [] data # 255 /\ data % 128 < 32 -> font_select(s, data)
    [] OTHER -> s

\* Register 3: the next byte; one too many spoils the upload.
font_data(s, data) ==
  IF s.custom_rom_write_count < CHARACTER_ROM_SIZE
  THEN LET at == s.custom_rom_write_offset
       IN  [s EXCEPT
              !.custom_font_buffer[at \div CHARACTER_ROM_SIZE]
                                  [(at % CHARACTER_ROM_SIZE) + 1] =
                 FontByte(s.custom_rom_font_type, data),
              !.custom_rom_write_offset = @ + 1,
              !.custom_rom_write_count = @ + 1]
  ELSE [s EXCEPT !.custom_rom_write_count = CHARACTER_ROM_SIZE + 1]

device_command(s, cmd) ==
  CASE cmd = 0 -> config_load_defaults(s)
    [] cmd = 1 -> config_load(s)
    [] cmd = 2 -> config_save(s)
    [] cmd \in 16 .. 16 + MAX_FONT_COUNT ->
         [s EXCEPT !.cfg_local_charset = cmd - 16,
                   !.reload_charsets = @ \cup {Local}]
    [] OTHER -> s

charset_reg(s, data, field, bit) ==
  IF data < MAX_FONT_COUNT
  THEN [s EXCEPT ![field] = data, !.reload_charsets = @ \cup {bit}] ELSE s

machine_reg(s, data) ==
  IF data < MACHINE_MAX_CFG THEN [s EXCEPT !.cfg_machine = data] ELSE s

\* Register 9: keys for the menu, which 0 switches on.
menu_reg(s, data) ==
  LET on == IF data = 0 THEN Flag(s, TRUE, "MENU_ENABLE") ELSE s
  IN  IF "MENU_ENABLE" \in on.internal_flags THEN menuShow(on, data) ELSE on

device_write(s, reg, data) ==
  LET u == IF reg = 15 THEN lock(s, data) ELSE s
  IN  IF u.dev_config_lock # Unlocked THEN u
      ELSE CASE reg = 0 -> SetOrClear(u, data, 1, 2, "SCANLINEEMU")
             [] reg = 1 -> color_reg(u, data)
             [] reg = 2 -> font_reg(u, data)
             [] reg = 3 -> font_data(u, data)
             [] reg = 4 -> device_command(u, data)
             [] reg = 5 -> charset_reg(u, data, "cfg_local_charset", Local)
             [] reg = 6 -> charset_reg(u, data, "cfg_alt_charset", Alternate)
             [] reg = 7 -> SetOrClear(u, data, 1, 2, "VIDEO7")
             [] reg = 8 -> machine_reg(u, data)
             [] reg = 9 -> menu_reg(u, data)
             [] OTHER -> u
=============================================================================
