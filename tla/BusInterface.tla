---------------------------- MODULE BusInterface ----------------------------
(***************************************************************************)
(* What core 1 makes of a bus cycle of the Apple II: businterface.c and the*)
(* bus side of videx_vterm.c.                                              *)
(*                                                                         *)
(* To the fields of DeviceRegs the state `s' adds the shadow memories, the *)
(* recognisers of the ROMX sequence and of the reset, and the Videx card.  *)
(* A bus cycle is <<mode, address, data>>.                                 *)
(***************************************************************************)
EXTENDS PowerUp

CONSTANTS
  VideoRam,    \* the cells of the Videx card's memory that are modelled
  Shadow       \* the addresses whose contents are modelled; the others stay blank

ASSUME ShadowAssumption == Shadow \subseteq 0 .. 24575      \* below MAX_ADDRESS
ASSUME VideoRamAssumption == VideoRam \subseteq 0 .. 2047

Modes == {"WriteDev", "WriteMem", "ReadDev", "ReadMem"}

Blank == 160        \* a space, with which showTitle fills the text page
Drawn == 256        \* a character that the menu has drawn
TextPage  == 1024 .. 2047           \* $0400
HiresPage == 8192 .. 16383          \* $2000

CrtcDefaults == <<123, 80, 98, 41, 27, 8, 24, 25, 0, 8, 192, 8, 0, 0, 0, 0, 0, 0>>

\* What clearTextScreen overwrites: 26 * 40 bytes, 16 more than the page has.
Cleared == 1024 .. 1024 + (26 * 40) - 1

\* The characters - FI MWA of "A2DVI - FIRMWARE" that the detection looks at.
Title == [a \in {1040, 1042, 1043, 1045, 1046, 1047} |->
            CASE a = 1040 -> 173 [] a = 1042 -> 198 [] a = 1043 -> 201
              [] a = 1045 -> 205 [] a = 1046 -> 215 [] a = 1047 -> 193]

\* Boot, with the variables of the bus interface next to the others.
BusPowerOn(flash) ==
  LET others == PowerOn(flash)
      bus ==
        [apple_memory |-> [a \in Shadow |-> IF a \in DOMAIN Title THEN Title[a]
                                            ELSE IF a \in Cleared THEN Blank ELSE 0],
         private_memory |-> [a \in Shadow |-> IF a \in Cleared THEN Blank ELSE 0],
         romx_unlocked |-> 0, romx_textbank |-> 0, reset_state |-> 0,
         videx_vterm_mem_selected |-> FALSE, videx_banknum |-> 0, videx_crtc_idx |-> 0,
         videx_crtc_regs |-> [r \in 0 .. 17 |-> CrtcDefaults[r + 1]],
         videx_vram |-> [v \in VideoRam |-> 0]]
  IN  config_load([f \in DOMAIN others \cup DOMAIN bus |->
                     IF f \in DOMAIN bus THEN bus[f] ELSE others[f]])

-----------------------------------------------------------------------------
(* Machine detection and ROMX.                                             *)

Cell(s, address) ==
  IF address \in Shadow THEN s.apple_memory[address] ELSE Blank

\* The machine whose start screen is on the text page, or none; the tests of
\* the source in their order.
Screens(s) ==
  LET is(a, c) == Cell(s, a) = c
  IN  << <<is(1027, 216) /\ is(1028, 229), MACHINE_IIE_ENH>>,      \* Xe
         <<is(1042, 197) /\ is(1043, 216), MACHINE_II>>,           \* EX
         <<is(1046, 175) /\ is(1047, 229), MACHINE_IIE_ENH>>,      \* /e
         <<is(1043, 229) /\ is(1045, 221), MACHINE_IIE>>,          \* e ]
         <<is(1040, 208), MACHINE_II>>,                            \* P
         <<is(2000, 170) /\ is(2001, 96), MACHINE_II>>,            \* * and cursor
         <<is(1040, 242), MACHINE_PRAVETZ>> >>                     \* r

Recognised(s) ==
  LET matches == {i \in 1 .. 7 : Screens(s)[i][1]}
  IN  IF matches = {} THEN MACHINE_AUTO
      ELSE Screens(s)[CHOOSE i \in matches : \A j \in matches : i <= j][2]

machine_auto_detection(s) ==
  LET machine == Recognised(s)
  IN  IF s.current_machine # MACHINE_AUTO \/ machine = MACHINE_AUTO THEN s
      ELSE set_machine([s EXCEPT !.detected_machine = machine], machine)

\* The page in which a ROMX listens, per machine.
RomxPage(machine) ==
  CASE machine = MACHINE_IIE -> 250 [] machine = MACHINE_II -> 202 [] OTHER -> 256

KeyLow  == 202    \* $CA
KeyHigh == 254    \* $FE

\* Mutants of romx_key: one CA is enough, or a CA that follows a key is not the
\* first one of another.
RomxKeyShort(s, low) ==
  [s EXCEPT !.romx_unlocked =
     CASE low = KeyLow  -> IF @ = 1 THEN 2 ELSE 1
       [] low = KeyHigh -> IF @ > 0 THEN 3 ELSE 0
       [] OTHER         -> IF @ = 3 THEN 3 ELSE 0]

RomxKeyOnce(s, low) ==
  [s EXCEPT !.romx_unlocked =
     CASE low = KeyLow  -> CASE @ = 0 -> 1 [] @ = 1 -> 2 [] OTHER -> 0
       [] low = KeyHigh -> IF @ = 2 THEN 3 ELSE 0
       [] OTHER         -> IF @ = 3 THEN 3 ELSE 0]

\* Three reads, CA CA FE, unlock the selection of a font.
romx_key(s, low) ==
  [s EXCEPT !.romx_unlocked =
     CASE low = KeyLow  -> IF @ = 1 THEN 2 ELSE 1
       [] low = KeyHigh -> IF @ = 2 THEN 3 ELSE 0
       [] OTHER         -> IF @ = 3 THEN 3 ELSE 0]

romx_bank(s, address) ==
  [s EXCEPT !.romx_textbank = FirstCustom + (address % 16)]

\* Mutant of romx_commit: the font selection stays open.
RomxCommitStaysOpen(s) ==
  [s EXCEPT !.cfg_local_charset = s.romx_textbank,
            !.reload_charsets = @ \cup {Local}]

romx_commit(s) ==
  [s EXCEPT !.cfg_local_charset = s.romx_textbank,
            !.reload_charsets = @ \cup {Local},
            !.romx_unlocked = 0]

BankRead(machine, address) ==
  address \div 16 = (IF machine = MACHINE_IIE THEN 3969 ELSE 3325)   \* F81x, CFDx

CommitRead(machine, address) ==
  IF machine = MACHINE_IIE THEN address = 63569                      \* F851
  ELSE address \div 16 = 3326                                        \* CFEx

check_romx_read(s, address) ==
  LET machine == s.current_machine
  IN  CASE machine \notin {MACHINE_II, MACHINE_IIE} -> s
        [] machine \in {MACHINE_II, MACHINE_IIE}
             /\ address \div 256 = RomxPage(machine) -> romx_key(s, address % 256)
        [] OTHER ->
             CASE s.romx_unlocked = 3 /\ BankRead(machine, address) ->
                    romx_bank(s, address)
               [] s.romx_unlocked = 3 /\ CommitRead(machine, address) ->
                    romx_commit(s)
               [] OTHER -> s

-----------------------------------------------------------------------------
(* Soft switches.                                                          *)

Switched(s, on, name) ==
  [s EXCEPT !.soft_switches = IF on THEN @ \cup {name} ELSE @ \ {name}]

\* Pairs of addresses, the even one off and the odd one on: those of the
\* Apple IIe at C000, written to, and those of every Apple II at C050.
IIeSwitches   == <<"80STORE", "AUX_READ", "AUX_WRITE", "CXROM",
                   "AUXZP", "SLOT3ROM", "80COL", "ALTCHAR">>
VideoSwitches == <<"TEXT", "MIX", "PAGE_2", "HIRES">>

\* Mutant of v7_shift: the register shifts at each access.
V7ShiftAlways(s) ==
  [s EXCEPT !.soft_switches =
     (@ \ {"V7_MODE1", "V7_MODE2"})
       \cup (IF "V7_MODE1" \in @ THEN {"V7_MODE2"} ELSE {})
       \cup (IF "80COL" \in @ THEN {"V7_MODE1"} ELSE {})]

\* Off DGR, the two-bit register of the Video7 card takes 80COL in.
v7_shift(s) ==
  IF "DGR" \notin s.soft_switches THEN s
  ELSE [s EXCEPT !.soft_switches =
          (@ \ {"V7_MODE1", "V7_MODE2"})
            \cup (IF "V7_MODE1" \in @ THEN {"V7_MODE2"} ELSE {})
            \cup (IF "80COL" \in @ THEN {"V7_MODE1"} ELSE {})]

apple2_softswitches(s, mode, address, data) ==
  LET n     == address % 128
      iie   == "IIE_REGS" \in s.internal_flags
      write == mode = "WriteMem"
  IN  CASE iie /\ write /\ n < 16 ->
             Switched(s, n % 2 = 1, IIeSwitches[(n \div 2) + 1])
        [] iie /\ write /\ n = 33 -> Switched(s, data >= 128, "MONOCHROME")
        [] iie /\ write /\ n >= 126 -> Switched(s, n = 126, "IOUDIS")
        [] n \in 80 .. 87 ->
             Switched(s, n % 2 = 1, VideoSwitches[((n - 80) \div 2) + 1])
        [] n \in 88 .. 89 /\ ~ iie /\ "VIDEX" \in s.internal_flags ->
             Switched(s, n = 89, "VIDEX_80COL")
        [] n = 94 /\ iie -> Switched(s, TRUE, "DGR")
        [] n = 95 -> IF iie THEN Switched(v7_shift(s), FALSE, "DGR") ELSE v7_shift(s)
        [] OTHER -> s

-----------------------------------------------------------------------------
(* The Videx card.                                                         *)

Bank(address) == (address % 16) \div 4

videx_reg_read(s, address) == [s EXCEPT !.videx_banknum = Bank(address)]

\* Mutant of videx_reg_write: the registers are swapped.
VidexRegWriteSwapped(s, address, data) ==
  LET bank == [s EXCEPT !.videx_banknum = Bank(address)]
  IN  CASE address % 2 = 1 -> [bank EXCEPT !.videx_crtc_idx = data]
        [] address % 2 = 0 /\ s.videx_crtc_idx \in 0 .. 17 ->
             [bank EXCEPT !.videx_crtc_regs[s.videx_crtc_idx] = data]
        [] OTHER -> bank

\* The even registers name a register of the CRTC, the odd ones write to it.
videx_reg_write(s, address, data) ==
  LET bank == [s EXCEPT !.videx_banknum = Bank(address)]
  IN  CASE address % 2 = 0 -> [bank EXCEPT !.videx_crtc_idx = data]
        [] address % 2 = 1 /\ s.videx_crtc_idx \in 0 .. 17 ->
             [bank EXCEPT !.videx_crtc_regs[s.videx_crtc_idx] = data]
        [] OTHER -> bank

Window(s, address) == (s.videx_banknum * 512) + (address % 512)

\* Mutant of videx_c8xx: only writes close the memory.
VidexC8xxWriteCloses(s, mode, address, data) ==
  CASE address >= 52736 ->
         IF mode = "WriteMem" THEN [s EXCEPT !.videx_vterm_mem_selected = FALSE] ELSE s
    [] mode = "WriteMem" /\ address \in 52224 .. 52735
         /\ Window(s, address) \in VideoRam ->
         [s EXCEPT !.videx_vram[Window(s, address)] = data]
    [] OTHER -> s

\* CC00 to CDFF is a window to the memory, any access above closes the card's.
videx_c8xx(s, mode, address, data) ==
  CASE address >= 52736 -> [s EXCEPT !.videx_vterm_mem_selected = FALSE]
    [] mode = "WriteMem" /\ address \in 52224 .. 52735
         /\ Window(s, address) \in VideoRam ->
         [s EXCEPT !.videx_vram[Window(s, address)] = data]
    [] OTHER -> s

\* Memory accesses at C080 to CFFF.
videx_access(s, mode, address, data) ==
  CASE address \in 49328 .. 49343 /\ mode = "WriteMem" ->          \* C0B0
         videx_reg_write(s, address, data)
    [] address \in 49328 .. 49343 /\ mode = "ReadMem" -> videx_reg_read(s, address)
    [] address \in 49920 .. 50175 ->                               \* C300
         [s EXCEPT !.videx_vterm_mem_selected = TRUE]
    [] address >= 51200 /\ s.videx_vterm_mem_selected ->            \* C800
         videx_c8xx(s, mode, address, data)
    [] OTHER -> s

-----------------------------------------------------------------------------
(* A bus cycle.                                                            *)

Store(s, memory, address, data) ==
  IF address \in Shadow THEN [s EXCEPT ![memory][address] = data] ELSE s

\* Mutant of Paged: 80STORE covers the hires page without HIRES, too.
PagedWithoutHires(s, address) ==
  "80STORE" \in s.soft_switches /\ address \in TextPage \cup HiresPage

\* With 80STORE, PAGE2 selects the bank of the pages that are displayed.
Paged(s, address) ==
  /\ "80STORE" \in s.soft_switches
  /\ \/ address \in TextPage
     \/ address \in HiresPage /\ "HIRES" \in s.soft_switches

\* The shadow of a write to memory.  The main memory is left alone while the
\* menu is drawn there, but not if 80STORE is on.
ram_write(s, address, data) ==
  CASE Paged(s, address) ->
         Store(s, IF "PAGE_2" \in s.soft_switches THEN "private_memory"
                  ELSE "apple_memory", address, data)
    [] ~ Paged(s, address) /\ address < 512 -> s
    [] ~ Paged(s, address) /\ address >= 512 /\ "AUX_WRITE" \in s.soft_switches ->
         Store(s, "private_memory", address, data)
    [] ~ Paged(s, address) /\ address >= 512 /\ "AUX_WRITE" \notin s.soft_switches ->
         IF "MENU_ENABLE" \in s.internal_flags THEN s
         ELSE LET stored == Store(s, "apple_memory", address, data)
              IN  IF address < 2048 THEN machine_auto_detection(stored) ELSE stored

\* The register write makes the menu draw a screen from scratch.
DrawsScreen(s, reg, data, after) ==
  \/ after.screen # s.screen
  \/ /\ reg = 9 /\ s.dev_config_lock = Unlocked
     /\ "MENU_ENABLE" \in after.internal_flags
     /\ data = KeyOpen \/ Increases(s, Upper(data)) \/ Decreases(s, Upper(data))

\* A new screen covers the text page.
registers(s, reg, data) ==
  LET after == device_write(s, reg, data)
  IN  IF ~ DrawsScreen(s, reg, data, after) THEN after
      ELSE [after EXCEPT
              !.apple_memory = [a \in Shadow |->
                                  IF a \in Cleared THEN Drawn ELSE @[a]],
              !.private_memory = [a \in Shadow |->
                                    IF a \in Cleared THEN Blank ELSE @[a]]]

register_access(s, mode, address, data) ==
  CASE address < 49280 -> apple2_softswitches(s, mode, address, data)   \* below C080
    [] address >= 49280 /\ mode = "WriteDev" ->
         registers(s, address % 16, data)
    [] address >= 49280 /\ mode \in {"WriteMem", "ReadMem"}
         /\ "VIDEX" \in s.internal_flags /\ "IIE_REGS" \notin s.internal_flags ->
         videx_access(s, mode, address, data)
    [] OTHER -> s

apple2emulation(s, mode, address, data) ==
  LET seen == IF mode = "ReadMem" THEN check_romx_read(s, address) ELSE s
  IN  CASE mode = "WriteMem" /\ address < 24576 -> ram_write(s, address, data)
        [] address \in 49152 .. 53247 ->                              \* C000
             register_access(seen, mode, address, data)
        [] OTHER -> seen

\* A mutant of Reset: the registers stay open.
ResetKeepsLock(s) ==
  [Flag(s, FALSE, "MENU_ENABLE") EXCEPT
     !.soft_switches = {"TEXT", "V7_MODE1", "V7_MODE2"},
     !.romx_unlocked = 0, !.reset_state = 0]

\* Reads of FFFC, FFFD and FA62, one after the other, are a reset.
Reset(s) ==
  [Flag(s, FALSE, "MENU_ENABLE") EXCEPT
     !.soft_switches = {"TEXT", "V7_MODE1", "V7_MODE2"},
     !.romx_unlocked = 0, !.dev_config_lock = Locked, !.reset_state = 0]

\* Mutant of reset_detection: writes in between do not matter.
ResetDetectionIgnoresWrites(s, mode, address) ==
  CASE mode # "ReadMem" -> s
    [] mode = "ReadMem" /\ s.reset_state = 0 /\ address = 65532 ->
         [s EXCEPT !.reset_state = 1]
    [] mode = "ReadMem" /\ s.reset_state = 1 /\ address = 65533 ->
         [s EXCEPT !.reset_state = 2]
    [] mode = "ReadMem" /\ s.reset_state = 2 /\ address = 64098 -> Reset(s)
    [] OTHER -> [s EXCEPT !.reset_state = 0]

reset_detection(s, mode, address) ==
  CASE mode = "ReadMem" /\ s.reset_state = 0 /\ address = 65532 ->
         [s EXCEPT !.reset_state = 1]
    [] mode = "ReadMem" /\ s.reset_state = 1 /\ address = 65533 ->
         [s EXCEPT !.reset_state = 2]
    [] mode = "ReadMem" /\ s.reset_state = 2 /\ address = 64098 -> Reset(s)
    [] OTHER -> [s EXCEPT !.reset_state = 0]

businterface(s, mode, address, data) ==
  reset_detection(apple2emulation(s, mode, address, data), mode, address)
=============================================================================
