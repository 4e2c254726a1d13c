# A2DVI firmware: specifications, model checking and proofs

The A2DVI card sits in a slot of an Apple II, watches its bus, keeps a shadow of
the Apple's display memory and switches, and outputs the picture as DVI. This
directory models the firmware in TLA+. TLC checks small instances, TLAPS proves
theorems for every instance. `PROJECT.json` lists components, runs, mutants,
the source lines behind each definition, hazards and theorems.

    tlc -workers 2 -config MCPacedScanout.cfg MCPacedScanout   # a run
    tlapm DviScanoutProofs.tla                                 # proofs

## 1. The system

Two cores share memory without locks.

    Apple II bus -> PIO state machine -> FIFO (4 cycles)
        -> core 1: abus_loop -> businterface -> shadow memory, soft_switches,
                   internal_flags, settings, flash, menu (drawn on the text page)
        -> core 0: render_loop -> renderer of the mode -> TMDS buffers
                -> DMA interrupt (core 0) -> DVI serialiser

| Component | State | Operations | Interacts with |
|---|---|---|---|
| DVI scanout, `libdvi/dvi.c`, `dvi_timing.c` | two queues of TMDS buffers, two release slots, late counter, vertical timing, loaded DMA lists | the DMA interrupt, once per output line | renderer, through the queues |
| Renderers, `render/*.c`, `videx_vterm.c` | place in the frame, held buffers | take a buffer, draw, send it | reads shadow memory and switches; scanout |
| Toggle switch, `render.c` | debouncing, last state | language, monochrome, cycle through the modes | settings, menu (from core 0) |
| Configuration, `config.c` | settings, derived flags, character ROMs, three kinds of flash sector | defaults, load, save, set machine, load character sets, font directory | everything |
| Device registers, `device_regs.c` | lock, upload buffer and counters | sixteen registers, commands, font upload | configuration, menu |
| Menu, `menu.c` | entry, ignore and redraw flags, the text page | keys from register 9, redraw | configuration, soft switches |
| Bus interface, `businterface.c` | shadow memories, soft switches, recognisers of ROMX and reset | one handler per bus cycle | all state of core 1 |
| Videx, `videx_vterm.c` | window, bank, CRTC registers, memory | registers, window, drawing | bus interface, render loop |
| Bus capture, `abus.c`, `abus.pio` | FIFO, counters | push, read, wipe | bus interface, menu |
| Boot, `main.c`, `dmacopy.c` | code copied late | load settings, start core 1, copy, render | all |

What is hard here, and so what the properties are about:

* an interrupt and a renderer that share a ring of buffers with hardware that
  still reads a buffer after it was selected for the last time;
* settings that are set from five sides (menu keys, registers, commands, bus
  detection, switch on the other core), with flags and fonts derived from them;
* flash that is erased and programmed in two steps, two fonts to a sector;
* recognisers with two or three states that must find sequences in all the
  traffic of a 6502;
* request bits, flags and a FIFO that two cores change without a lock;
* renderers that copy the soft switches for a frame and then read them again;
* shift registers of 32 bits through which bytes of 7 or 14 dots become pixels.

Each hazard is listed at its line in `PROJECT.json`, with the properties that
cover it, or the reason why none does yet.

## 2. Modules

### Scanout

* `DviScanout`: the ring. Each queue operation of the renderer is an action
  (`GetLine`, `GetCell`, `SendLine`, `SendCell`), as the interrupt may come between
  any two of them; the handler is one action with four cases (`IrqBlank`,
  `IrqPeek`, `IrqTake`, `IrqMissing`) and the common part `IrqPrologue`. The four kinds of
  screen differ in the order in which buffers are held and sent: LORES and double
  LORES hold two buffers for a row. A scanline is the number of its row; the
  pixels are left out. `dma_list` is what the control blocks just loaded will send,
  `dma_sending` what the hardware is sending.
* `PacedScanout`: the ring with the speed of the renderer, for recovery. `PacedInvariant`: its
  inductive invariant, an account of the lateness in output lines.
* `LineStream`: what the monitor sees: rows in order, each its own scanline or
  blank, depending on how far the renderer is ahead. `DviRefinement` maps the ring to
  it: the beam is the line being prepared, the lead is what is queued minus what is
  late.
* `DviInvariant`: the inductive invariant of the ring. `DviScanoutProofs` and
  `DviStreamProofs`: the theorems.

### Render loop and renderers

* `RenderLoop`: core 0, frame after frame. Each read of the volatile `soft_switches` is a step
  of its own, as core 1 changes it in between: `Frame` takes the copy, the others read
  it again for the page of a row, the columns of a text row, the modes of a Video7 card.
  The two bytes of the text base of a Videx card are read in two steps. Once per frame
  come the character sets and the switch with its debouncing (`ToggleSwitch`). The character sets
  take several steps, with core 1 in between: is one requested (`LoadFonts`), the test and copy of each
  of the three (`CopyFonts`), and the clearing of all bits (`ClearRequests`). `outdated` and `overtaken` are
  history variables: the sets whose selection is not yet in memory, and those last requested after
  their test. `config_load_charsets` copies the selection at the time of the copy, so one bit per set is enough.
* `AppleFrames`: what the Apple itself shows on each row (`ApplePicture`), written from the
  switches alone, and the properties that compare the two.
  `FrameInvariant`, `FrameProofs`: its invariant and theorems.
* `ScanlineRenderers`: how each of sixteen renderers turns the bytes of a row into the words of a
  scanline: text, LORES, double LORES plain and interpolating, HIRES and double HIRES
  in colors, black and white and interpolating, and the Video7 modes. The model executes the
  inner loops: load a byte, shift, take a word. A dot is the set of memory bits that
  reach it, so one behaviour stands for all contents of memory; the bytes with bit 7 set,
  which shift dots, are chosen from `HighBits`.
* `AppleScanlines`: where the Apple has each bit on the screen, by its own definition of rows,
  columns and dots, and the properties. `ScanlineProofs`: the theorems.

### Settings

* `Config`: the settings as a record `s`, and each function of config.c as an
  operator on it. A flash operation appends the flash it leaves to `s.trail`, so
  that a crash can choose any of these moments. A stored record has one of three
  sizes, those of the firmware versions.
* `Menu`, `DeviceRegs`, `ToggleSwitch`: menu.c, device_regs.c and the action of the
  switch in render.c, as operators on the same record. The text page is modelled as
  the page that was drawn and the values that were printed on it.
* `PowerUp`: the initial values of the variables, and main's `config_load`.
* `Settings`: the actions: register writes, detection, ROMX and reset (core 1), the
  loading of character sets in its four steps and the switch (core 0), and the
  power, which also goes in the middle of a write. `Spec` interleaves the two
  cores at these steps. `QuietSpec` loads the character sets in one step, while core 1
  is idle, for runs whose question is another one. In `PatientSpec` the program leaves the
  registers to the menu while it is open, as the configuration utility does. `SettingsProofs`: the theorems.

### Bus

* `TwoCores`: the capture of the bus and what the cores share without a lock: the PIO with
  its FIFO, which stalls when it is full and loses the cycle after; core 1, which
  checks the level, waits, reads and handles; `internal_flags`, loaded and stored in two
  steps by both; the menu, drawn by both, which ends with a wipe of the FIFO whose
  test and reads are steps, too. `TwoCoresProofs`: its invariant and theorems.
* `BusInterface`: what one bus cycle does, from `businterface` down: shadow memory,
  soft switches, machine detection, ROMX, Videx, registers, reset.
* `BusCycles`: one cycle after the other. `DisplayMemory` is the abstract
  specification that it implements: two banks and where a write goes.
* `BusHistory`: `BusCycles` with a history variable, the log of the bus. The
  firmware remembers a few bits; the log remembers everything, and the properties
  say what the bits must mean in terms of it. `BusProofs` (what each handler leaves alone,
  what a whole cycle does, the refinement) and `HistoryProofs`: the theorems.

`MC...` modules give the constants for TLC. `MCMenuSessions`, `MCRegisterSessions` and
`MCBusHistory` choose one of several programs in the initial state, `MCFrames` what changes
in a behaviour, so that one run answers for all of them. Next to a definition that a property
guards stands a mutant, an operator of the same parameters with a plausible mistake;
the property fails when the mutant replaces the definition.

## 3. Runs

| Run | Module, cfg | Shows |
|---|---|---|
| scanout | MCPacedScanout | every interleaving of renderer and interrupt: no buffer lost, torn (`NoTearing`), or in a wrong row (`InItsRow`), frames are full, a row that began with its scanline ends with it and one that ends without is counted late (`ShownOrLate`), the panic is unreachable; a renderer that was five rows late and keeps the pace shows every row from the third picture on, and for good (`Recovered`) |
| refinement | MCDviRefinement | the ring implements `LineStream`, with liveness; frame after frame is finished |
| frames | MCFrames | rows show what the Apple shows although the switches are read again and again (`RowAgrees`); the toggle switch acts once, however it bounces, and is followed; a font that was selected or uploaded reaches the screen, unless its request came between the test of its bit and the clearing of all (`ReloadServed`) |
| scanlines | MCScanlines | each renderer shows each bit where the Apple has it (`DotsInPlace`), its register of 32 bits suffices (`RegisterFits`), each channel is filled to its last word and no further (`LineExact`), the two renderers of double LORES agree |
| two_cores | MCTwoCores | every lost cycle is noticed (`LossNoticed`), the menu never adds to the overflow counter (`StatisticsClean`), core 0 always returns to its frames (`FramesGoOn`) |
| menu | MCMenuSessions, MCMenu | five sessions: the machine, defaults, load and save with detection, reset and power; the effects and Videx; the switch while the menu is open; the hidden entry; fonts changed while in use. Settings and what derives from them agree, the menu shows the truth, what was saved comes back |
| registers | MCRegisterSessions, MCRegisters | two fonts of one sector, all ways to go wrong, power loss after each flash operation; programs that use registers and commands in any order, both cores interleaved, the switch used, torn saves |
| shadow_memory | MCShadowMemory | the shadow memories implement `DisplayMemory` |
| recognisers | MCBusHistory | six programs: the reset and the register lock see exactly their sequences; the font selection of the ROMX opens on its key only, once, and takes the last bank, on an Apple II and on an Apple IIe, and a reset closes it; the Video7 mode is the last two bits shifted in; writes reach the Videx card's memory and registers as selected |

Three more runs find a violation, see section 4.

### Bounds

* Scanout: 5 buffers of 8 (4 in the refinement), 2 text rows of 24, cells of 2
  scanlines of 4, and `MaxLate` 5 (2 in the refinement). The ring needs three buffers (one drawn, one shown, one
  released); 5 leave room for both queues to be empty, partly filled and as full as
  they get. A row, the first and last rows, both cells of a block, each part of the
  frame and each of the four screens occur. Lines late by more than `MaxLate` are not
  considered; the theorems hold for every `MaxLate`. `RecoveryAssumption` is as weak as it can be on
  these instances: TLC refutes `Recovered` with four buffers, with a renderer that needs three lines,
  and with one more late row than `2 * MaxLate + Border + 1 < RecoveryFrames * BlankLines` allows
  (7 blank lines: 5 rows in two pictures, 1 in one; 8 blank lines: 6 in two; 9: 2 in one).
* Frames: two rows above one row of text, two lines to a hires row, the real threshold of
  seven samples. Of the switches `MaxChanged` = 2 change while a frame is drawn, any
  number between frames. `Changes` has six scenes, each with the switches that can
  act together; requests for fonts are one of them, with the text and Videx switches. The text base of the Videx takes values that wrap and one that is no
  multiple of four. Whether the card is a Video7 is fixed for a behaviour. The
  theorems have no such bounds.
* Scanlines: whole lines of 40 columns; rows of each third of the screen, its first and
  last lines; four patterns of bit 7 per bank. Each column, and each phase of a register
  against its words, occurs.
* Two cores: the real FIFO of four. `Backlog` = 3 is how far an ordinary handler may fall behind;
  with it the code's own premise, that core 1 keeps up, is part of the model (`Paced`).
  `MaxOverflow` = 1 tells whether the counter moved.
* Settings: a run allows the few register values its question needs (named sets in
  `MCSettings`); the sequences are unbounded. The runs `menu` and `registers` start in one of
  their sessions and stay in it, so that unrelated settings are not multiplied with each
  other. Fonts have two bytes, the least with which an upload can be short, exact and
  long and a boundary of two fonts be crossed. `Considered` (with `FewValues` and
  `FewFonts`) keeps a session to its subject: only the first changes the machine, and
  the cursor stays among a few settings. `FewModes` does the same for the registers:
  two of three colors, and the switch on only while the registers are open. The view
  `Seen` leaves out what the screen showed while the menu is closed: key 0 draws
  everything anew.
* Bus: `MaxLog` = 6 cycles, out of 5 to 7 different ones for each of the `Programs`: each
  sequence that is recognised has three cycles, so that one can follow another, be cut
  off or be completed in the wrong order. `shadow_memory` has no such bound.

These systems never stop; deadlock is checked, but for the bus runs with a log,
which end at `MaxLog`.

### Fairness

* `refinement` (`FairSpec`): weak fairness of the interrupt, which the video clock drives, and
  of the renderer's steps, as render_loop never waits for anything but a queue.
* `frames`: weak fairness of core 0's loop only. Nothing is assumed of the program, the
  switch or core 1.
* `two_cores` (`FairSpec`): weak fairness of the bus, whose clock never stops, and of both
  cores. `WipeWait` of core 0 has strong fairness: both cores may poll the level for the same
  entry, and core 1 may win each time; the poll and the bus have no common clock, so
  that core 0 does not lose for ever.

## 4. Disagreements

These runs each find one property violated that a document, a comment or the
code itself states. `findings` in `PROJECT.json` quotes the lines.

| Run | What happens |
|---|---|
| torn_upload | a power loss while a font is replaced leaves it valid and erased |
| lost_reload | a reload requested while core 0 is loading is lost |
| closed_menu | the ESC that closes the menu is wiped, or its flag stored back, when core 0 redraws the menu for the switch at that moment |

The models also show the following, which no run of its own checks. In config and the registers:

* `config.c:320`: command 0 on a detected Apple IIe leaves the enhanced character set on;
  command 1 calls `set_machine(MACHINE_AUTO)` and forgets the detected
  machine. Restoring with command 0 is what the menu does, followed by a repair; the run
  `menu` shows that the menu's order of calls is right.
* `config.c:203`: after a fixed machine was chosen once, the static `done` keeps the font
  from following a machine that is detected later.
* `config.c:353`: `config_load` asks for the bits 3 only, so that loading does not
  load the Videx character set.
* `device_regs.c:190`: register 8 refuses `MACHINE_PRAVETZ`, the maximum itself.
* `device_regs.c:235`: command 0x30 selects character set 32, one too many. `check_valid_font` (config.c:241)
  tests the bit of slot 16 for it and, unless a font was uploaded there, takes the first custom font,
  programmed or not. No run writes this command.
* `menu.c:280`: `menuShowFrame` does not clear `SOFTSW_VIDEX_80COL`: a menu opened
  while the Videx card is on is not displayed.

On the bus:

* `businterface.c:87`: the third `CA` in a row starts the recognition of the ROMX key
  again, so that `CA CA CA FE` does not open the font selection.
* `businterface.c:141`: a commit that no bank preceded selects the initial
  `romx_textbank`, the built-in font 0.
* `businterface.c:147`: the machine detected for a ROMXe has no ROMX support: its key is
  ignored.
* `abus.c:43`: `pio_sm_get_blocking` tests the level and then reads; when the other
  core takes the last entry in between, an undefined word is read (`Get`).
* `menu.c:874`: a wipe by core 0 may take cycles that the program means for core 1, which the comment
  of menu.c:865 considers for core 1 only.

In the scanout, the render loop and the renderers:

* `dvi.c:228`: a scanline that comes between the two lines of its row is shown on the second only. The row
  is half blank, and not counted as late. `ShownOrLate` allows it.
* `render.c:187`: the language switch does not take effect when its mode is selected in the menu, in place
  of another one, after the switch has settled; it does when it moves next. `SwitchFollows` says "unless
  its mode was selected after that", and fails without.
* `render.c:240`: turning the switch on in a cycling mode while it is held cycles without a press.
* `render.c:266`: the copy makes the kind of a frame consistent, not its pages and columns,
  which are read again row by row: a frame may show the top of one page and the bottom
  of the other. Each row is right by itself.
* `render_dhgr.c:112`: the mode of a Video7 card is tested up to three times for a row, and its color
  text before the page is read: a row may be drawn in a mode that no setting has.
  `RowAgrees` excepts the card while its mode changes.
* `render_text.c:277`: color text of a Video7 card never loads a requested character set.
* `render_hires.c:58`: in monochrome `lastmsb` is always 0, so that the first dot of a shifted byte is
  that of its own.
* `render_dgr.c:116`, `render_dhgr.c:89`: the interpolating renderer of double LORES looks up to four dots ahead, that of
  double HIRES behind.
* `videx_vterm.c:208`: the offset is masked before four characters are taken: from a base that is no
  multiple of four up to three bytes come from behind the 2 KB. The card's own firmware
  scrolls by multiples of 16.
* `render_debug.c`: the labels of the mixed mode are swapped.

## 5. Proofs

| Module | Theorem | States |
|---|---|---|
| DviScanoutProofs | `InductiveInvariant` | `Spec => []Inductive` |
| | `TypeCorrect` | types, timing and the renderer's place in the frame |
| | `FreeQueueNeverFull` | the panic in the interrupt and its blocking add are unreachable |
| | `NeverTears` | the renderer neither holds nor is offered a buffer that the DMA sends or is about to send |
| | `FramesAreFull` | every frame has as many scanlines as the screen has rows |
| DviStreamProofs | `RowsInPlace` | a scanline is shown in its own row or not at all |
| | `RowsEnd` | a row ends with its scanline, the one of its first line if that was not blank, or blank and counted late |
| | `RingImplementsStream` | the ring implements `LineStream` (safety) |
| | `PacedInductiveInvariant` | `PacedSpec => []PacedInductive` |
| | `LatenessEnds` | a renderer that keeps the pace catches up, and stays in time (`Recovered`) |
| | `PaceOnlyRestricts` | `PacedSpec => Spec`: all of the above holds of the ring with speeds |
| | `NeverBothWait` | renderer and interrupt never wait for each other |
| TwoCoresProofs | `LossIsNoticed` | a lost bus cycle is seen by core 1, or the FIFO was wiped |
| | `StatisticsStayClean` | only slow commands count as overflows |
| FrameProofs | `RowsAgree` | each row shows what one setting of the switches shows |
| | `SwitchActs` | the switch acts once, after it was steady |
| | `NoFontForgotten` | a font not yet in memory is requested, or its request overtook the load (`RequestsStand`) |
| HistoryProofs | `LocksAlwaysHold` | registers and font selection open by their keys only |
| | `ResetAlwaysExact` | a reset is seen exactly when the vector and the monitor were fetched in a row |
| | `RomxAlwaysOpens` | the key of the ROMX opens the font selection, unless it follows another `CA` |
| | `RomxFontExact` | one key, at most one commit, and the font of the bank read last |
| | `Video7AlwaysShifted` | the mode is 80COL at the last two times that the double resolution was switched off |
| | `VidexAlwaysWindowed` | the card's memory is written through its window and bank only; its registers hold what was written |
| BusProofs | `ShadowIsDisplayMemory` | the shadow memories implement `DisplayMemory` |
| SettingsProofs | `SettingsTyped` | ranges of the settings, the upload and the flash |
| | `MachineAlwaysInEffect` | the machine in effect is the chosen or the detected one |
| | `FlagsAlwaysFollow` | the flags follow the settings that they derive from |
| | `RomAlwaysFresh` | the character sets in memory are the selected ones, or about to be loaded |
| | `PowerOnReturns` | what was saved comes back |
| | `TornSavesSafe` | a torn save leads to whole settings |
| | `OneSectorOnly` | a power loss spoils one sector |
| | `DirectoryAlwaysAgrees` | the font directory in flash is the one in memory |
| | `UploadsExact` | a font is written as the bytes that were sent for it |
| | `EscapeAlwaysLeaves` | ESC leaves the menu |
| | `MenuAlwaysTruthful` | the menu on the screen shows the settings, and selects no hidden entry |
| | `KeysActOnMenu` | a key changes a setting only while the menu is on the screen |
| ScanlineProofs | `RegisterAlwaysFits` | the shift registers suffice |
| | `LinesAlwaysExact` | each channel is filled to its last word and no further |
| | `DotsAlwaysInPlace` | every word shows the bits of memory that the Apple has there |
| | `DgrColorsAlwaysAgree` | within a cell both renderers of double LORES show one color |

**Scanout**, for every number of buffers, every geometry and every bound on lateness
(`BufferAssumption`, `GeometryAssumption`): at least three buffers, not more than a queue
holds; a Videx screen is as high as the others; the border is even. The last
matters: a scanline is taken on odd lines. `FreeQueueHasRoom` does not follow from its own
truth a step earlier: one has to know how many buffers are where. `CountInv` says they
add up over the queues, the release slots and what the renderer holds; `DistinctInv` that
none is in two places; `RendererInv` how many the renderer holds at each point of each
kind of screen; `LineInv` that its place determines the scanline; `PipelineInv` that
what the DMA sends is the head of the queue on the first line of a row and in a release
slot on the second. `Inductive` is their conjunction with `TypeOK`. Each action has a
lemma that preserves it. `NeverTears` follows from `DistinctInv` and `PipelineInv`;
`FramesAreFull` from `LineInv`.

`RowsInPlace` needs more: that the picture is in its place now depends on all frames
before. `SequenceInv` says that the scanlines in the queue follow one another modulo a frame,
and that the first of them is the number of rows that have passed minus those that were late. An
interrupt that skips late scanlines subtracts the same on both sides; one that misses
a row adds one to both. When none is late the head of the queue is congruent to the row, and as
both are rows of one frame it is that row. With it each step of the ring is a step
of `LineStream` or a stutter; `BlankAssumption` says that a blank line is no scanline.

`LatenessEnds` says that lateness does not last. Its argument is an account in output lines: `Ahead` is twice the
number of queued scanlines minus twice the late rows, plus the lines for which the renderer has been
at work on the next one, minus the first line of a row, which still shows the head of the queue. Sending never
lowers it (a scanline is worth two lines, and `Pace <= 2`); an interrupt on a line of the picture keeps it
(`IrqGains`); one on a blank line adds one. A renderer without a buffer does nothing, but then at least two
scanlines are queued, as at most two are held and one is on its way back from the DMA: this is where five buffers are
needed. So `CatchesUp` holds: since the first picture that ended after the renderer became calm, either `Ahead` has reached
two, and never falls below again (`AheadForGood`), or it is more than the blank lines since then minus twice `MaxLate`.
`RecoveryAssumption` makes the second impossible after `RecoveryFrames` pictures, and with
`Ahead >= 2` at a row its scanline is there. In the firmware a frame has 77 blank lines; after a whole
missed picture of 224 rows, `2 * 224 + 17 < 7 * 77`, seven pictures suffice, a ninth of a second.
`PaceAssumption` and the guard of `PacedIrq` (an interrupt of a calm renderer comes at most `Pace` times between two
sends) are the premise about the hardware that the source states nowhere and depends on.
`NeverBothWait` needs no speeds: `CountInv` leaves room in the queue for what is rendered, and a buffer on its
way back while the renderer waits. It is what `FramesFinish` needs besides fairness.

**Two cores**, for every depth of the FIFO and every backlog below it: `LossInv` says that a
stalled PIO has a full FIFO behind it, and that an unnoticed loss keeps the FIFO full, as
the stalled cycle fills the place that a read makes; `RoomInv` that a core 1 that keeps up
leaves room, and that without a slow command it falls behind only in the menu, which it
leaves with a wiped FIFO.

**Frames**, for every number of rows, lines and changes, every threshold and all values of the text base: a
row is drawn after several reads, at different times. `ReadInv` says at each
step in between that *one* setting, made of old and new values of what has changed in this
frame, would have told all that was read so far; a read of a switch either was of one that has not
changed, or the setting can be chosen to have what was read. `PlaceInv` keeps graphics above text,
`BaseInv` does for the text base what `ReadInv` does for the switches.
`DebounceInv` ties the counter to the number of equal samples. `RequestsStand` is the safety half of
`ReloadServed`; for it, `RequestInv` adds that a set whose bit core 0 has tested in this load is copied by then, or its
request has overtaken the load, so that clearing all bits forgets no other.

**Bus**, for every set of bus cycles (`WordsAssumption`: a card is selected by its addresses
only), every saved configuration (`SavedAssumption`: only flags that `config_save` keeps), all
cells and every length of the program: the first part of `BusProofs` shows for each handler of a register,
command, key and switch that it changes no lock, recogniser or shadow memory but its own, and `WholeCycle`
puts them together into what one cycle does. `HistoryInv` says for each value of the lock
and of the ROMX recogniser what the cycles since the last reset must have been, the intermediate
values included (`HalfOpen`; one or two `CA` with no read of the key page after them);
`LocksHold` alone says nothing of these and is not inductive. `SinceExtended` shows that a cycle either extends
the history since the last reset or empties it. `MemoryInv` says that the menu is closed and
cells hold bytes; `SameBank` that the nested tests of the source choose the bank that the rules of
the Apple choose. `NothingDrawn` is assumed for it: no cycle writes register 9 or commits a
font, after which the firmware may draw into the memories itself.

The other theorems of `HistoryProofs` add a conjunct each. A recogniser of the firmware is a counter, or a few
switches; the conjunct says what each of its values means in the history, in both directions.

* `ResetKnown`: the two states of the reset recogniser mean that the parts of the vector were the last
  cycles; and they are reached, unless a part of the vector was read just before (`FFFC FFFC FFFD` is
  missed, as `ResetExact` says).
* `RomxCounted`: how many reads of the key page have been the key, and that a key that starts afresh is seen.
* `BankKnown`: while the selection is open, some read of the key opened it, nothing was committed since, and the bank is
  the one read last since. `RomxFontExact` is about a `PlainProgram`: a register, or the
  machine that the text page gives away, may choose another font, too.
* `BitsKnown`: DGR, 80COL and the two mode bits are what the accesses since the last reset say. Two lemmas go through all
  soft switches of the Apple IIe: which one it is, and that no other touches the four. `NoRegisters` leaves out
  the registers, whose menu sets switches itself; `MachineKept`, a step formula, is a hypothesis because an Apple II
  does not decode the accesses: those before the machine is known to be an Apple IIe do not count for
  the firmware, and the property asks for the whole history.
* `CardInv`: an open window has a touch of the card's page after the last access that closes it; the bank is
  that of the last access to the registers; index and start registers hold the last write. `NoDevice`: the log does not
  tell the device accesses of this card from those in the slot of the Videx card, which are the same
  addresses. `Present`: the card is in an Apple II from the first cycle on, as a card that is
  switched on later does not know the earlier ones.

**Settings**, for every set of register values (`WritesAssumption`), of machines that the bus can give away
(`DetectedAssumption`), of ROMX banks (`RomxBanksAssumption`), of settings that an older firmware left in
flash (`OldConfigsAssumption`: a record of one of the three sizes, its fields in the
ranges that `config_save` writes), for every size of a font, and with the power failing after any
flash operation. `ErasedAssumption` says that the magic word tells a record from an erased sector.

The proof follows the call graph upwards. `Good` is what a settings record satisfies between two
calls; `Step` and `Quiet` are what a function of config.c, menu.c or render.c may do to it: whatever changes a
choice asks for the load it needs (`Renews`), the directory is read as a whole, upload and
flash stay. `Proper` adds that the font stays a valid one and the machine in effect stays right. There is a lemma
for each function, from `check_machine_font` to `menuShow` and `update_toggle_switch`, and each uses only
those of the functions it calls. The three handlers that do more have a relation of their own: `Saved`,
`FontWritten` and, for all registers, `Written`. `Sound` joins what holds after each of them: `Good`, the lock,
the counters of an upload (`Uploading`: the buffer holds the bytes sent since the font was selected,
each as `FontByte` makes it), the images of the flash (`FlashOK`), the directory. `Inv` is `Sound` with
the range of `loading`; it is inductive. Six theorems need one conjunct more, again inductive:
`Remembers` that `kept` is what the flash would load, `InEffect`, `Fresh`, and `MenuSound`. The action properties follow from `Inv`
and the relation of the step; for a power loss, the lemmas `ConfigTorn`, `FontsTorn` and
`DirectoryTorn` go through the moments in `trail`.

None of the theorems is about one program: all hold for every interleaving of writes, detection, ROMX,
resets, switch and restarts. The hypotheses that some have leave out what the firmware does not
guarantee, and section 4 describes: `PowerOnReturns` and `TornSavesSafe` leave out command 0x30,
which selects a character set that does not exist: it is saved as 32 and loaded as 0; `MachineAlwaysInEffect` leaves out
register 8 and the commands 0 and 1, which change the choice of a machine and leave the rest to the next
start or to the menu; `RomAlwaysFresh` is about `QuietSpec`, as in `Spec` a request that
overtakes the load is lost (`lost_reload`).

The two theorems about the menu are about `PatientSpec`: nothing but a key, the switch or a load redraws
it, so a program that writes another register while it is open leaves old values on the screen. The
utility does not (A2DVICONFIG.BAS, lines 1110 to 1170); while the menu is closed every write is
allowed, and reset, power, loads and the switch come at any time. `MenuTruthful` is not inductive:
on an information page nothing is shown, and whether the next key brings a truthful menu depends on
the flags that the page left behind. `MenuSound` says that such a page always has `IgnoreNextKeypress` and
`MenuNeedsRedraw` set, that the screen holds a page and values, and that the entry of the alternate
character set is selected only while it is visible. Between a handler's first assignment and
its redraw this does not hold; `Ready` does, which is what `DrawMenu` needs to establish it again (`DrawSound`). `Behind`
is what a function that changes settings leaves of the menu: there is a lemma for each of them, down to
`set_machine`, and `Aside` is the same for the switch, whose redraw comes from the other core.
`KeysActOnMenu` follows from `MenuSound`: on another page than the menu the key is ignored (`PageKeys`).

**Scanlines**, for every width of a row that is a multiple of four columns (the firmware has 40; two
renderers load two columns at once, others take eight dots), all rows and all sets of high bytes. Without the contents
of its register a renderer is a machine of three counters. `Books` says that each dot of the loaded columns
is in a word or in the register, `Low` how many stay there, `Whole` that the monochrome renderer of
double HIRES empties its register before it loads. That is inductive for each of the sixteen renderers;
the second part shows that columns and words have the lengths that the first adds up.

The third part gives each dot a place. `Content(d)` is what the Apple shows at position d of all that a
renderer puts into its register, by the definitions of `AppleScanlines`; `Placed` says that the register holds
`Content` from the first dot that no word has taken (`InPlace`), and what the monochrome renderer of HIRES knows of
the byte before (`Carried`). It is inductive together with `Books`: the dots of a loaded column are
the next ones (`ColumnInPlace`, a step for each renderer, with the Apple's row addresses and delayed dots),
taking a word moves the position by its dots, and a new line starts at zero. A word is then right because its
dots are (`TakeRight`, again for each renderer; the interpolating ones look at dots before and behind
the word), and words already shown stay right, as the row does not change under them (`WordStays`).
`DgrColorsAgree` follows: the four phases of a window within a cell show the nibble of that cell (`CellPhases`).

Model-checked only: liveness (`FramesFinish`, the fair half of the refinement, `SwitchFollows`,
`ReloadServed`, `FramesGoOn`). Every safety property of the passing runs is stated by a theorem.

Liveness under fairness, ENABLED, and inductions over data
are out of the provers' reach and stay with TLC; there is no RECURSIVE operator in the project.

## 6. Abstractions and what is not modelled

* Colours, TMDS encoding, fonts and texts: data without control. The tables of tmds_*.c,
  dhgr_patterns.h and fonts/*.c are four fifths of the lines of the repository. A character
  set is modelled by its font, bytes and variant; in `ScanlineRenderers` the dots of a character
  are those of its cell.
* The interrupt is atomic, as nothing preempts it but hard faults. A DMA that is late
  itself (the wait for `dbg_tcr`) is not considered.
* Each erase or program operation of the flash is atomic: the power fails between two of them, never
  within one, so that no page is partly programmed.
* One bus cycle is handled as one action in `BusCycles`; `Settings` interleaves the reload,
  `TwoCores` the flags and the FIFO, and `RenderLoop` the reads of the switches, where it matters. The
  same race on `soft_switches` (menuShowFrame on core 0) is not modelled: it lasts until
  the program switches again. `TwoCores` has no reset.
* The flashing of characters, the LED and the subtitle are counters that nothing else depends on;
  of the Videx the cursor and the dots of the characters are left out.
* Counters that only the debug screen shows are left out, and the slot number.
* The menu on the text page is marked by one value `Drawn` in `BusInterface`.
* Apple IIgs code is compiled out (`APPLEIIGS`), and not modelled.
* Boot: core 1 starts before core 0 has copied the delayed section; what it would execute
  is whatever the memory holds, which no model says.
* Debug LED, tables, hardware set-up, serialiser assembly and the BASIC utility are
  not modelled; the utility's protocol is the environment of the registers.

## 7. Plan

Done: scanout, settings, bus interface, bus capture and the two cores, render loop, renderers, and
the proofs of section 5. Possible extensions, in this order:

1. `soft_switches` changed by both cores, and a reset, in `TwoCores`.
2. The cursor of the Videx card, and the characters: inverse, flashing, Pravetz.
