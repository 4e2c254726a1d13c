----------------------------- MODULE BusHistory -----------------------------
(***************************************************************************)
(* BusCycles with a history variable: `log' is what the bus has carried.   *)
(* The properties say in its terms what the recognisers and registers of   *)
(* the firmware, which remember far less, have to know.                    *)
(***************************************************************************)
EXTENDS BusCycles

CONSTANT MaxLog       \* bound: bus cycles that are considered

VARIABLE log

vars == <<dev, log>>

HistoryInit == Init /\ log = << >>

\* The firmware takes this cycle for the end of a reset.
Resets(mode, address) ==
  mode = "ReadMem" /\ dev.reset_state = 2 /\ address = 64098

Logged(mode, address, data) ==
  /\ Len(log) < MaxLog
  /\ BusCycle(mode, address, data)
  /\ log' = Append(log, [mode |-> mode, address |-> address, data |-> data,
                         machine |-> dev.current_machine,
                         reset |-> Resets(mode, address)])

HistoryNext == \E w \in Words : Logged(w[1], w[2], w[3])

HistorySpec == HistoryInit /\ [][HistoryNext]_vars

Resettings(cycles) == {i \in DOMAIN cycles : cycles[i].reset}

LastReset(cycles) ==
  LET resets == Resettings(cycles)
  IN  IF resets = {} THEN 0 ELSE CHOOSE i \in resets : \A j \in resets : j <= i

\* The cycles since the last reset.
Since(cycles) == SubSeq(cycles, LastReset(cycles) + 1, Len(cycles))

Recent == Since(log)

-----------------------------------------------------------------------------
(* Reset and lock.                                                         *)

\* The last cycles on the bus were reads of these addresses.
Fetched(cycles, addresses) ==
  LET n == Len(cycles) - Len(addresses)
  IN  /\ n >= 0
      /\ \A i \in DOMAIN addresses :
           cycles[n + i].mode = "ReadMem" /\ cycles[n + i].address = addresses[i]

ResetVector == <<65532, 65533, 64098>>

\* The firmware sees a reset when the 6502 fetches its reset vector and the
\* first instruction of the monitor, one right after the other, and only then: no
\* program that reads these addresses apart from each other closes the menu and
\* locks the registers. (If a part of the vector was read just before, the reset is
\* missed.)
ResetExact ==
  [][/\ log'[Len(log')].reset => Fetched(log', ResetVector)
     /\ ( /\ Fetched(log', ResetVector)
          /\ \A n \in 1 .. 2 : ~ Fetched(log', SubSeq(ResetVector, 1, n) \o ResetVector) )
          => /\ dev'.dev_config_lock = Locked /\ dev'.romx_unlocked = 0
             /\ "MENU_ENABLE" \notin dev'.internal_flags
             /\ dev'.soft_switches = {"TEXT", "V7_MODE1", "V7_MODE2"}
     /\ dev.dev_config_lock = Unlocked /\ dev'.dev_config_lock # Unlocked
          => \/ Fetched(log', ResetVector)
             \/ log'[Len(log')].mode = "WriteDev"]_vars

\* The writes to register 15.
KeyWrites(cycles) ==
  {i \in DOMAIN cycles : cycles[i].mode = "WriteDev" /\ cycles[i].address % 16 = 15}

\* 11 and then 22 were written to register 15, and nothing else after them.
UnlockedBy(cycles) ==
  \E i \in KeyWrites(cycles) :
    /\ cycles[i].data = 11
    /\ \E j \in KeyWrites(cycles) : i < j
    /\ \A j \in KeyWrites(cycles) : i < j => cycles[j].data = 22

\* The registers are open when the key was written since the last reset, however
\* many other cycles came in between.
RegistersOpen == dev.dev_config_lock = Unlocked <=> UnlockedBy(Recent)

-----------------------------------------------------------------------------
(* ROMX.                                                                   *)

KeyPageRead(cycles, i) ==
  /\ i \in DOMAIN cycles /\ cycles[i].mode = "ReadMem"
  /\ cycles[i].address \div 256 = RomxPage(cycles[i].machine)

Low(cycles, i)  == KeyPageRead(cycles, i) /\ cycles[i].address % 256 = KeyLow
High(cycles, i) == KeyPageRead(cycles, i) /\ cycles[i].address % 256 = KeyHigh

\* The i-th and the j-th cycle are reads of the key page with none in between.
Successive(cycles, i, j) == i < j /\ \A m \in i + 1 .. j - 1 : ~ KeyPageRead(cycles, m)

\* CA, CA, FE were read from the key page, the i-th, j-th and k-th cycle.
Key(cycles, i, j, k) ==
  /\ Low(cycles, i) /\ Low(cycles, j) /\ High(cycles, k)
  /\ Successive(cycles, i, j) /\ Successive(cycles, j, k)

\* The k-th cycle completed a key, and nothing of the key was read again.
OpenSince(cycles, k) ==
  /\ \E i, j \in 1 .. k : Key(cycles, i, j, k)
  /\ \A m \in k + 1 .. Len(cycles) : ~ Low(cycles, m) /\ ~ High(cycles, m)

\* A program that happens to read some addresses of the ROMX opens nothing: the
\* font selection is open only after CA, CA, FE, until part of the key is read
\* again; reads of other pages, where the program runs, do not matter.
RomxOpen == dev.romx_unlocked = 3 => \E k \in DOMAIN Recent : OpenSince(Recent, k)

\* No lock opens but by its own key, however much else the bus carries before it,
\* between its parts and after it (device_regs.c:74-81, businterface.c:84-96).
LocksHold == RegistersOpen /\ RomxOpen

\* The key opens the font selection whatever was read before, unless it follows
\* another CA: the third of them starts the recognition again.
RomxOpens ==
  [][LET k == Len(Recent')
     IN  /\ \E i, j \in 1 .. k :
              /\ Key(Recent', i, j, k)
              /\ ~ \E h \in 1 .. i : Low(Recent', h) /\ Successive(Recent', h, i)
         => dev'.romx_unlocked = 3]_vars

\* The font changes only by a commit after a key, each key serves one commit, and
\* the font is the one of the last bank read since the key.
RomxFont ==
  [][dev'.cfg_local_charset # dev.cfg_local_charset =>
       LET since(k, Kind(_, _)) ==
             {i \in k + 1 .. Len(Recent) :
                Recent[i].mode = "ReadMem" /\ Kind(Recent[i].machine, Recent[i].address)}
       IN  /\ CommitRead(dev.current_machine, log'[Len(log')].address)
           /\ \E k \in DOMAIN Recent :
                /\ OpenSince(Recent, k) /\ since(k, CommitRead) = {}
                /\ \A i \in since(k, BankRead) :
                     (\A j \in since(k, BankRead) : j <= i)
                       => dev'.cfg_local_charset = FirstCustom + (Recent[i].address % 16)]_vars

-----------------------------------------------------------------------------
(* Video7 and Videx.                                                       *)

\* The i-th cycle touches this address.
Touches(i, address) == Recent[i].address = address

\* What the program last selected with a pair of addresses, before cycle i.
SwitchedOn(i, off, on, Counts(_)) ==
  \E j \in 1 .. i - 1 :
    /\ Touches(j, on) /\ Counts(j)
    /\ \A m \in j + 1 .. i - 1 : ~ (Touches(m, off) /\ Counts(m))

DgrOffs ==
  LET any(j) == TRUE
  IN  {i \in DOMAIN Recent : Touches(i, 49247) /\ SwitchedOn(i, 49247, 49246, any)}

Wide(i) == LET written(j) == Recent[j].mode = "WriteMem"
           IN  SwitchedOn(i, 49164, 49165, written)

\* The Video7 mode of an Apple IIe is 80COL at the last two times at which the
\* double resolution was really switched off; until there are two, the mode of
\* the reset fills up.
Video7Mode ==
  "IIE_REGS" \in dev.internal_flags =>
    LET last(i)   == \A j \in DgrOffs : j <= i
        before(i) == \E k \in DgrOffs : last(k) /\ i < k
                                       /\ \A j \in DgrOffs : j < k => j <= i
    IN  /\ "V7_MODE1" \in dev.soft_switches <=> \A i \in DgrOffs : last(i) => Wide(i)
        /\ "V7_MODE2" \in dev.soft_switches <=> \A i \in DgrOffs : before(i) => Wide(i)

\* Accesses to the registers of the Videx card, and the last of those before i.
CardAccesses == {i \in DOMAIN log : log[i].address \in 49328 .. 49343}

\* A register of the CRTC holds what was last written while it was selected.
CrtcHolds ==
  \A r \in 12 .. 15 :
    LET writes   == {i \in CardAccesses : log[i].mode = "WriteMem"}
        index(i) == \E j \in writes : /\ j < i /\ log[j].address % 2 = 0 /\ log[j].data = r
                                      /\ \A m \in writes \cap (j + 1 .. i) :
                                           log[m].address % 2 = 1
        values   == {i \in writes : log[i].address % 2 = 1 /\ index(i)}
    IN  dev.videx_crtc_regs[r] = IF values = {} THEN CrtcDefaults[r + 1]
                                 ELSE log[CHOOSE i \in values : \A j \in values : j <= i].data

\* A write reaches the Videx memory only while the card owns the C800 space: its
\* page C3 was touched after the last access to CE00 and above. It lands in the
\* bank that the last access to the card's registers selected; and its registers hold
\* what was last written to them (businterface.c:438-465, videx_vterm.c:70-123).
VidexWindow ==
  []CrtcHolds /\
  [][\A v \in VideoRam :
       dev'.videx_vram[v] # dev.videx_vram[v] =>
         LET n == Len(log')
         IN  /\ log'[n].mode = "WriteMem" /\ log'[n].address \in 52224 .. 52735
             /\ log'[n].address % 512 = v % 512
             /\ \E i \in DOMAIN log :
                  /\ log[i].address \in 49920 .. 50175
                  /\ \A j \in i + 1 .. Len(log) : log[j].address \notin 52736 .. 53247
             /\ \A i \in CardAccesses :
                  (\A j \in CardAccesses : j <= i) => Bank(log[i].address) = v \div 512]_vars
=============================================================================
