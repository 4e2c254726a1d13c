----------------------------- MODULE BusCycles -----------------------------
(***************************************************************************)
(* Core 1 while the Apple II runs: one bus cycle after the other, in any   *)
(* order that a program on the Apple may choose.                           *)
(***************************************************************************)
EXTENDS BusInterface

CONSTANTS
  Words,       \* the bus cycles <<mode, address, data>> that occur
  Saved        \* the configurations that may be in flash

\* What the flags of a saved configuration can be: those that config_save keeps.
ASSUME SavedAssumption == \A c \in Saved : c = Erased \/ c.flags \subseteq StoredFlags

Address == 0 .. 65535
DeviceSelect == 49280 .. 49407

\* The Apple selects a card with the addresses $C080 to $C0FF only.
OnTheBus(mode, address, data) ==
  /\ mode \in Modes /\ address \in Address /\ data \in 0 .. 255
  /\ mode \in {"WriteDev", "ReadDev"} => address \in DeviceSelect

ASSUME WordsAssumption == \A w \in Words : OnTheBus(w[1], w[2], w[3])

VARIABLE dev

PoweredOn == {BusPowerOn([FreshFlash EXCEPT !.config = config]) : config \in Saved}

Init == dev \in PoweredOn

\* `trail' serves the crashes of Settings; no power fails here.
BusCycle(mode, address, data) ==
  dev' = [businterface(dev, mode, address, data) EXCEPT !.trail = << >>]

Next == \E w \in Words : BusCycle(w[1], w[2], w[3])

Spec == Init /\ [][Next]_dev

-----------------------------------------------------------------------------
(* The shadow memories.                                                    *)

Shadowed == Shadow \ (0 .. 511)

On(switch) == switch \in dev.soft_switches

MainBank == [a \in Shadowed |-> dev.apple_memory[a]]
AuxBank  == [a \in Shadowed |-> dev.private_memory[a]]

Display ==
  INSTANCE DisplayMemory WITH
    Address <- Shadowed, Byte <- 0 .. 255,
    main    <- MainBank, aux <- AuxBank,
    store80 <- On("80STORE"), page2 <- On("PAGE_2"),
    hires   <- On("HIRES"), ramwrt <- On("AUX_WRITE")

\* As long as the menu stays closed, what core 0 displays is what the Apple
\* would: every write arrives in the bank that the switches select at that time,
\* and in no other, whatever the order of switching and writing.  The source
\* decides it by three nested tests with early returns.
ImplementsDisplayMemory == Display!Spec
=============================================================================
