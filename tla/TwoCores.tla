------------------------------ MODULE TwoCores ------------------------------
(***************************************************************************)
(* The bus capture and what the two cores share without a lock.  The PIO   *)
(* pushes each bus cycle into a FIFO.  Core 1 handles one after the other; *)
(* after it has drawn the menu it wipes the FIFO.  Core 0 draws the menu,  *)
(* too, when the toggle switch acts while it is open, and wipes the same   *)
(* FIFO.  internal_flags is loaded, changed and stored by both.            *)
(***************************************************************************)
EXTENDS Integers, Sequences

CONSTANTS
  FifoDepth,   \* entries of the FIFO: 4
  Backlog,     \* entries that an ordinary bus cycle may find in it, at most
  MaxOverflow, \* bound: what the overflow counter is counted up to
  None

ASSUME TwoCoresAssumption ==
  FifoDepth \in Nat \ {0} /\ Backlog \in 1 .. FifoDepth - 1 /\ MaxOverflow \in Nat \ {0}

\* What a bus cycle means to core 1: register 9 with 0, with a key, with ESC; a
\* command that erases flash; anything else.
Words == {"open", "key", "esc", "save", "other"}

VARIABLES
  fifo,                  \* the RX FIFO of the PIO
  sampling,              \* the bus cycle that the PIO is sampling
  stalled,               \* the one that it cannot push, as the FIFO is full
  bus_overflow_counter,
  internal_flags,
  pc,                    \* where each core is
  loaded,                \* each core's register, in which it changes the flags
  word,                  \* the bus cycle that core 1 handles
  asked,                 \* whether the program on the Apple has the menu open
  behind,                \* whether core 1 still has to catch up with the bus
  unnoticed,             \* whether a cycle was lost since it last looked, or wiped
  slow                   \* whether a slow command was given

capture == <<fifo, sampling, stalled>>
history == <<asked, behind, unnoticed, slow>>
vars    == <<capture, bus_overflow_counter, internal_flags, pc, loaded, word, history>>

Cores  == {0, 1}
Wiping == {"wipe", "wipe_wait", "wipe_pop"}
Goto(c, label) == pc' = [pc EXCEPT ![c] = label]

Init ==
  /\ fifo = << >> /\ sampling = None /\ stalled = None
  /\ bus_overflow_counter = 0 /\ internal_flags = {}
  /\ pc = [c \in Cores |-> IF c = 0 THEN "frame" ELSE "check"]
  /\ loaded = [c \in Cores |-> {}] /\ word = "other"
  /\ asked = FALSE /\ behind = FALSE /\ unnoticed = FALSE /\ slow = FALSE

-----------------------------------------------------------------------------
(* The bus and the PIO.                                                    *)

\* Core 1 has handled everything that was on the bus.
Quiet ==
  /\ fifo = << >> /\ sampling = None /\ stalled = None
  /\ pc[1] \in {"check", "wait"} /\ ~ behind

\* The configuration utility waits for the user between two keys.
Sends(w) ==
  CASE w = "other" -> TRUE
    [] w \in {"open", "save"} -> Quiet /\ ~ asked
    [] w \in {"key", "esc"} -> Quiet /\ asked

\* A core that wipes does a step of it within a bus cycle, if it has not to wait
\* for an entry. Core 1 handles ordinary cycles as fast as the bus, but for some
\* that wait; while it draws or erases flash it does not.
Paced ==
  /\ \A c \in Cores : pc[c] \in Wiping => pc[c] = "wipe_wait" /\ fifo = << >>
  /\ behind \/ Len(fifo) < Backlog

\* PHI0 rises. A cycle that begins while the PIO is stalled is lost.
Rise(w) ==
  /\ sampling = None /\ Paced /\ Sends(w)
  /\ asked' = (w = "open" \/ (asked /\ w # "esc"))
  /\ IF stalled = None THEN sampling' = w /\ UNCHANGED unnoticed
                       ELSE unnoticed' = TRUE /\ UNCHANGED sampling
  /\ UNCHANGED <<fifo, stalled, bus_overflow_counter, internal_flags, pc, loaded, word,
                 behind, slow>>

\* The autopush of 27 bits.
Push ==
  /\ sampling # None
  /\ IF Len(fifo) < FifoDepth
     THEN fifo' = Append(fifo, sampling) /\ UNCHANGED stalled
     ELSE stalled' = sampling /\ UNCHANGED fifo
  /\ sampling' = None
  /\ UNCHANGED <<bus_overflow_counter, internal_flags, pc, loaded, word, history>>

\* A mutant of Refill: the PIO does not wait, and drops the cycle.
RefillDrops(rest) == rest

\* The PIO pushes what it could not push before.
Refill(rest) == IF stalled = None \/ rest = fifo THEN rest ELSE Append(rest, stalled)

\* A mutant of Get: a stalled PIO stays stalled.
GetStaysStalled(w) ==
  /\ IF fifo = << >> THEN w \in Words ELSE w = Head(fifo)
  /\ fifo' = IF fifo = << >> THEN << >> ELSE Tail(fifo)
  /\ UNCHANGED <<sampling, stalled>>

\* pio_sm_get_blocking is a test and then a read: when the other core has read the
\* last entry in between, what is read is undefined.
Get(w) ==
  /\ IF fifo = << >> THEN w \in Words ELSE w = Head(fifo)
  /\ LET rest == IF fifo = << >> THEN << >> ELSE Tail(fifo)
     IN  fifo' = Refill(rest)
  /\ stalled' = None
  /\ UNCHANGED sampling

-----------------------------------------------------------------------------
(* Core 1: abus_loop and the handlers.                                     *)

Check ==
  /\ pc[1] = "check"
  /\ bus_overflow_counter' =
       IF Len(fifo) = FifoDepth /\ bus_overflow_counter < MaxOverflow
       THEN bus_overflow_counter + 1 ELSE bus_overflow_counter
  /\ unnoticed' = FALSE
  /\ behind' = (behind /\ fifo # << >>)
  /\ Goto(1, "wait")
  /\ UNCHANGED <<capture, internal_flags, loaded, word, asked, slow>>

Wait ==
  /\ pc[1] = "wait" /\ fifo # << >>
  /\ Goto(1, "pop")
  /\ UNCHANGED <<capture, bus_overflow_counter, internal_flags, loaded, word, history>>

Read ==
  /\ pc[1] = "pop"
  /\ \E w \in Words :
       /\ Get(w)
       /\ word' = w
       /\ Goto(1, CASE w = "open" -> "load" [] w \in {"key", "esc"} -> "test"
                    [] w = "save" -> "slow" [] w = "other" -> "check")
       /\ behind' = (behind \/ w = "save") /\ slow' = (slow \/ w = "save")
  /\ UNCHANGED <<bus_overflow_counter, internal_flags, loaded, asked, unnoticed>>

\* device_command, with flash erased and programmed.
Command ==
  /\ pc[1] = "slow"
  /\ Goto(1, "check")
  /\ UNCHANGED <<capture, bus_overflow_counter, internal_flags, loaded, word, history>>

-----------------------------------------------------------------------------
(* Both cores.                                                             *)

\* SET_IFLAG: load ...
Load(c) ==
  /\ pc[c] = "load"
  /\ loaded' = [loaded EXCEPT ![c] = internal_flags]
  /\ Goto(c, "store")
  /\ UNCHANGED <<capture, bus_overflow_counter, internal_flags, word, history>>

\* ... and store: register 9 and ESC on core 1, the switch on core 0.
Store(c) ==
  /\ pc[c] = "store"
  /\ internal_flags' \in
       IF c = 0 THEN {loaded[0] \cup {"FORCED_MONO"}, loaded[0] \ {"FORCED_MONO"}}
       ELSE IF word = "esc" THEN {loaded[1] \ {"MENU_ENABLE"}}
            ELSE {loaded[1] \cup {"MENU_ENABLE"}}
  /\ Goto(c, IF c = 1 /\ word = "esc" THEN "wipe" ELSE "test")
  /\ UNCHANGED <<capture, bus_overflow_counter, loaded, word, history>>

\* Only an open menu is drawn and gets the key.
Test(c) ==
  /\ pc[c] = "test"
  /\ LET idle   == IF c = 0 THEN "frame" ELSE "check"
         draws  == "MENU_ENABLE" \in internal_flags
         leaves == c = 1 /\ word = "esc"
     IN  /\ Goto(c, IF ~ draws THEN idle ELSE IF leaves THEN "load" ELSE "draw")
         /\ behind' = (behind \/ (c = 1 /\ draws /\ ~ leaves))
  /\ UNCHANGED <<capture, bus_overflow_counter, internal_flags, loaded, word,
                 asked, unnoticed, slow>>

\* A mutant of Draw: the menu is left without a wipe.
DrawOnly(c) ==
  /\ pc[c] = "draw"
  /\ Goto(c, IF c = 0 THEN "frame" ELSE "check")
  /\ UNCHANGED <<capture, bus_overflow_counter, internal_flags, loaded, word, history>>

\* menuShow draws for as long as it takes; then it wipes the FIFO.
Draw(c) ==
  /\ pc[c] = "draw"
  /\ Goto(c, "wipe")
  /\ UNCHANGED <<capture, bus_overflow_counter, internal_flags, loaded, word, history>>

\* abus_clear_fifo: the level is tested, ...
Wiped == fifo = << >>

Wipe(c) ==
  /\ pc[c] = "wipe"
  /\ Goto(c, IF ~ Wiped THEN "wipe_wait" ELSE IF c = 0 THEN "frame" ELSE "check")
  /\ behind' = (behind /\ ~ (c = 1 /\ Wiped))
  /\ UNCHANGED <<capture, bus_overflow_counter, internal_flags, loaded, word,
                 asked, unnoticed, slow>>

\* ... and an entry is read, with blocking.
WipeWait(c) ==
  /\ pc[c] = "wipe_wait" /\ fifo # << >>
  /\ Goto(c, "wipe_pop")
  /\ UNCHANGED <<capture, bus_overflow_counter, internal_flags, loaded, word, history>>

WipeRead(c) ==
  /\ pc[c] = "wipe_pop"
  /\ \E w \in Words : Get(w)
  /\ unnoticed' = FALSE
  /\ Goto(c, "wipe")
  /\ UNCHANGED <<bus_overflow_counter, internal_flags, loaded, word, asked, behind, slow>>

\* Core 0 has drawn a frame, and the switch acts.
Switch ==
  /\ pc[0] = "frame"
  /\ Goto(0, "load")
  /\ UNCHANGED <<capture, bus_overflow_counter, internal_flags, loaded, word, history>>

Common(c) == Load(c) \/ Store(c) \/ Test(c) \/ Draw(c) \/ Wipe(c) \/ WipeRead(c)

Bus   == (\E w \in Words : Rise(w)) \/ Push
Core1 == Check \/ Wait \/ Read \/ Command \/ Common(1) \/ WipeWait(1)
Core0 == Common(0) \/ WipeWait(0)

Next == Bus \/ Core1 \/ Core0 \/ Switch

Spec == Init /\ [][Next]_vars

\* The bus of a running Apple never stops, nor does a core. Two cores that wait
\* for the same entry poll for it in turn: none of them misses every one.
FairSpec ==
  /\ Spec
  /\ WF_vars(\E w \in Words : Rise(w)) /\ WF_vars(Push)
  /\ WF_vars(Core1) /\ WF_vars(Common(0)) /\ SF_vars(WipeWait(0))

-----------------------------------------------------------------------------
\* However core 0 and core 1 get in each other's way, a lost bus cycle is seen by
\* core 1 when it looks next, unless the FIFO was wiped since (abus.c:64).
LossNoticed == pc[1] = "check" /\ unnoticed => Len(fifo) = FifoDepth

\* The overflow counter tells of slow commands only: the menu, however slowly it
\* is drawn, on either core, never adds to the statistics (menu.c:869-873).
StatisticsClean == bus_overflow_counter > 0 => slow

\* Core 0, which shares the FIFO that it wipes with core 1, always comes back to
\* drawing frames.
FramesGoOn == []<>(pc[0] = "frame")
=============================================================================
