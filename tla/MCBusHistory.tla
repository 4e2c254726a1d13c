---------------------------- MODULE MCBusHistory ----------------------------
(* The recognisers and registers of the bus interface, for TLC: programs   *)
(* of which each addresses one part of the card, and the machine it is in. *)
EXTENDS BusHistory, MCBusConfigs

VARIABLE program

\* Each machine has the addresses of the ROMX on pages of its own.
Programs ==
  {[words |-> LockWords,   saved |-> AppleIIe],
   [words |-> RomxII,      saved |-> AppleII],
   [words |-> RomxIIe,     saved |-> AppleIIe],
   [words |-> RomxReset,   saved |-> AppleII],
   [words |-> Video7Words, saved |-> AppleIIe],
   [words |-> VidexWords,  saved |-> WithVidex]}

AllWords   == UNION {p.words : p \in Programs}
AllConfigs == UNION {p.saved : p \in Programs}

ProgramInit ==
  /\ program \in Programs
  /\ dev \in {BusPowerOn([FreshFlash EXCEPT !.config = c]) : c \in program.saved}
  /\ log = << >>

ProgramNext ==
  /\ \E w \in program.words : Logged(w[1], w[2], w[3])
  /\ UNCHANGED program

ProgramSpec == ProgramInit /\ [][ProgramNext]_<<vars, program>>
=============================================================================
