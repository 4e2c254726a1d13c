--------------------------- MODULE DisplayMemory ---------------------------
(***************************************************************************)
(* What the shadow memories promise: they are the two banks of memory that *)
(* the Apple displays, in which each write of the 6502 lands where the     *)
(* switches of the memory management say.                                  *)
(***************************************************************************)
EXTENDS Integers

CONSTANTS Address, Byte

VARIABLES main, aux, store80, page2, hires, ramwrt

memory   == <<main, aux>>
switches == <<store80, page2, hires, ramwrt>>

TextPage1  == 1024 .. 2047
HiresPage1 == 8192 .. 16383

\* The bank that a write to the address goes to.
Auxiliary(a) ==
  CASE store80 /\ (a \in TextPage1 \/ (hires /\ a \in HiresPage1)) -> page2
    [] OTHER -> ramwrt

Init ==
  /\ main \in [Address -> Byte] /\ aux \in [Address -> Byte]
  /\ {store80, page2, hires, ramwrt} \subseteq BOOLEAN

Write(a, d) ==
  /\ IF Auxiliary(a) THEN aux' = [aux EXCEPT ![a] = d] /\ main' = main
                     ELSE main' = [main EXCEPT ![a] = d] /\ aux' = aux
  /\ UNCHANGED switches

\* The program changes a switch; a reset changes all of them.
SetSwitch ==
  /\ {store80', page2', hires', ramwrt'} \subseteq BOOLEAN
  /\ UNCHANGED memory

Next == SetSwitch \/ \E a \in Address, d \in Byte : Write(a, d)

Spec == Init /\ [][Next]_<<main, aux, store80, page2, hires, ramwrt>>
=============================================================================
