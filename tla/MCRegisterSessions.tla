------------------------- MODULE MCRegisterSessions -------------------------
(* Programs that use the registers without the menu, in a single run.      *)
EXTENDS MCSettings

VARIABLE session      \* what the program and the user do

\* Uploads, while the settings stay as they are; and registers and commands, over
\* the configurations of older firmware, with the switch and a detection, while
\* core 0 loads the character sets in steps.
UploadSession == [writes |-> Uploads, switch |-> FALSE, detected |-> {}]
DirectSession == [writes |-> Direct, switch |-> TRUE, detected |-> {1}]

AllWrites == Uploads \cup Direct

SessionInit ==
  /\ Init
  /\ session \in {UploadSession, DirectSession}
  /\ session = UploadSession => dev.flash.config = Erased

SessionNext ==
  /\ \/ \E w \in session.writes : DeviceWrite(w[1], w[2]) \/ PowerLoss(w[1], w[2])
     \/ \E m \in session.detected : machine_auto_detection(m)
     \/ Reset \/ PowerCycle
     \/ session.switch /\ Core0
     \/ ~ session.switch /\ LoadUndisturbed
  /\ UNCHANGED session

SessionSpec == SessionInit /\ [][SessionNext]_<<vars, session>>
=============================================================================
