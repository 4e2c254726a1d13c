--------------------------- MODULE MCMenuSessions ---------------------------
(* Programs that open the menu, one after the other in a single run.       *)
EXTENDS MCSettings

VARIABLE session      \* what the program and the user do

Sessions ==
  {[keys |-> MachineKeys,   detected |-> {0, 1}, banks |-> {},  switch |-> FALSE],
   [keys |-> EffectKeys,    detected |-> {},     banks |-> {},  switch |-> FALSE],
   [keys |-> SwitchKeys,    detected |-> {},     banks |-> {},  switch |-> TRUE],
   [keys |-> AlternateKeys, detected |-> {},     banks |-> {},  switch |-> FALSE],
   [keys |-> Reloads,       detected |-> {},     banks |-> {2}, switch |-> FALSE]}

AllKeys == UNION {s.keys : s \in Sessions}

SessionInit == Init /\ session \in Sessions

SessionNext ==
  /\ \/ \E w \in session.keys : DeviceWrite(w[1], w[2])
     \/ \E m \in session.detected : machine_auto_detection(m)
     \/ \E b \in session.banks : RomxSelect(b)
     \/ session.switch /\ Switch
     \/ Reset \/ LoadUndisturbed \/ PowerCycle
  /\ UNCHANGED session

sessionVars == <<vars, session>>
SessionSpec == SessionInit /\ [][SessionNext]_sessionVars

\* Bounds on what a session does besides its own subject.
Considered ==
  /\ session.keys # MachineKeys => dev.cfg_machine = MACHINE_AUTO
  /\ session.keys = EffectKeys => FewValues
  /\ session.keys = AlternateKeys => FewFonts

\* While the menu is off, what it showed last matters to nothing: key 0, which
\* switches it on, draws all of it anew.
Seen == <<IF "MENU_ENABLE" \in dev.internal_flags THEN dev
          ELSE [dev EXCEPT !.screen = [page |-> "apple", shown |-> << >>]],
          loading, kept, sent, session>>
=============================================================================
