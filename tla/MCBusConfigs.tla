---------------------------- MODULE MCBusConfigs ----------------------------
(* The saved configurations and the bus cycles of the runs, for TLC.       *)
EXTENDS Config

Configured(machine, font, videx) ==
  [size |-> "full", flags |-> {"VIDEO7"}, color_mode |-> 1,
   machine_type |-> machine, local_charset |-> font, alt_charset |-> 0,
   input_switch_mode |-> ModeSwitchDisabled,
   OBSOLETE_enhanced_font_enabled |-> FALSE,
   rendering_fx |-> FX_ENABLED, videx_selection |-> videx]

AppleII   == {Configured(MACHINE_II, 11, 0)}
AppleIIe  == {Configured(MACHINE_IIE, 0, 0)}
Enhanced  == {Configured(MACHINE_IIE_ENH, 0, 0)}
WithVidex == {Configured(MACHINE_II, 11, 1)}

R(address)    == <<"ReadMem", address, 0>>
W(address, d) == <<"WriteMem", address, d>>
DEV(reg, d)   == <<"WriteDev", 49312 + reg, d>>       \* the card in slot 2

\* C000: 80STORE and RAMWRT; C050: PAGE2 and HIRES.
MemoryWords ==
  {W(49152, 0), W(49153, 0), W(49156, 0), W(49157, 0),
   R(49236), R(49237), W(49238, 0), R(49239),
   R(65532), R(65533), R(64098)}
    \cup {W(a, d) : a \in {256, 768, 1024, 8192}, d \in {1, 2}}
MemoryCells == {256, 768, 1024, 8192}

\* Unlocking, opening the menu, and a reset.
LockWords == {DEV(15, 11), DEV(15, 22), DEV(15, 0), DEV(9, 0),
              R(65532), R(65533), R(64098)}

\* CA, FE and another address of the key page, two banks and the commit.
RomxII  == {R(51914), R(51966), R(51712), R(53202), R(53203), R(53216)}
RomxIIe == {R(64202), R(64254), R(64000), R(63506), R(63507), R(63569)}

\* The key alone, and a reset: between its parts and after it.
RomxReset == {R(51914), R(51966), R(65532), R(65533), R(64098)}

\* DGR on and off, 80COL on and off, and a read that does not switch 80COL.
Video7Words == {R(49246), R(49247), W(49164, 0), W(49165, 0), R(49165)}

\* The page C3, the end of the C8 space, the window, and the card's registers.
VidexWords == {R(49920), R(53247), W(52229, 65), W(49328, 14), W(49329, 7),
               W(49334, 15), R(49332)}
VidexCells == {5, 517}
=============================================================================
