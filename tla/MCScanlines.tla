---------------------------- MODULE MCScanlines ----------------------------
(* The renderers on rows of all parts of the screen, for TLC.              *)
EXTENDS AppleScanlines

\* No byte, all bytes, and every byte next to one of the other kind.
AllHigh    == {"aux", "main"} \X (0 .. Cols - 1)
Patterns   == {{}, AllHigh,
               {x \in AllHigh : x[2] % 3 = 1},
               {x \in AllHigh : x[1] = "main" /\ x[2] % 3 # 1}}
=============================================================================
