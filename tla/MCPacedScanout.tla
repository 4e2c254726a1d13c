--------------------------- MODULE MCPacedScanout ---------------------------
(* PacedScanout on a small screen, for TLC.                                *)
EXTENDS PacedInvariant, TLC

BufferSymmetry == Permutations(Buffers)
=============================================================================
