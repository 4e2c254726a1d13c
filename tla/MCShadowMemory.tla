--------------------------- MODULE MCShadowMemory ---------------------------
(* The shadow memories for TLC.                                            *)
EXTENDS BusCycles, MCBusConfigs
=============================================================================
