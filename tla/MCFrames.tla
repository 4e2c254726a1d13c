----------------------------- MODULE MCFrames ------------------------------
(* The frames of core 0 for TLC, with one kind of change at a time.        *)
EXTENDS AppleFrames

\* The screens of an Apple; text and graphics of a Video7 card; the Videx card;
\* fonts; the switch.
Changes ==
  {{"TEXT", "MIX", "HIRES", "PAGE_2", "80STORE", "80COL", "DGR", "MONOCHROME"},
   {"VIDEO7", "TEXT", "MIX", "PAGE_2", "80STORE", "80COL", "DGR"},
   {"VIDEO7", "MIX", "HIRES", "PAGE_2", "80STORE", "80COL", "DGR", "V7_MODE1", "V7_MODE2"},
   {"TEXT", "VIDEX_80COL", "CRTC"},
   {"TEXT", "VIDEX_80COL", "FONT"},
   {"INPUT"}}
=============================================================================
