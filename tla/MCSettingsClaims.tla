-------------------------- MODULE MCSettingsClaims --------------------------
(* What a comment says of the custom fonts, and the code does not do: the  *)
(* property is refuted by a run.                                           *)
EXTENDS MCSettings

\* config.c:247: "custom fonts: only valid when programmed": no character set
\* on the screen was copied from erased flash.
OnlyProgrammedFonts ==
  \A x \in {Local, Alternate} :
    \A i \in DOMAIN dev.character_rom[x].glyphs.bytes :
      dev.character_rom[x].glyphs.bytes[i] # Erased

\* An upload of font 2, which is then used.
UploadUsed == Unlock \cup {<<2, 2>>, <<2, 255>>, <<3, 1>>, <<5, 18>>}
=============================================================================
