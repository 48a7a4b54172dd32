------------------------------- MODULE MCGptDisk -------------------------------
(***************************************************************************)
(* A card of 24 sectors, an image of 18: slots of two sectors, one for     *)
(* UDISK.  TLC needs no larger numbers: only the order of the LBAs counts. *)
(***************************************************************************)
EXTENDS GptDisk

Anywhere == Phases

OnlyUp == {"up"}

OnlyFormatting == FormatPhases

=============================================================================
