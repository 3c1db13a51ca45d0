---------------------------- MODULE MCUdsFlash ----------------------------
(***************************************************************************)
(* An unlock of a Simos18 as prepare_blocks orders it (1..4, the patch of  *)
(* block 4, CAL last), with payloads of a few bytes, on a module that also *)
(* has one block it does not erase.                                        *)
(***************************************************************************)
EXTENDS UdsFlash

MCNumber == <<1, 2, 3, 4, 9, 5>>
MCSize == <<1, 4, 1, 2, 4, 2>>
MCPatchChunkSize(b, o) == IF o = 0 THEN 2 ELSE 1
=============================================================================
