---------------------------- MODULE MCExclusionSet ----------------------------
(***************************************************************************)
(* Two sets over three blocks of two routes each: sets within a block, in  *)
(* neighbouring blocks and with an empty block between them.               *)
(***************************************************************************)
EXTENDS ExclusionSet

CONSTANT MaxId

MCIds == 0..MaxId
=============================================================================
