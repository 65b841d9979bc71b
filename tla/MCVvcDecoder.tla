---------------------------- MODULE MCVvcDecoder ----------------------------
(***************************************************************************)
(* Small instances of VvcDecoder: enough frames for two lives of the       *)
(* codec, and a CONFIG before and between them.                            *)
(***************************************************************************)
EXTENDS VvcDecoder
=============================================================================
