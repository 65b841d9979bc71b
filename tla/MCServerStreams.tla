-------------------------- MODULE MCServerStreams --------------------------
(***************************************************************************)
(* A small instance of ServerStreams.  The first client has two streams,   *)
(* of which the server admits one at a time; the second has one, and sends *)
(* two packets on it, so that any of them may come to the address another  *)
(* has left.  As StreamClose always comes, two addresses are enough.       *)
(***************************************************************************)
EXTENDS ServerStreams

CONSTANTS c1, c2

MCStream == 1 .. 3
MCConn == {c1, c2}
MCHome == <<c1, c2, c1>>
MCPackets == <<1, 2, 1>>
MCAddr == 1 .. 2
=============================================================================
