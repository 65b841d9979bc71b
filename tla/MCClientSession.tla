-------------------------- MODULE MCClientSession --------------------------
(***************************************************************************)
(* A small instance of ClientSession: two threads, two stream handles and, *)
(* if the program is moq_client, two configured streams.                   *)
(***************************************************************************)
EXTENDS ClientSession

CONSTANTS m, t1, h1, h2

MCThread == {m, t1}
MCHandle == {h1, h2}
=============================================================================
