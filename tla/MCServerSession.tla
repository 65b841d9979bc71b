-------------------------- MODULE MCServerSession --------------------------
(***************************************************************************)
(* A small instance of ServerSession: three clients, the Python thread     *)
(* that owns the server and one thread that may call run().                *)
(***************************************************************************)
EXTENDS ServerSession

CONSTANTS c1, c2, c3

MCConn == {c1, c2, c3}
=============================================================================
