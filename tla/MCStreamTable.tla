--------------------------- MODULE MCStreamTable ---------------------------
(***************************************************************************)
(* Small instances of StreamTable.  Handles are the only bound: MsQuic     *)
(* returns no handle twice here, so three handles are three streams.       *)
(***************************************************************************)
EXTENDS StreamTable

CONSTANTS h1, h2, h3, t1, t2

MCHandle == {h1, h2, h3}
MCThread == {t1, t2}
=============================================================================
