-------------------------- MODULE OrderedDelivery --------------------------
(***************************************************************************)
(* What the media pipeline promises to the file the server writes: the     *)
(* units the client has sent (NALUs, or AV1 frames), each of them whole,   *)
(* once, and in the order of their ids, however the streams that carry     *)
(* them are interleaved.                                                   *)
(***************************************************************************)
EXTENDS Naturals, Sequences

CONSTANTS NumUnits,    \* how many units the file has
          Content      \* unit id -> what it consists of

VARIABLES handed,      \* how many units the client has begun to send
          file         \* what has been written, one element per unit

vars == <<handed, file>>

Init == handed = 0 /\ file = <<>>

Hand == /\ handed < NumUnits
        /\ handed' = handed + 1
        /\ UNCHANGED file

Write == /\ Len(file) < handed
         /\ file' = Append(file, Content[Len(file)])
         /\ UNCHANGED handed

Next == Hand \/ Write

Spec == Init /\ [][Next]_vars
=============================================================================
