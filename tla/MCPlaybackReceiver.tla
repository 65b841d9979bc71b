------------------------- MODULE MCPlaybackReceiver -------------------------
(***************************************************************************)
(* A small instance of PlaybackReceiver: two sub-pictures; the first is    *)
(* closed after its second frame and reopened, on another stream, with its *)
(* fourth one.                                                             *)
(***************************************************************************)
EXTENDS PlaybackReceiver

CONSTANTS s1, s2, s3

MCStream == {s1, s2, s3}

Carry(p, f, l) == [subpic |-> p, first |-> f, last |-> l]
MCCarries == [s \in MCStream |-> IF s = s1 THEN Carry(0, 0, 1)
                                 ELSE IF s = s2 THEN Carry(1, 0, 2)
                                 ELSE Carry(0, 3, 3)]
=============================================================================
