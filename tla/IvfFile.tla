------------------------------ MODULE IvfFile ------------------------------
(***************************************************************************)
(* Av1IvfParser: how moq_client takes its units from an IVF file.  Each    *)
(* carries the frame header of the file with it, and the first one the     *)
(* global header too, so that the server has only to write what it gets.   *)
(*                                                                         *)
(* One byte stands for the four of the signature and for the four of a     *)
(* frame's size; the time stamp beside it plays no part.                   *)
(***************************************************************************)
EXTENDS Integers, Sequences

CONSTANTS GlobalLen,   \* 32
          FrameLen,    \* 12
          Signature    \* "DKIF"

FrameSize(b, at) == b[at + 1]

\* open: a frame that is cut off ends the loop; what is left is not sent.
IvfFrames(b) ==
    LET from[o \in 0 .. Len(b)] ==
          LET head == IF o = 0 THEN GlobalLen ELSE o
              next == head + FrameLen + FrameSize(b, head)
          IN  IF head + FrameLen > Len(b) THEN << >>
              ELSE IF next > Len(b) THEN << >>
              ELSE <<SubSeq(b, o + 1, next)>> \o from[next]
    IN  IF Len(b) <= GlobalLen \/ b[1] # Signature THEN << >> ELSE from[0]

-----------------------------------------------------------------------------
(* Av1Frame::is_important                                                  *)

\* The bits of an OBU header.
ObuType(h) == (h \div 8) % 16
HasExtension(h) == (h \div 4) % 2 = 1
HasSize(h) == (h \div 2) % 2 = 1

SequenceHeader == 1
TemporalDelimiter == 2

FirstObu(f) ==
    LET g == IF Len(f) >= GlobalLen /\ f[1] = Signature THEN GlobalLen ELSE 0
    IN  IF g + FrameLen <= Len(f) THEN g + FrameLen ELSE g

\* Temporal delimiters are skipped, unless they have a size field.
HasSequenceHeader(f) ==
    LET from[o \in 0 .. Len(f) + 1] ==
          /\ o < Len(f)
          /\ \/ ObuType(f[o + 1]) = SequenceHeader
             \/ /\ ObuType(f[o + 1]) = TemporalDelimiter
                /\ ~HasSize(f[o + 1])
                /\ from[o + (IF HasExtension(f[o + 1]) THEN 2 ELSE 1)]
    IN  from[FirstObu(f)]
=============================================================================
