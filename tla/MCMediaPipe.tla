---------------------------- MODULE MCMediaPipe ----------------------------
(***************************************************************************)
(* A small instance of MediaPipe: a unit of two fragments, the last one    *)
(* shorter, and a unit of one, on two streams, a header of two bytes so    *)
(* that RECEIVE can split it, and moq_client run up to three times.  The   *)
(* units are the frames of a small IVF file.                               *)
(*                                                                         *)
(* With it, facts about the two parsers of moq_client, over all files up   *)
(* to a length: the units are the file, and none is empty.                 *)
(***************************************************************************)
EXTENDS MediaPipe, IvfFile, AnnexB

CONSTANTS s1, s2

MCStream == {s1, s2}

MCFile == <<Signature, 1, 9, 0>>
MCSize == [u \in 0 .. NumUnits - 1 |-> Len(IvfFrames(MCFile)[u + 1])]

ASSUME FileIsItsFrames == /\ Len(IvfFrames(MCFile)) = NumUnits
                          /\ FlattenSeq(IvfFrames(MCFile)) = MCFile

FilesUpTo(n, bytes) == UNION {[1 .. k -> bytes] : k \in 0 .. n}

\* The frames of an IVF file, joined, are the file, except for a last frame
\* that is cut off; and every frame has its headers.
ASSUME FramesCoverFile ==
    \A b \in {f \in FilesUpTo(6, {0, 1, 2, Signature}) :
                 Len(f) > GlobalLen /\ f[1] = Signature} :
        LET frames == IvfFrames(b)
            sent   == FlattenSeq(frames)
        IN  /\ IsPrefix(sent, b)
            /\ \A k \in DOMAIN frames :
                 Len(frames[k]) >= FrameLen + (IF k = 1 THEN GlobalLen ELSE 0)
            /\ sent # b /\ sent # << >> /\ Len(sent) + FrameLen <= Len(b)
                 => Len(sent) + FrameLen + FrameSize(b, Len(sent)) > Len(b)

\* The NALUs of an Annex-B file, joined, are the file from its first start
\* code on; each begins with its start code and has no other behind it.
ASSUME NalusCoverFile ==
    \A b \in FilesUpTo(7, {0, 1, 2}) :
        LET nalus == Nalus(b)
        IN  /\ FlattenSeq([k \in DOMAIN nalus |-> nalus[k].data])
                 = SubSeq(b, FindStartCode(b, 0).at + 1, Len(b))
            /\ \A k \in DOMAIN nalus :
                 /\ PrefixLen(nalus[k].data, 0) = nalus[k].prefix
                 /\ nalus[k].prefix > 0
                 /\ FindStartCode(nalus[k].data, nalus[k].prefix).len = 0

\* The two scanners agree, except on a start code in the last three bytes.
ASSUME ScannersAgree ==
    \A b \in FilesUpTo(7, {0, 1, 2}) :
        LET nalus == Nalus(b)
            codes == [k \in DOMAIN nalus |->
                        [at  |-> Len(b) - Len(FlattenSeq(
                                   [j \in 1 .. Len(nalus) - k + 1 |->
                                      nalus[k + j - 1].data])),
                         len |-> nalus[k].prefix]]
        IN  StartCodes(b) = SelectSeq(codes, LAMBDA c : c.at < Len(b) - 3)

\* With two streams or more, stream 0 has the important units and no others.
ASSUME ImportantOnFirst ==
    \A n \in 1 .. 4, i \in 0 .. 8, important \in BOOLEAN :
        /\ StreamFor(important, i, n) \in 0 .. n - 1
        /\ n > 1 => (StreamFor(important, i, n) = 0 <=> important)
=============================================================================
