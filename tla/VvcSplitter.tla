---------------------------- MODULE VvcSplitter ----------------------------
(***************************************************************************)
(* How the live client gets the objects it sends, and how they become a    *)
(* bitstream again: split_transport_units and build_transport_split of     *)
(* lib/vvc_splitter.py, organize and reconstruct of                        *)
(* decode_received_subpics.py.                                             *)
(*                                                                         *)
(* A NALU is a record with a type, as AnnexB's ParseAnnexB returns it; the *)
(* bytes of an object are the NALUs that were joined to make it.           *)
(***************************************************************************)
EXTENDS Integers, SequencesExt

CommonTypes == {14, 15, 16}  \* VPS, SPS, PPS
PictureHeader == 19
VclTypes == 0 .. 11

Config(nalus) == SelectSeq(nalus, LAMBDA n : n.type \in CommonTypes)
Media(nalus) == SelectSeq(nalus, LAMBDA n : n.type \notin CommonTypes)

\* Where in the media NALUs the frames begin: at each picture header.
Headers(media) == SetToSortSeq({i \in DOMAIN media : media[i].type = PictureHeader},
                               <)

\* What comes before the first picture header belongs to the first frame.
SplitFrames(nalus) ==
    LET media    == Media(nalus)
        ph       == Headers(media)
        Begin(k) == IF k = 1 THEN 1 ELSE ph[k]
        End(k)   == IF k < Len(ph) THEN ph[k + 1] - 1 ELSE Len(media)
    IN  [k \in DOMAIN ph |-> SubSeq(media, Begin(k), End(k))]

HasVcl(frame) == \E i \in DOMAIN frame : frame[i].type \in VclTypes

\* split_transport_units raises if there is no picture header, or no VCL NALU
\* in one of the frames.
CanSplit(nalus) ==
    /\ SplitFrames(nalus) # << >>
    /\ \A k \in DOMAIN SplitFrames(nalus) : HasVcl(SplitFrames(nalus)[k])

\* build_transport_split raises if the files have not the same number of frames.
CanSplitAll(files) ==
    /\ \A p \in DOMAIN files : CanSplit(files[p])
    /\ \A p, q \in DOMAIN files :
         Len(SplitFrames(files[p])) = Len(SplitFrames(files[q]))

\* The receiver's objects of a sub-picture, in the order of their frame ids,
\* behind its CONFIG.
Reconstruct(config, frames) == config \o FlattenSeq(frames)
=============================================================================
