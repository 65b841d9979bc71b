---------------------------- MODULE MCLiveSender ----------------------------
(***************************************************************************)
(* A small instance of LiveSender: two sub-pictures and three frames, as   *)
(* the splitter makes them of two small bitstreams.                        *)
(*                                                                         *)
(* With it, facts about the splitter, over all sequences of NALUs up to a  *)
(* length.                                                                 *)
(***************************************************************************)
EXTENDS LiveSender, VvcSplitter

\* The NALUs of a bitstream with these types, told apart by their places.
Bitstream(types) == [i \in DOMAIN types |-> [type |-> types[i], raw |-> i]]

MCFiles == <<Bitstream(<<15, 16, 17, 19, 1, 19, 1, 19, 1, 1>>),
             Bitstream(<<15, 19, 1, 24, 15, 19, 1, 23, 19, 1>>)>>

MCSent == {<<f, p>> \in Frame \X Subpic :
              SplitFrames(MCFiles[p + 1])[f + 1] # << >>}

MCNumConfigs == Cardinality({p \in Subpic : Config(MCFiles[p + 1]) # << >>})

ASSUME SplitsWell == /\ CanSplitAll(MCFiles)
                     /\ Len(MCFiles) = NumSubpics
                     /\ Len(SplitFrames(MCFiles[1])) = NumFrames

Bitstreams(n) == {Bitstream(t) :
                     t \in UNION {[1 .. k -> {1, 15, 17, 19}] : k \in 0 .. n}}

\* What can be split comes back whole, with its parameter sets in front: it is
\* the same bitstream exactly if no parameter set comes after a media NALU.
\* Every frame has one picture header and something to decode.
ASSUME SplitIsLossless ==
    \A b \in Bitstreams(6) : CanSplit(b) =>
        LET frames == SplitFrames(b)
            again  == Reconstruct(Config(b), frames)
        IN  /\ again = Config(b) \o Media(b)
            /\ again = b <=> \A i, j \in DOMAIN b :
                 i < j /\ b[j].type \in CommonTypes => b[i].type \in CommonTypes
            /\ \A k \in DOMAIN frames : Len(Headers(frames[k])) = 1
=============================================================================
