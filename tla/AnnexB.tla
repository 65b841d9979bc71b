------------------------------- MODULE AnnexB -------------------------------
(***************************************************************************)
(* The two readers of Annex-B files: H265FileParser, from which moq_client *)
(* takes its units, and parse_annexb of lib/vvc_splitter.py, from which    *)
(* the live client takes its frames; and moq_client's choice of a stream.  *)
(*                                                                         *)
(* A file is a sequence of bytes; offsets count from 0, as in the code.    *)
(***************************************************************************)
EXTENDS Integers, SequencesExt

Octet(b, i) == b[i + 1]

StartCode(n) == IF n = 4 THEN <<0, 0, 0, 1>> ELSE <<0, 0, 1>>
IsAt(n, b, i) == i + n <= Len(b) /\ SubSeq(b, i + 1, i + n) = StartCode(n)

-----------------------------------------------------------------------------
(* H265FileParser                                                          *)

PrefixLen(b, i) == IF IsAt(3, b, i) THEN 3 ELSE IF IsAt(4, b, i) THEN 4 ELSE 0

\* The first start code at or after an offset; the end of the file if none.
FindStartCode(b, from) ==
    LET found == {i \in from .. Len(b) - 1 : PrefixLen(b, i) > 0}
    IN  IF found = {} THEN [at |-> Len(b), len |-> 0]
                      ELSE [at |-> Min(found), len |-> PrefixLen(b, Min(found))]

\* open: a NALU is what lies between a start code and the next, or the end.
Nalus(b) ==
    LET after[p \in 0 .. Len(b)] ==
          LET sc   == FindStartCode(b, p)
              next == FindStartCode(b, sc.at + sc.len)
          IN  IF sc.at = Len(b) THEN << >>
              ELSE <<[data |-> SubSeq(b, sc.at + 1, next.at), prefix |-> sc.len]>>
                       \o after[next.at]
    IN  after[0]

NaluType(n) == IF Len(n.data) <= n.prefix THEN 0
               ELSE (Octet(n.data, n.prefix) \div 2) % 64

\* VPS, SPS, PPS and the pictures one can start from.
IsImportant(n) == NaluType(n) \in 16 .. 21 \cup 32 .. 34

\* The stream moq_client sends its i-th unit on, of the num_streams it has.
StreamFor(important, i, n) == IF n < 2 \/ important THEN 0
                              ELSE IF n > 2 THEN 1 + (i % (n - 1))
                              ELSE 1

-----------------------------------------------------------------------------
(* lib/vvc_splitter.py                                                     *)

\* find_start_codes looks for the longer one first and stops three bytes
\* before the end.
StartCodes(b) ==
    LET from[i \in 0 .. Len(b)] ==
          IF i >= Len(b) - 3 THEN << >>
          ELSE IF IsAt(4, b, i) THEN <<[at |-> i, len |-> 4]>> \o from[i + 4]
          ELSE IF IsAt(3, b, i) THEN <<[at |-> i, len |-> 3]>> \o from[i + 3]
          ELSE from[i + 1]
    IN  from[0]

\* parse_annexb: a NALU without room for its two bytes of header is skipped.
ParseAnnexB(b) ==
    LET starts  == StartCodes(b)
        Body(i) == starts[i].at + starts[i].len
        End(i)  == IF i < Len(starts) THEN starts[i + 1].at ELSE Len(b)
        Kept(i) == Body(i) + 2 <= End(i)
        kept    == SelectSeq([i \in DOMAIN starts |-> i], Kept)
    IN  [k \in DOMAIN kept |->
            [type |-> (Octet(b, Body(kept[k]) + 1) \div 8) % 32,
             raw  |-> SubSeq(b, starts[kept[k]].at + 1, End(kept[k]))]]
=============================================================================
