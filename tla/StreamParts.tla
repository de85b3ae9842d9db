----------------------------- MODULE StreamParts -----------------------------
(***************************************************************************)
(* What both bridges share when they show a turn to their host: the        *)
(* normalisation of agy's text (stream-simple.ts, language-model.ts) and   *)
(* the parts of a stream.  A text is a sequence of pieces; of a word only  *)
(* its presence matters.                                                   *)
(***************************************************************************)
EXTENDS Naturals, Sequences, FiniteSets, SequencesExt

Piece == {"word", "CR", "LF"}

\* replace(/\r\n/g, "\n")
Fold(text) ==
    LET kept[i \in 0 .. Len(text)] ==
          IF i = 0 THEN <<>>
          ELSE IF i < Len(text) /\ text[i] = "CR" /\ text[i + 1] = "LF" THEN kept[i - 1]
          ELSE Append(kept[i - 1], text[i])
    IN kept[Len(text)]

\* replace(/\s+$/, "")
TrimEnd(text) ==
    SubSeq(text, 1, Max({0} \cup {i \in DOMAIN text : text[i] = "word"}))

normalizeResponseText(text) == TrimEnd(Fold(text))

\* What a reader sees before the text that follows: no CR before an LF, however many.
Before(piece, following) ==
    IF piece = "CR" /\ following # <<>> /\ following[1] = "LF" THEN following
    ELSE <<piece>> \o following

\* A text line by line, whatever ends its lines; read from its end.
Lines(text) ==
    LET last[i \in 0 .. Len(text)] ==
          IF i = 0 THEN <<>> ELSE Before(text[Len(text) - i + 1], last[i - 1])
    IN last[Len(text)]

-----------------------------------------------------------------------------
\* One part of a stream: a block starts, grows or ends, or (block 0) the stream
\* itself starts, is done or has failed.
Part(step, block) == [step |-> step, block |-> block]

Terminal == {"done", "error"}

\* The blocks a host that has read these parts takes to be open.
OpenBlocks(parts) ==
    {b \in {parts[i].block : i \in DOMAIN parts} \ {0} :
        Cardinality({i \in DOMAIN parts : parts[i] = Part("start", b)}) >
        Cardinality({i \in DOMAIN parts : parts[i] = Part("end", b)})}

\* What a host may rely on: the stream starts first, ends once and with its
\* last part, at most one block is open at a time, and only the open block
\* grows or ends.
WellFormed(parts) ==
    \A n \in DOMAIN parts :
        LET open == OpenBlocks(SubSeq(parts, 1, n - 1))
            p == parts[n]
        IN /\ n = 1 <=> p = Part("start", 0)
           /\ p.step \in Terminal => p.block = 0 /\ n = Len(parts)
           /\ p.step = "start" => open = {}
           /\ p.step \in {"delta", "end"} => open = {p.block}
=============================================================================
