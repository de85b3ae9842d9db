------------------------------- MODULE PiStream -------------------------------
(***************************************************************************)
(* The assistant message the pi bridge builds while a turn runs and the    *)
(* events it pushes about it (packages/pi-adapter/src/stream-simple.ts).   *)
(* A message is a value; every closure of createStreamSimple is an         *)
(* operator that returns the next one.  Index 0 is the code's null.        *)
(***************************************************************************)
EXTENDS StreamParts

\* Of a thinking block only its place matters.
Block(type, text) == [type |-> type, text |-> text]

\* stream.push: the host's event stream takes nothing after its terminal.
push(m, step, block) ==
    IF m.ended THEN m ELSE [m EXCEPT !.events = Append(@, Part(step, block))]

Started ==
    [content |-> <<>>, thinkingIdx |-> 0, textIdx |-> 0, attemptBase |-> 0,
     attemptText |-> <<>>, stopReason |-> "pending", ended |-> FALSE,
     events |-> <<Part("start", 0)>>]

closeThinking(m) ==
    IF m.thinkingIdx = 0 THEN m
    ELSE push([m EXCEPT !.thinkingIdx = 0], "end", m.thinkingIdx)

closeText(m) ==
    IF m.textIdx = 0 THEN m
    ELSE push([m EXCEPT !.textIdx = 0], "end", m.textIdx)

OpenThinking(m) ==
    LET n == Len(m.content) + 1
    IN push([m EXCEPT !.content = Append(@, Block("thinking", <<>>)),
                      !.thinkingIdx = n], "start", n)

OpenText(m) ==
    LET n == Len(m.content) + 1
    IN push([m EXCEPT !.content = Append(@, Block("text", <<>>)), !.textIdx = n],
            "start", n)

appendThinking(m) ==
    LET t == IF m.thinkingIdx = 0 THEN OpenThinking(closeText(m)) ELSE m
    IN push(t, "delta", t.thinkingIdx)

\* Mutant of appendText: narration stays open while the text is written.
appendTextBeside(m, text) ==
    LET t == IF m.textIdx = 0 THEN OpenText(m) ELSE m
    IN push([t EXCEPT !.content[t.textIdx].text = @ \o text], "delta", t.textIdx)

appendText(m, text) ==
    LET c == closeThinking(m)
        t == IF c.textIdx = 0 THEN OpenText(c) ELSE c
    IN push([t EXCEPT !.content[t.textIdx].text = @ \o text], "delta", t.textIdx)

\* onStep: a step with a text delta is text, every other one is narration.
onStep(m, delta) ==
    IF delta = <<>> THEN appendThinking(m)
    ELSE appendText([m EXCEPT !.attemptText = @ \o delta], delta)

onDiverged(m) == appendThinking(m)

\* Mutant of retryReset: the window of the first attempt stays open.
retryResetKeepsBase(m) == [appendThinking(m) EXCEPT !.attemptText = <<>>]

retryReset(m) ==
    LET t == appendThinking(m)
    IN [t EXCEPT !.attemptText = <<>>, !.attemptBase = Len(t.content)]

\* Mutant of AttemptBlocks: text of the first attempt is reconciled too.
AllTextBlocks(m) == {i \in DOMAIN m.content : m.content[i].type = "text"}

\* The text blocks of the current attempt.
AttemptBlocks(m) ==
    {i \in DOMAIN m.content : i > m.attemptBase /\ m.content[i].type = "text"}

SetTexts(m, texts) ==
    [m EXCEPT !.content = [i \in DOMAIN @ |->
        IF i \in DOMAIN texts THEN Block("text", texts[i]) ELSE @[i]]]

\* Nothing streamed: the answer is appended.  Other text streamed: the answer
\* replaces it.  The same text streamed: it stays where it is, normalised.
reconcile(m, response) ==
    LET answer == normalizeResponseText(response)
        idxs   == AttemptBlocks(m)
        last   == Max(idxs)
    IN IF idxs = {} THEN appendText(m, answer)
       ELSE SetTexts(m, [i \in idxs |->
              IF normalizeResponseText(m.attemptText) # answer
              THEN IF i = last THEN answer ELSE <<>>
              ELSE LET folded == Fold(m.content[i].text)
                   IN IF i = last THEN TrimEnd(folded) ELSE folded])

\* finalizeStop, finalizeError and stream.end().
Finalize(m, reason, step) ==
    [push([closeText(m) EXCEPT !.stopReason = reason], step, 0) EXCEPT !.ended = TRUE]

Succeed(m, response, uninspected) ==
    LET r == reconcile(m, response)
    IN Finalize(IF uninspected THEN appendThinking(r) ELSE r, "stop", "done")

\* TurnAborted: the open text, if any, becomes what agy said before it was
\* stopped, if it said anything: said is empty or holds one text.
Abort(m, said) ==
    Finalize(SetTexts(m, [i \in {m.textIdx} \ {0} |->
                 IF said = {} THEN m.content[i].text
                 ELSE normalizeResponseText(CHOOSE text \in said : TRUE)]),
             "aborted", "error")

\* Mutant of Fail: an error nobody expected does not end the stream.
FailSilently(m) == m

\* TurnError and everything else.
Fail(m) == Finalize(m, "error", "error")
=============================================================================
