---------------------------- MODULE OpencodeStream ----------------------------
(***************************************************************************)
(* The V3 stream parts the opencode bridge emits for a turn                *)
(* (packages/opencode-adapter/src/language-model.ts, start of the          *)
(* ReadableStream, and doGenerate).  Block 1 is the status block           *)
(* (REASONING_ID), block 2 the answer (TEXT_ID).  Every step of agy, text  *)
(* or not, is a line of the status block; the answer comes as one delta.   *)
(***************************************************************************)
EXTENDS StreamParts

Reasoning == 1
Answer    == 2

Started == [parts |-> <<Part("start", 0)>>, reasoningOpen |-> FALSE,
            closed |-> FALSE, threw |-> FALSE, text |-> <<>>]

\* controller.enqueue throws once the stream is closed or errored.
enqueue(s, step, block) ==
    IF s.closed THEN [s EXCEPT !.threw = TRUE]
    ELSE [s EXCEPT !.parts = Append(@, Part(step, block))]

openReasoning(s) ==
    IF s.reasoningOpen THEN s
    ELSE LET started == enqueue(s, "start", Reasoning)
         IN [started EXCEPT !.reasoningOpen = ~started.closed]

\* onLine of a step_update, onResume, onDiverged and the notice that an image
\* was not looked at.
Status(s) ==
    LET opened == openReasoning(s)
    IN IF opened.threw THEN opened ELSE enqueue(opened, "delta", Reasoning)

\* Mutant of closeReasoning: the status block is only closed on success.
closeReasoningNever(s) == s

closeReasoning(s) ==
    IF s.reasoningOpen THEN enqueue(s, "end", Reasoning) ELSE s

controllerClose(s) == [s EXCEPT !.closed = TRUE]

emitAnswer(s, text) ==
    IF text = <<>> THEN s
    ELSE LET started == enqueue(s, "start", Answer)
             told    == enqueue([started EXCEPT !.text = text], "delta", Answer)
         IN enqueue(told, "end", Answer)

Succeed(s, response, uninspected) ==
    LET shown == closeReasoning(IF uninspected THEN Status(s) ELSE s)
        said  == emitAnswer(shown, normalizeResponseText(response))
    IN controllerClose(enqueue(said, "done", 0))

\* TurnError and AgyAttachmentError become an error part.
Fail(s) == controllerClose(enqueue(closeReasoning(s), "error", 0))

\* An abort, and whatever is not mapped, is thrown at the reader as it is.
Abort(s) == controllerClose(s)

\* attachmentErrorStream: a turn refused before the runner is touched.
Refused == controllerClose(enqueue(Started, "error", 0))

\* doGenerate: what a reader that drains the stream returns, if it returns.
doGenerate(s) ==
    LET deltas == {i \in DOMAIN s.parts : s.parts[i] = Part("delta", Answer)}
    IN IF deltas = {} THEN <<>> ELSE s.text
=============================================================================
