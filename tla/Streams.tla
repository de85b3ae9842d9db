------------------------------- MODULE Streams -------------------------------
(***************************************************************************)
(* One turn as its host sees it, shown by either bridge: agy's lines pass  *)
(* through the tap of the attempt (stream-tap.ts, createTap of the pi      *)
(* turn.ts) into the stream, the turn retries once at most, and ends with  *)
(* a response, a mapped error, an abort or an error nobody expected.  Both *)
(* bridges are fed the same turn.                                          *)
(***************************************************************************)
EXTENDS StreamParts

CONSTANTS
    Deltas,        \* the text deltas of steps; <<>> is a step without text
    Responses,     \* responses of the envelope that are not the streamed text
    MaxSteps       \* bound: steps agy reports in the whole turn

Pi == INSTANCE PiStream
Oc == INSTANCE OpencodeStream

Attempts == {1, 2}

VARIABLES
    turn,          \* the turn: its phase, the attempt that runs or ran last,
                   \*   steps so far; per attempt the line its tap has not
                   \*   seen the end of (empty or one step) and whether the
                   \*   child lives; the answer of a success (empty or one);
                   \*   whether a step came after the end
    pi,            \* what the pi bridge has built
    oc             \* what the opencode bridge has emitted

vars == <<turn, pi, oc>>

Init ==
    /\ turn = [phase |-> "starting", attempt |-> 0, steps |-> 0,
               rest |-> [a \in Attempts |-> {}], alive |-> [a \in Attempts |-> FALSE],
               answer |-> {}, late |-> FALSE]
    /\ pi = Pi!Started
    /\ oc = Oc!Started

Running == turn.phase = "attempt"
Ended == turn.phase = "ended"

\* consume: every step in lines reaches both streams.
Show(lines) ==
    /\ pi' = IF lines = {} THEN pi ELSE Pi!onStep(pi, CHOOSE d \in lines : TRUE)
    /\ oc' = IF lines = {} THEN oc ELSE Oc!Status(oc)

\* runTurn spawns agy, telling first that the history diverged if it did.
Spawn(diverged) ==
    /\ turn.phase = "starting"
    /\ turn' = [turn EXCEPT !.phase = "attempt", !.attempt = 1, !.alive[1] = TRUE]
    /\ pi' = IF diverged THEN Pi!onDiverged(pi) ELSE pi
    /\ oc' = IF diverged THEN Oc!Status(oc) ELSE oc

\* A chunk completes the line of a step.
Line(delta) ==
    /\ Running /\ turn.steps < MaxSteps /\ turn.rest[turn.attempt] = {}
    /\ turn' = [turn EXCEPT !.steps = @ + 1]
    /\ Show({delta})

\* A chunk ends before the newline does; the tap keeps the rest.
Partial(delta) ==
    /\ Running /\ turn.steps < MaxSteps /\ turn.rest[turn.attempt] = {}
    /\ turn' = [turn EXCEPT !.steps = @ + 1, !.rest[turn.attempt] = {delta}]
    /\ UNCHANGED <<pi, oc>>

Newline ==
    /\ Running /\ turn.rest[turn.attempt] # {}
    /\ turn' = [turn EXCEPT !.rest[turn.attempt] = {}]
    /\ Show(turn.rest[turn.attempt])

\* agy ends: the tap's exit handler counts the unterminated line, and the
\* runner settles.
Exit ==
    /\ Running
    /\ turn' = [turn EXCEPT !.phase = "between", !.alive[turn.attempt] = FALSE,
                            !.rest[turn.attempt] = {}]
    /\ Show(turn.rest[turn.attempt])

\* The runner settles by envelope or unconfirmed while the child lives.  It
\* destroys the pipe; the tap's exit handler stays.
SettleEarly ==
    /\ Running
    /\ turn' = [turn EXCEPT !.phase = "between"]
    /\ UNCHANGED <<pi, oc>>

\* A child that outlived its attempt ends, whatever the turn has come to.
LateExit(a) ==
    /\ turn.alive[a] /\ ~(Running /\ a = turn.attempt)
    /\ turn' = [turn EXCEPT !.alive[a] = FALSE, !.rest[a] = {},
                            !.late = @ \/ (Ended /\ turn.rest[a] # {})]
    /\ Show(turn.rest[a])

\* Resume once: the hosts are told and agy runs again.
Retry ==
    /\ turn.phase = "between" /\ turn.attempt = 1
    /\ turn' = [turn EXCEPT !.phase = "attempt", !.attempt = 2, !.alive[2] = TRUE]
    /\ pi' = Pi!retryReset(pi)
    /\ oc' = Oc!Status(oc)

\* The envelope repeats what was streamed, with or without a last newline, or
\* says something else.
Said == Responses \cup {pi.attemptText, pi.attemptText \o <<"LF">>}

Succeed(response, uninspected) ==
    /\ turn.phase = "between"
    /\ turn' = [turn EXCEPT !.phase = "ended", !.answer = {response}]
    /\ pi' = Pi!Succeed(pi, response, uninspected)
    /\ oc' = Oc!Succeed(oc, response, uninspected)

\* A verdict other than success, or a conversation that is busy.
Fail ==
    /\ turn.phase \in {"starting", "between"}
    /\ turn' = [turn EXCEPT !.phase = "ended"]
    /\ pi' = Pi!Fail(pi)
    /\ oc' = Oc!Fail(oc)

\* An attachment is refused before the turn starts.
Refuse ==
    /\ turn.phase = "starting"
    /\ turn' = [turn EXCEPT !.phase = "ended"]
    /\ pi' = Pi!Fail(pi)
    /\ oc' = Oc!Refused

\* The caller aborts.  The pi bridge is handed what agy said, if it said
\* anything before it was stopped.
Abort(said) ==
    /\ turn.phase \in {"starting", "between"}
    /\ said # {} => turn.phase = "between"
    /\ turn' = [turn EXCEPT !.phase = "ended"]
    /\ pi' = Pi!Abort(pi, said)
    /\ oc' = Oc!Abort(oc)

\* Anything else that is thrown.
Break ==
    /\ turn.phase \in {"starting", "between"}
    /\ turn' = [turn EXCEPT !.phase = "ended"]
    /\ pi' = Pi!Fail(pi)
    /\ oc' = Oc!Abort(oc)

Advance ==
    \/ \E diverged \in BOOLEAN : Spawn(diverged)
    \/ Exit \/ SettleEarly \/ Retry
    \/ \E response \in Said, uninspected \in BOOLEAN : Succeed(response, uninspected)
    \/ Fail \/ Refuse \/ Break
    \/ \E said \in {{}} \cup {{r} : r \in Said} : Abort(said)

Next ==
    \/ Advance
    \/ \E delta \in Deltas : Line(delta) \/ Partial(delta)
    \/ Newline
    \/ \E a \in Attempts : LateExit(a)

\* Every attempt settles (AlwaysSettles of AgyRun) and runTurn goes on; agy
\* need not say anything, and a child that outlives its attempt need not end.
Fairness == WF_vars(Advance)

Spec == Init /\ [][Next]_vars /\ Fairness

-----------------------------------------------------------------------------
\* A host can follow either stream: its parts nest and nothing comes after the
\* terminal.  Text is never left open; only the pi bridge may leave a thinking
\* block open, and only when narration was its last word.  A part is enqueued
\* on a closed opencode stream, which throws in the host, only if a child
\* outlived the turn with an unfinished line.
PartsNest ==
    /\ WellFormed(pi.events) /\ WellFormed(oc.parts)
    /\ oc.threw => turn.late
    /\ Ended =>
          /\ \A b \in OpenBlocks(pi.events) : pi.content[b].type = "thinking"
          /\ oc.parts[Len(oc.parts)].step \in Terminal => OpenBlocks(oc.parts) = {}

\* The text of the final attempt's blocks, in order.
ShownText ==
    FlattenSeq([i \in 1 .. Len(pi.content) |->
        IF i \in Pi!AttemptBlocks(pi) THEN pi.content[i].text ELSE <<>>])

\* A success shows the answer once in either host, whatever was streamed, cut
\* into blocks or forgotten by a retry before: the text of the last attempt is
\* the response up to line ends and trailing white space.
AnswerIsShown ==
    \A answer \in turn.answer :
        /\ ~turn.late => TrimEnd(Lines(ShownText)) = TrimEnd(Lines(answer))
        /\ Oc!doGenerate(oc) = normalizeResponseText(answer)

\* What the first attempt wrote stays as it was when the turn retries: later
\* steps, the reconciliation, an abort with a response or a late line of the
\* first child change only text after it.
FirstAttemptFrozen ==
    [][\A i \in 1 .. pi.attemptBase : pi'.content[i] = pi.content[i]]_vars

\* Both streams end, however the turn does.
StreamsEnd == <>(pi.ended /\ oc.closed)
=============================================================================
