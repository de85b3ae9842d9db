----------------------------- MODULE MCTurnTraces -----------------------------
(***************************************************************************)
(* What a turn leaves for others to see: the images it stages, the logs it *)
(* keeps, the scratch directory it works in, the parts it shows its host;  *)
(* and the models its host was offered.  The five share no state, so each  *)
(* behaviour is about one of them and the rest stands still.               *)
(***************************************************************************)
EXTENDS StagedImages, FiniteSets, Sequences

CONSTANTS
    PiProc,                        \* the processes of the pi adapter
    MaxGroups, MaxLoose,           \* limits of the sweeps of logs
    MaxCalls, MaxScratchCalls,     \* bounds: turns started
    Deltas, Responses, MaxSteps,   \* as in Streams
    Listing, Ttl, MaxModelClock    \* listings of models, and their age

ASSUME TurnTracesAssumption ==
    /\ IsFiniteSet(Proc)
    /\ MaxGroups \in Nat /\ MaxLoose \in Nat
    /\ MaxCalls \in Nat /\ MaxScratchCalls \in Nat
    /\ Ttl \in Nat \ {0}
    /\ Deltas \subseteq Seq({"word", "CR", "LF"})
    /\ Responses \subseteq Seq({"word", "CR", "LF"})

VARIABLES
    part,                                          \* which of the five it is
    lclock, lcalls, lturn, group, loose,           \* CallLogs
    sclock, scalls, sturn, scratch,                \* ScratchDirs
    shown, pi, oc,                                 \* Streams
    mclock, offered, cache, host                   \* Discovery

Logs == INSTANCE CallLogs WITH
    Proc <- Proc \ PiProc,
    clock <- lclock, calls <- lcalls, turn <- lturn

Scratch == INSTANCE ScratchDirs WITH
    Opencode <- Proc \ PiProc, Pi <- PiProc, MaxCalls <- MaxScratchCalls,
    clock <- sclock, calls <- scalls, turn <- sturn

Stream == INSTANCE Streams WITH turn <- shown

\* Steps without text, with a word, and with the pieces of a line end.
SomeDeltas == {<<>>, <<"word">>, <<"word", "CR", "CR">>, <<"LF">>}
SomeResponses == {<<>>, <<"word", "CR", "LF", "word">>}

Models == INSTANCE Discovery WITH
    Opencode <- Proc \ PiProc, Pi <- PiProc, MaxClock <- MaxModelClock, clock <- mclock

imageVars   == <<clock, file, turn>>
logVars     == <<lclock, lcalls, lturn, group, loose>>
scratchVars == <<sclock, scalls, sturn, scratch>>
streamVars  == <<shown, pi, oc>>
modelVars   == <<mclock, offered, cache, host>>
allVars     == <<part, imageVars, logVars, scratchVars, streamVars, modelVars>>

\* The parts that stand still start from one state only.
MCInit ==
    /\ part \in {"images", "logs", "scratch", "stream", "models"}
    /\ Init /\ Logs!Init /\ Scratch!Init /\ Stream!Init /\ Models!Init
    /\ part # "images" => \A i \in Image : file[i] = Absent
    /\ part # "scratch" => \A d \in Scratch!Dir : ~Scratch!Present(d)
    /\ part # "models" => cache = Models!Missing /\ offered = Models!Silent

Others(rest) == UNCHANGED <<part, rest>>

Images ==
    part = "images" /\ Next /\ Others(<<logVars, scratchVars, streamVars, modelVars>>)
LogFiles ==
    part = "logs" /\ Logs!Next /\ Others(<<imageVars, scratchVars, streamVars, modelVars>>)
Dirs ==
    part = "scratch" /\ Scratch!Next /\ Others(<<imageVars, logVars, streamVars, modelVars>>)
Shown ==
    part = "stream" /\ Stream!Next /\ Others(<<imageVars, logVars, scratchVars, modelVars>>)
Offered ==
    part = "models" /\ Models!Next /\ Others(<<imageVars, logVars, scratchVars, streamVars>>)

MCNext == Images \/ LogFiles \/ Dirs \/ Shown \/ Offered

ShownFairness ==
    WF_allVars(part = "stream" /\ Stream!Advance
               /\ Others(<<imageVars, logVars, scratchVars, modelVars>>))

MCSpec == MCInit /\ [][MCNext]_allVars /\ ShownFairness

-----------------------------------------------------------------------------
\* ImageAtHand is the property of StagedImages itself.

\* While a turn runs its log is there, but for the causes LogAtHand names for a
\* loose one; and groups are pruned exactly as the limits say (CallLogs).
LogsKeptRight == Logs!LogAtHand /\ Logs!RetentionExact

\* Scratch directories are swept, and turns fail over the sweep, only for the
\* causes ScratchDirs names.
ScratchForCause == Scratch!ScratchForCause

\* The parts either host is sent nest (Streams).
PartsNest == Stream!PartsNest

\* The answer of a success is shown once (Streams).
AnswerIsShown == Stream!AnswerIsShown

\* A retry freezes what the first attempt wrote (Streams).
FirstAttemptFrozen == Stream!FirstAttemptFrozen

\* Both streams of a turn end (Streams).
StreamsEnd == part = "stream" ~> (pi.ended /\ oc.closed)

\* What a host offers comes and goes for cause (Discovery).
OffersForCause == Models!OffersForCause

\* What the requirements say of retention and the code does not do (CallLogs).
ActiveLogsKept == Logs!ActiveLogsKept
=============================================================================
