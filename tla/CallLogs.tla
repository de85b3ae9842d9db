------------------------------- MODULE CallLogs -------------------------------
(***************************************************************************)
(* The logs opencode turns leave in a worktree that several processes      *)
(* share, and the sweeps every turn starts with: a group of logs per call, *)
(* loose logs where no group can be made (packages/opencode-adapter/src/   *)
(* diagnostics.ts).  The functions are synchronous; other processes come   *)
(* between their system calls.                                             *)
(***************************************************************************)
EXTENDS Naturals, FiniteSets

CONSTANTS
    Proc,             \* processes that run one turn at a time
    Week,             \* DIAGNOSTICS_MAX_AGE_MS, in ticks of the clock
    MaxGroups,        \* MAX_CALL_GROUPS
    MaxLoose,         \* MAX_FALLBACK_ENTRIES
    MaxCalls,         \* bound: turns started
    MaxClock          \* bound: last tick of the clock, which never steps back

Call == 1 .. MaxCalls

VARIABLES
    clock,
    calls,         \* turns started so far
    turn,          \* per process: the step of its turn, its call id, where its
                   \*   log is, the entries its sweep has condemned, and whether
                   \*   it wrote its log after another sweep had condemned it
    group,         \* call groups: none, open, done or pruned; the summary's mtime
    loose          \* loose logs: none, kept or pruned; their mtime

vars == <<clock, calls, turn, group, loose>>

Entry(state) == [state |-> state, at |-> clock]

NoTurn == [step |-> "idle", id |-> 0, log |-> "none", judged |-> {}, risk |-> FALSE]

Init ==
    /\ clock = 0 /\ calls = 0
    /\ turn = [p \in Proc |-> NoTurn]
    /\ group = [c \in Call |-> Entry("none")]
    /\ loose = [c \in Call |-> Entry("none")]

At(p, step) == turn[p].step = step

Tick ==
    /\ clock < MaxClock
    /\ clock' = clock + 1
    /\ UNCHANGED <<calls, turn, group, loose>>

\* A turn begins with a new call id (generateCallId).
Begin(p) ==
    /\ At(p, "idle") /\ calls < MaxCalls
    /\ calls' = calls + 1
    /\ turn' = [turn EXCEPT ![p] = [NoTurn EXCEPT !.step = "listing", !.id = calls + 1]]
    /\ UNCHANGED <<clock, group, loose>>

\* What a sweep removes from S: what is too old, and the oldest of the rest
\* beyond the limit (of equals, any).
Victims(S, entry, limit) ==
    LET old  == {c \in S : clock - entry[c].at > Week}
        rest == S \ old
        Oldest(E) == \A e \in E, kept \in rest \ E : entry[e].at <= entry[kept].at
        size == Cardinality(rest)
    IN {old \cup E : E \in {F \in SUBSET rest :
            Oldest(F) /\ Cardinality(F) = IF size > limit THEN size - limit ELSE 0}}

Remove(S, entry) ==
    [c \in DOMAIN entry |-> IF c \in S THEN [entry[c] EXCEPT !.state = "pruned"]
                            ELSE entry[c]]

\* Mutant of Completed: a directory is a group, summary or not.
CompletedOrOpen == {c \in Call : group[c].state \in {"open", "done"}}

\* listCompletedCallGroups: a group without a summary is still in use.
Completed == {c \in Call : group[c].state = "done"}

\* Mutant of ListGroups: the oldest beyond the limit are kept.
ListGroupsByAge(p) ==
    /\ At(p, "listing")
    /\ turn' = [turn EXCEPT ![p].step = "removing",
                    ![p].judged = {c \in Completed : clock - group[c].at > Week}]
    /\ UNCHANGED <<clock, calls, group, loose>>

\* pruneDiagnosticsUnder and pruneCallGroups look first ...
ListGroups(p) ==
    /\ At(p, "listing")
    /\ \E victims \in Victims(Completed, group, MaxGroups) :
          turn' = [turn EXCEPT ![p].step = "removing", ![p].judged = victims]
    /\ UNCHANGED <<clock, calls, group, loose>>

\* ... and remove what they found.
RemoveGroups(p) ==
    /\ At(p, "removing")
    /\ group' = Remove(turn[p].judged, group)
    /\ turn' = [turn EXCEPT ![p].step = "sweeping", ![p].judged = {}]
    /\ UNCHANGED <<clock, calls, loose>>

Kept == {c \in Call : loose[c].state = "kept"}

\* Mutant of ListLoose: once there are too many, all of them go.
ListLooseAll(p) ==
    /\ At(p, "sweeping")
    /\ turn' = [turn EXCEPT ![p].step = "unlinking",
                    ![p].judged = IF Cardinality(Kept) > MaxLoose THEN Kept ELSE {}]
    /\ UNCHANGED <<clock, calls, group, loose>>

\* pruneFallbackDiagnostics (and pruneLooseTier3Logs, over another directory)
\* looks at every loose log, whoever it belongs to ...
ListLoose(p) ==
    /\ At(p, "sweeping")
    /\ \E victims \in Victims(Kept, loose, MaxLoose) :
          turn' = [turn EXCEPT ![p].step = "unlinking", ![p].judged = victims]
    /\ UNCHANGED <<clock, calls, group, loose>>

\* ... and removes what it found, written in the meantime or not.
RemoveLoose(p) ==
    /\ At(p, "unlinking")
    /\ loose' = Remove(turn[p].judged, loose)
    /\ turn' = [turn EXCEPT ![p].step = "logging", ![p].judged = {}]
    /\ UNCHANGED <<clock, calls, group>>

\* resolveAttemptLogPath: a log in the group of the call ...
OpenGroup(p) ==
    /\ At(p, "logging")
    /\ group' = [group EXCEPT ![turn[p].id] = Entry("open")]
    /\ turn' = [turn EXCEPT ![p].step = "running", ![p].log = "group"]
    /\ UNCHANGED <<clock, calls, loose>>

\* ... or a loose one where the directory cannot be made.
OpenLoose(p) ==
    /\ At(p, "logging")
    /\ loose' = [loose EXCEPT ![turn[p].id] = Entry("kept")]
    /\ turn' = [turn EXCEPT ![p].step = "running", ![p].log = "loose"]
    /\ UNCHANGED <<clock, calls, group>>

\* A sweep has condemned the loose log and has not removed it yet.
Condemned(c) == \E q \in Proc : At(q, "unlinking") /\ c \in turn[q].judged

\* agy says something, and the runner appends it to the log.
WriteLog(p) ==
    /\ At(p, "running") /\ turn[p].log = "loose" /\ loose[turn[p].id].state = "kept"
    /\ loose' = [loose EXCEPT ![turn[p].id] = Entry("kept")]
    /\ turn' = [turn EXCEPT ![p].risk = @ \/ Condemned(turn[p].id)]
    /\ UNCHANGED <<clock, calls, group>>

\* finalizeDiagnostics: writeCallSummary once, before the turn ends.  It makes
\* the group if it can, and the turn does not mind if it cannot.
Finish(p, written) ==
    /\ At(p, "running")
    /\ group' = IF written THEN [group EXCEPT ![turn[p].id] = Entry("done")] ELSE group
    /\ turn' = [turn EXCEPT ![p] = NoTurn]
    /\ UNCHANGED <<clock, calls, loose>>

\* The process dies, or the turn throws what it does not expect: no summary.
Break(p) ==
    /\ ~At(p, "idle")
    /\ turn' = [turn EXCEPT ![p] = NoTurn]
    /\ UNCHANGED <<clock, calls, group, loose>>

Turn(p) ==
    \/ Begin(p) \/ ListGroups(p) \/ RemoveGroups(p) \/ ListLoose(p) \/ RemoveLoose(p)
    \/ OpenGroup(p) \/ OpenLoose(p) \/ WriteLog(p) \/ Break(p)
    \/ \E written \in BOOLEAN : Finish(p, written)

Next == Tick \/ \E p \in Proc : Turn(p)

Spec == Init /\ [][Next]_vars

-----------------------------------------------------------------------------
\* Entries other than c that are no older than c, whether still there or not.
NotOlder(entry, c, states) ==
    {d \in Call \ {c} : entry[d].state \in states /\ entry[d].at >= entry[c].at}

\* The log of a turn that is running is there: in a call group always, whatever its
\* age.  A loose one is missing only if it was not written for a week, or MaxLoose
\* others are as new, or it was written while a sweep had condemned it already.
LogAtHand ==
    \A p \in Proc : At(p, "running") =>
        LET c == turn[p].id
        IN /\ turn[p].log = "group" => group[c].state = "open"
           /\ turn[p].log = "loose" =>
                 \/ loose[c].state = "kept" \/ turn[p].risk
                 \/ clock - loose[c].at > Week
                 \/ Cardinality(NotOlder(loose, c, {"kept", "pruned"})) >= MaxLoose

\* However the sweeps of several processes overlap, a completed group is pruned
\* only if it is too old or MaxGroups others completed at its time or later;
\* and the groups no sweep has condemned yet stay within the limit and one more
\* for each process.
RetentionExact ==
    /\ \A c \in Call : group[c].state = "pruned" =>
          \/ clock - group[c].at > Week
          \/ Cardinality(NotOlder(group, c, {"done", "pruned"})) >= MaxGroups
    /\ LET condemned == UNION {turn[p].judged : p \in {q \in Proc : At(q, "removing")}}
       IN Cardinality(Completed \ condemned) <= MaxGroups + Cardinality(Proc)

-----------------------------------------------------------------------------
\* timeout-recovery-prd.md 95 and 144: retention never deletes the logs of active
\* executions.  Of a loose log the code cannot tell that its turn is running.
ActiveLogsKept ==
    \A p \in Proc : At(p, "running") /\ turn[p].log = "loose" =>
        loose[turn[p].id].state = "kept"
=============================================================================
