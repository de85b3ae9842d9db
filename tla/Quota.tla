-------------------------------- MODULE Quota --------------------------------
(***************************************************************************)
(* The quota gate of an opencode turn (turn.ts) over the snapshot that a   *)
(* status line leaves on disk: four window files, two per pool             *)
(* (packages/engine/src/quota.ts).  Percentages are integers.              *)
(***************************************************************************)
EXTENDS Integers, FiniteSets

Pool == {"gemini", "3p"}
Window == {"fiveHour", "weekly"}
SnapshotFile == Pool \X Window

DEFAULT_THRESHOLD == 5

\* A reset time is an instant, no string at all, or a string that is no date.
NoTime == -1
NoDate == -2

\* What can be read of a window file.  "unusable" stands for a missing file, for
\* bytes that are no object, and for used or limit that are no finite numbers.
File(readable, used, limit, resets) ==
    [readable |-> readable, used |-> used, limit |-> limit, resets_at |-> resets]

Unreadable == File("unusable", 0, 0, NoTime)

Unknown == -1

\* Mutant of remainingFraction: a limit that is no number to divide by counts
\* as used up.
remainingFractionOfAny(w) ==
    IF w.readable = "unusable" THEN Unknown
    ELSE IF w.limit <= 0 \/ w.used > w.limit THEN 0
    ELSE IF w.used < 0 THEN 100
    ELSE ((w.limit - w.used) * 100) \div w.limit

remainingFraction(w) ==
    IF w.readable = "unusable" \/ w.limit <= 0 THEN Unknown
    ELSE IF w.used > w.limit THEN 0
    ELSE IF w.used < 0 THEN 100
    ELSE ((w.limit - w.used) * 100) \div w.limit

NoSnapshot == {}

\* The snapshot is a set of at most one: the pools of what was readable.
parseSnapshotDir(dir) ==
    LET left == [f \in SnapshotFile |-> remainingFraction(dir[f])]
        Complete(p) == \A w \in Window : left[<<p, w>>] # Unknown
        PoolQuota(p) ==
            IF Complete(p)
            THEN [fiveHour |-> left[<<p, "fiveHour">>], weekly |-> left[<<p, "weekly">>],
                  resetTime |-> dir[<<p, "fiveHour">>].resets_at]
            ELSE [fiveHour |-> Unknown, weekly |-> Unknown, resetTime |-> NoTime]
    IN IF \A f \in SnapshotFile : left[f] = Unknown THEN NoSnapshot
       ELSE {[p \in Pool |-> PoolQuota(p)]}

\* A call without a model asks for "", which is not a Gemini name.
poolForModel(family) == IF family = "gemini" THEN "gemini" ELSE "3p"

\* A date that cannot be parsed compares as never passed.
isStale(snapshot, pool, now) ==
    LET reset == snapshot[pool].resetTime
    IN reset \notin {NoTime, NoDate} /\ reset <= now

decidePool(snapshot, family, now) ==
    LET pool == poolForModel(family)
        q == snapshot[pool]
    IN \/ q.resetTime = NoTime \/ isStale(snapshot, pool, now)
       \/ q.fiveHour >= DEFAULT_THRESHOLD /\ q.weekly >= DEFAULT_THRESHOLD

\* The gate at the head of runTurn: without a snapshot it is open.
GateOpen(dir, family, now) ==
    \A snapshot \in parseSnapshotDir(dir) : decidePool(snapshot, family, now)
=============================================================================
