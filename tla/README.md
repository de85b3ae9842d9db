# TLA+ specifications of agy-bridge

agy-bridge runs the `agy` command line agent as a language-model provider of
two hosts, opencode and Pi. These modules model the part of it that carries
state across callbacks, processes and crashes; TLC checks them on small
instances and TLAPS proves the results listed under [Proofs](#proofs) for every
instance. Paths below are relative to `packages/`.

## The system

| Component | State it keeps | Operations | Talks to |
|---|---|---|---|
| conversation lock, `engine/src/conversation-lock.ts` | one lock file per agy conversation | `acquireConversationLock`, `release` | file system, process table |
| process runner, `engine/src/spawn.ts` | locals of one run, timers, child, attempt log | `runAgyStream`: cap, stall, abort, kill chain, settlement | `agy`, the caller's AbortSignal |
| outcome classification, `engine/src/outcomes.ts`, both `errors.ts` | none | `classifyRun`, `isFallbackAllowed`, `mapClassification` | runner result |
| opencode session store, `opencode-adapter/src/session-store.ts` | a JSON file of bindings (session to conversations with message hashes) | `get`, `getEntry`, `resolve`, `bind`, `rebind`, `prune` | file system, other opencode processes |
| opencode turn, `language-model.ts` `doStream`, `turn.ts` `runTurn` | locals of one call | lookup, prompt choice, lock, at most two attempts, bind or rebind | store, lock, runner, host |
| opencode stream, `language-model.ts`, `stream-tap.ts` | open parts of one stream, the rest of a line | stream parts, `doGenerate`, the tap | turn, host |
| Pi turn and lifecycle, `pi-adapter/src/turn.ts`, `lifecycle.ts`, `session-store.ts` | cached binding per session, pending lookups, registered turns | `runTurn`, `lookupBinding`, `beginTurn`/`endTurn`, recycle | lock, runner, Pi, other Pi processes |
| Pi stream, `pi-adapter/src/stream-simple.ts` | the message under construction, its open blocks | text, thinking, retry, reconciliation, stop, error | Pi turn |
| Pi commands and ask tool | none | `/agy clear`, `AskAgy` | Pi turn, store |
| attachments, `engine/src/attachments.ts` | staged files by content hash | extract, stage, prune | file system, every process of the worktree |
| quota, `engine/src/quota.ts` | snapshot files a status line writes | `parseSnapshotDir`, `decidePool` | turn |
| diagnostics, `diagnostics.ts` | call groups and loose logs on disk | log, summarise, prune | file system, every process of the worktree |
| scratch directories, `workdir.ts`, Pi's `scratch.ts` | directories of turns under one root | make, sweep | file system, both adapters |
| model discovery, `discovery.ts`, `models-cache.ts`, `index.ts`, Pi's `extensions/index.ts` | cache file, list per process | list, cache, serve, reload | `agy models`, other processes |
| model tables, both `models.ts`; `language-model.ts`, `stream-simple.ts`, `ask-tool.ts` | none | registry, variant, thinking level to `--model` | discovery, configuration, turn |
| interactive session, `engine/src/interactive-session.ts` | a terminal | open, read the screen, type | `agy`, a terminal backend |
| configuration, paths, TUI, debug | none shared | | |

A turn of opencode goes: `doStream` hashes the messages and asks the store
which conversation they continue, builds a prompt accordingly and calls
`runTurn`; `runTurn` asks the store again, takes the conversation lock if it is
going to resume, runs agy through the runner, classifies the result, possibly
resumes once after a timeout, and binds or drops the conversation.

What is hard here: the order in which timers, child events and cancellation
arrive in the runner; lock files taken over from dead processes; a
read-modify-write file shared by processes; values read from the store before
an await and used after it; a cache of that file that turns, commands, recycles
and other processes invalidate; and which endings of a turn may change what the
next turn resumes. `PROJECT.json` lists these hazards at their lines.

What makes each component correct: the lock excludes and its wait ends; a run
settles once, whatever the child does, says truthfully why, and leaves no
timer, listener or descriptor; a delivered answer is a success whatever the
log says and an unconfirmed termination is never replayed; the store loses no
update and never holds two baselines for one conversation; a turn spawns at
most one recovery, runs a conversation alone, and changes a binding only for
a delivered or cancelled call; a cached binding is the stored one, and a read
that outlives a recycle changes nothing; a host can follow the stream of a
turn to its end and sees the answer once; what a turn has put on disk is there
while it runs, and sweeps take only what they say; what a host offers is what
agy lists, what is spawned is what was chosen, and an image is used or refused,
never dropped.

## Modules

| Module | Models | Builds on |
|---|---|---|
| `Mutex` | abstract: at most one holder | |
| `ConversationLock` | every system call of the lock, interleaved between processes | refines `Mutex` |
| `AgyRun` | one `runAgyStream` and its child | |
| `Outcomes` | `classifyRun` and the retry policies as operators | |
| `Bindings` | what a store operation computes, as operators | |
| `SessionFile` | abstract: the store with one step per operation | `Bindings` |
| `SessionStore` | lock, read, rename, unlock from several processes | refines `SessionFile` |
| `OpencodeTurn` | the turns of one opencode session | `Bindings` |
| `PiSession` | the turns of one Pi process over its registry and the rows of its store | |
| `Quota` | the quota gate from the window files to the decision, as operators | |
| `Models` | both registries and every way to a `--model` argument, as operators | |
| `Attachments` | the fate of each part of a user turn, as operators | |
| `StreamParts` | what both streams share: parts, well-formedness, normalisation of a text | |
| `PiStream`, `OpencodeStream` | each closure of a stream as a function of the message or the parts | `StreamParts` |
| `Streams` | one turn shown by both: lines, tap, attempts, endings | both |
| `StagedImages` | staging and sweeping of one worktree by several processes | |
| `CallLogs` | groups and loose logs of one worktree, and their sweeps | |
| `ScratchDirs` | the root both adapters make scratch directories in, and its two sweeps | |
| `Discovery` | `agy models`, the cache file, and what each process offers | |
| `ConversationLock_proof`, `AgyRun_proof`, `SessionFile_proof`, `SessionStore_proof`, `OpencodeTurn_proof`, `PiSession_proof` | theorems about the module in the name; `AgyRun_proof` also those about the decisions of `MCOutcomes` | the module |
| `Bindings_proof` | lemmas: what the store operators return for any list | `Bindings` |
| `TurnTraces_proof` | theorems about the parts of `MCTurnTraces` | `MCTurnTraces` |
| `MC*` | instances for TLC; `MCOutcomes` asks the pure operators about every input, and `MCDecisions` puts beside it `SessionFile`; `MCEngine` puts `ConversationLock` and `AgyRun` side by side, `MCTurnTraces` `StagedImages`, `CallLogs`, `ScratchDirs`, `Streams` and `Discovery` | |

Correspondence, in short (the `map` of `PROJECT.json` has the lines):

- **ConversationLock.** `pc[r]` is the place of a request in the loop of
  `acquireConversationLock`; `Create`, `ReadRecord`, `Stat`, `TakeOver`,
  `WriteRecord`, `Release` are its system calls. Requests of one process share
  a thread: `Scheduled` lets another request of the same process step only
  while the first one sleeps or holds. `Crash`, `RecyclePid`, `Age`,
  `LoseWritePermission` and `WriteFails` are the environment; `Faults` and
  `Crashable` turn them on. `stolen` is a history variable: requests whose
  file somebody else unlinked.
- **AgyRun.** `obs` holds the executor's locals that `resolve()` reads,
  `timer` the five timers, `on` the listeners and handles still owned, `pipe`
  the lines written and not read. Each timer callback and each child event is
  an action; `Finish`, `KillOrRecord`, `RequestTermination` are the local
  functions of the same names. Time is the order in which timers fire.
- **Outcomes.** A text is the set of regular expressions that match it. The
  rules stand in the order the code tries them.
- **Bindings / SessionFile / SessionStore.** A session is a sequence of
  bindings; message hashes are numbers. Within a process the promise chain
  runs one operation at a time, so a process is one client. `view` is what a
  client read under its lock.
- **OpencodeTurn.** The locals of a call are the record `turn[t]`; its `pc`
  stops wherever the code awaits. A store operation is one step, as
  `SessionFile` promises; the lock is a mutex with a bounded wait, as
  `ConversationLock` implements; a run of agy is a step that starts it and a
  step that settles it with any verdict, as `AgyRun` and `Outcomes` allow. An
  update may reject before it has written or after (`Stores` in `StoreRejects`),
  as `Release` of `SessionStore` may; the wait for the lock may throw at any time
  (`LockBusy`), for a holder of another process or an error of the directory.
- **PiSession.** `cache`, `pending` and `reg` are `bindingCache`,
  `pendingLookups` and `inFlightTurns`; a slot of `pending` names the turn whose
  read is in flight, and `turn[t].flight` the read a turn awaits. `row` is
  `pi-sessions.json`. A store operation and what its caller does next are one
  step, because the store's promise chain runs the caller's continuation before
  the next operation; `ClearSession` and `ClearThread` are the two halves of
  `/agy clear`, between which other operations do run. `Abort` acts only on a
  run, since nothing else in `runTurn` looks at the signal. An isolated call of
  AskAgy has a store of its own that keeps nothing, and shares the registry.
  `recycled`, `shadowed` and `found` are history variables: the registry was
  recycled during the read; the row changed and nobody told the cache; the row
  that was bound when the call's lookup was answered.
- **Quota.** A window file is a record of what can be read of it; percentages
  are integers. An unknown value of the code (`null`, `undefined`) is a
  constant outside the range.
- **Models.** An agy id is a base and an effort, as `splitEffort` takes it
  apart. A registry is a function from the ids of the picker to entries; the
  order in which a picker shows them is left out. An entry is decided by where
  its base is named first, because in opencode's code the map and the list part
  company when a base is listed twice.
- **Attachments.** A part has a type, a class of media type under one of two
  keys, a class of payload, and what a request to its address gives. `Turn` is
  the whole way of the parts of one turn: gate, extraction, prompt, warnings.
- **Streams.** `pi` and `oc` are what each bridge has built, as values;
  `PiStream` and `OpencodeStream` compute the next one, and the actions of
  `Streams` are the lines, attempts and endings that both bridges are fed.
  `rest` is the unfinished line in a tap. A text is a sequence of words and
  line ends.
- **StagedImages, CallLogs, ScratchDirs.** One action per system call that
  others can come between; `judged` is what a sweep has listed and not yet
  removed. `risk` is a history variable: the image staged, or the loose log
  written, had been condemned by a sweep already. Loose logs are swept in two
  steps like groups (`ListLoose`, `RemoveLoose`), and logs may be opened or written
  in between. A process may die at any step (`End`, `Break`).
- **Discovery.** A list carries the instants at which agy printed it and at
  which the cache says so. A write is opening (which truncates) and writing;
  `Exit` between the two is a crash.

The definitions commented `Mutant of ...` are wrong variants of the definition
that follows them, each a plausible bug. None is used by a specification: they
record which property notices which bug (`mutants` in `PROJECT.json`).

## Runs

Passing:

- `engine_all`: the lock and the runner share no state, so each behaviour moves one
  of them. The lock: three requests, two in one process and one in another that
  may die, records that cannot be written, a directory that turns read-only, pids
  that are reused. MutualExclusion, the refinement of Mutex, and AcquireReturns
  under weak fairness of the acquisition steps and strong fairness of the poll
  timer (other requests of the process may occupy the thread, but its event
  loop serves an expired timer). With one process dying there is one waiter
  process, so no takeover can race; that is exactly the condition. The runner:
  kill and detach, signal aborted before or after the call, three
  lines of output. Enough for init, an event and an envelope in every order
  with exit and close; each timer fires at most once except the stall timer,
  which every line restarts. `RunSound` is the types, the resources given back
  and the detached child left alone; `CausesTold` that a run blames one cause
  and says whether it saw the child end. Fairness: armed timers fire, emitted
  events are delivered, the executor starts. The child is never assumed to do
  anything.
- `decisions_all`: a behaviour asks one question or works on the store. Every
  question `MCOutcomes` can ask is a state. Runs: all
  combinations of facts and patterns (`JsonTexts` and `Triggers` limit the
  model's text and the trigger to representative values). Quota: readable and
  unreadable windows around the threshold, out of range, with reset times
  past, now, coming, absent or garbled. Models: up to three rows of two
  efforts of one base, the base itself and the default, five configurations,
  and every place a selection may arrive in. Parts: one or two of every class.
  The store: one session, four conversations against the cap of three,
  four threads of which two share all but the first message, a retention of
  two ticks in a clock of three: expiry, eviction, replacement and adoption
  meet each other. `ListsSound`: types, cap, one baseline per conversation, and
  the entry just bound survives.
- `store_shared`: two processes, two sessions, every writing operation, one
  crash, failing writes and loss of permission. `StoreSound`: types, and a lock
  file belongs to an operation under way. Fairness: live processes run.
- `turn_session`: a main call, a side call and a follow-up of the main one that
  contend for one conversation, on an empty or a bound session. `TurnsSound`:
  types, and no two runs in one conversation; `StoreForCause`: hashes are stored
  only for a run that delivered or a call that was cancelled, also where the call
  then ends with the store's error, and no interrupted or cancelled call costs a
  conversation; `CancelledOpensNothing`: a cancelled call starts no conversation
  and makes no recovery.
  Fairness: store operations, the lock wait and a run of agy end, which the runs
  above show of their modules.
- `pi_session`: two overlapping calls out of a provider turn and a delegation
  of AskAgy, each on its own key, from a session that continues its binding or
  one whose first message was edited; a clear, recycles, aborts, and another
  process that drops the session's row. Two calls are enough for one to join,
  outlive or be recycled away from the lookup of the other and to contend for
  its conversation; the proofs below cover any number.
  `BindingsChangeForCause`: a call drops a row only if it failed on the
  conversation in it, or its own recovery failed, or the row changed after its
  lookup. Fairness as for
  `turn_session`; nobody is obliged to call, cancel, clear or recycle.
- `turn_traces`: five parts that share no state, so each behaviour moves one of
  them. Images: three processes and one image (images do not influence each
  other), a retention of one tick in a clock of two, so that a file may be new,
  just too old, or older. Logs: two processes, four calls against limits of one
  group and one loose log; a log in a group stays whatever its age, a loose one
  of a running turn goes for its age, its rank, or because a sweep had condemned
  it before it was last written. Scratch: two opencode processes and one Pi process,
  three calls. Streams: three steps out of none, a word, a word before two CRs
  and an LF, so that line ends are cut between steps, blocks and attempts, in two
  attempts whose children may outlive them; a response that is empty, what was
  streamed, the same with a line end more, or something else.
  `AnswerIsShown` compares what a reader sees: both texts line by line (`Lines`),
  without trailing white space. Models: three processes, one listing that agy may
  stop giving, and a lifetime of one tick. Fairness: a turn whose attempt has
  settled goes on, and every attempt settles (AlwaysSettles of `AgyRun`);
  nothing is assumed of agy, sweeps or processes. `StreamsEnd` is that both
  streams then end.

Expected to be violated, one statement of the repository each:

- `lock_takeover_race` (`conversation-lock.ts:105-106`): the takeover unlinks
  whatever is at the path, also the lock that another waiter has just created.
- `turn_late_spawn` (`timeout-recovery-prd.md:70,80`): a call cancelled while it
  waits for the conversation lock spawns agy once it has the lock; the run is then
  killed. The abort is checked before the wait (`turn.ts:436`) and not after (451).
  `CancelledOpensNothing` says that this is the only case: such a call continues
  a stored conversation, it starts none and recovers none.
- `logs_active_loose` (`timeout-recovery-prd.md:95,144`): the sweep of loose logs
  takes the log of a running turn by its rank. `LogsKeptRight` says when.
- `turn_rebind_all` (`CHANGELOG.md:181`): a failure without a conversation id
  drops every binding of the session.
- `pi_failed_lookup` (`lifecycle.ts:8-9`): a store read that rejected keeps its
  slot among the pending lookups, so that later turns of the key fail with it
  although no read is under way, until a recycle or until a turn that was
  already past its lookup caches a binding.
- `pi_isolated_resumes` (`ask-tool.ts:21-23`): isolated calls of AskAgy bind
  nothing in the store and share one cache slot, through which the second one
  resumes the conversation of the first.

### Limits worth knowing

What the code does at the edges of the properties, each met as a counterexample
or while a definition was written. Locks and store: both locks spin without a
deadline on a dead or stale file that cannot be unlinked, although
`conversation-lock.ts:12-13` and `101-102` promise a bounded wait (`AcquireReturns`
and `OperationsReturn` except exactly that);
two requests believe they hold a conversation once a live hold outlasts the
stale age (of all who do, at most one still has its file: `OneUnstolenHolder`);
two
takers of one stale store lock can lose an update; a clock set back makes the
entry just bound the oldest, so that it is evicted (the clock of `SessionFile`
never steps back); `resolve` counts a baseline that matches all but its first
message as much as an exact prefix of the same length.

Runner: a signal aborted before the call combined with `detachOnAbort` throws
out of the executor, which ends the call (`AlwaysSettles`) and leaves the cap timer
to kill the child later and the last timer to throw (`FinalThrows`); no adapter
passes `detachOnAbort`, and no property denies it; after a detached child's `exit` its unread
lines go to a closed descriptor; an interrupted envelope error is not tried
against the log rules; the `exit` handler drops the signal argument that
`timeout-recovery-prd.md:110` wants reported; a watchdog that fires in the
100 ms between the SUCCESS envelope and the settlement makes a delivered answer
a timeout.

Turns: a store that rejects replaces the answer of a delivered call and the
AbortError of a cancelled one (`StoreRejects`), and if only the release of its
lock failed, the binding was made or dropped all the same: success hashes may
be stored for a call the host sees fail; a call cancelled during its wait for the
lock still spawns (`turn_late_spawn`); `rebind` of the Pi bridge
deletes the row of its key whatever it names, although
`timeout-recovery-prd.md:72,141` would keep a usable binding: a diverged call whose
own new conversation times out, and whose recovery fails, deletes the binding of
the earlier conversation, and a failing resumed call that of an overlapped call
(`BindingsChangeForCause` holds with these two exceptions, its second and third
disjunct, and `pi_session` fails without either); an opencode turn that waited for the lock goes on with the
binding it chose before, even if that was re-bound meanwhile, and its prompt
was chosen by a separate lookup that may not fit (`language-model.ts:523`); a
conversation's lock is released when its run settles, while a child that
outlived the settlement may still write; a Pi turn cancelled in its recovery
before agy has named the conversation again persists nothing; `/agy clear`
whose second rebind rejects leaves the cached binding of the session it has just
cleared; two first calls of AskAgy on one thread create two conversations, and
the later binding wins.

Streams: a Pi turn aborted with a response after several blocks repeats the
earlier text in the block that is open; a late line of a surviving child
changes Pi's message after its terminal, and throws in opencode's closed
controller (`threw`, which `PartsNest` allows for that cause only); a thinking
block may be open at Pi's terminal; a CR and an LF cut apart between two blocks
stay CR and LF in what Pi shows, because each block is normalised by itself; so do
CRs before a CR LF that the normalisation of the whole folds once only. This is
why `AnswerIsShown` compares lines, in which any CRs before an LF belong to the
line end, and not normalised texts.

Files: an image staged a week ago and attached again is reused with its old
mtime and deleted by the sweep of the same turn (`ImageAtHand` excepts it);
a process that dies in `writeFileSync` leaves a partial image, which refuses that
image to every turn until a sweep takes it a week later, and so does a
concurrent first staging while it lasts; `pruneScratch` reads a directory
outside any `try`, so that one which has vanished or is not ours fails the
turn (`Throw`); a call group without a summary is never pruned; the sweep of
loose logs takes active ones that are too old or beyond its limit
(`logs_active_loose`), and, because it looks at all before it removes the excess,
also one that another process wrote since (`risk`).

Decisions: a reset time that is no date blocks the pool until the snapshot is
rewritten, the reset time of the five-hour window also stands for a weekly one
that is exhausted, and a call without a model asks the third-party pool; when agy
lists a base both bare and with an effort, opencode's picker loses ids
(`OffersWhatAgyLists` excepts it); a configured model without `high` falls back
to the first effort in the file, where `models.ts:196-198` says the highest; Pi
spawns the bare base id of a collapsed model when no thinking level is asked
for; listing `default` with an effort changes what the default entry means; a
file part whose `data` is a web address is decoded as base64; a file part
declared by `mimeType` is staged by opencode and also reported as dropped
(`ImagesAllOrNone` excepts it). opencode keeps the list of its first
discovery, the static one too, for the life of the process; a clock set back
keeps the cache of models fresh for longer; Pi's branch for cached rows cannot
be reached.

### Bounds

`MaxPolls`, `MaxSpins` and `MaxTries` stand for the deadline, which may
pass earlier at any turn of the loop; one turn more already repeats the same
states. `MaxLines`, `MaxSteps`, `MaxCalls`, `MaxScratchCalls`, `MaxClock`,
`MaxModelClock` and the number of requests, clients and calls bound the state
space and nothing in the guards of the code. `Week`, `Ttl`, `MaxGroups`,
`MaxLoose` and `MaxBindings` are the code's own limits, made small enough to be
reached.

## Proofs

All safety invariants, action properties and refinements that the passing runs
check are theorems. Assumptions are the named ASSUMEs of the modules and what a
theorem states itself. `FileAssumption` and
`TurnAssumption` type the operations and the stored lists a run starts from,
`TurnTracesAssumption` says that there are finitely many processes, that the
limits are numbers and that agy's texts are sequences of words, CRs and LFs; none
restricts what the actors do.

- `ConversationLock_proof`: `TypeCorrect` needs `SleepBound` beside the types (a
  sleeper has polls left). `OneUnstolenHolder` holds under every fault; the
  invariant is that a request inside and not robbed owns the file.
  `LockMutualExclusion` and `LockImplementsMutex` hold as long as nobody is robbed
  (`stolen` stays empty), and the rest says when that is so. Of two processes
  whose live holds do not outlast the stale age nobody is robbed, whichever dies,
  inside a hold too (`OfTwoProcessesNobodyIsRobbed`): who reaches the takeover has
  seen the file of a dead process, is the only process left, and the others of its
  process cannot come between (`SurvivorInv`). That is the case of the run
  `engine_all`, for any number of requests (`LockOfTwoProcesses`). Of more
  processes nobody is robbed while none dies (`LockWithoutDeaths`): by
  `NoTakeover` a takeover is then reached only for a file whose release was
  refused, and is refused as well. The remaining case, one death and two
  survivors, is false: `lock_takeover_race`.
- `AgyRun_proof`, first part, for any stall window, callers and number of lines:
  `RunIsSound`, `CausesAreTold`, `EnvelopesReach`, `SettlesOnce`. The promise
  is settled by copying the executor's locals, so the invariant is about the
  locals before that: while the promise is pending each recorded request has its
  cause, each armed timer of the kill chain a recorded request (`PendingInv`);
  afterwards the copy no longer changes and what it says stays true of a child
  that lives on (`ToldInv`). `EnvelopeInv` is that an envelope is the last line
  the child writes, hence read or still at the end of the pipe.
- `AgyRun_proof`, second part: what is decided of a run and a turn.
  `classifyRun` takes the first rule that matches, so `RulesAre` unfolds the
  fourteen rules once and `OneDecides` says which one decides;
  `SuccessForCause`, `FailuresForCause` and `OneReplay` go through them.
  `GateStops` says exactly when the quota gate stops a turn, for any contents of
  the window files and any instant: the fractions of the code are integers here,
  and `LessThanATwentieth` is the arithmetic between them. `TurnOfParts` is the
  fate of any number of parts, where the run has one or two. `PickersOffer` says what both registries stand
  for, whatever rows agy lists, from what is named for one base
  (`NamedFirst`, `EffortsListed`). `ChosenOrWarned` says what is spawned for any
  entry and any choice of variant, and `PayloadsWellNamed` that neither the
  table nor a config whose own variants are well named brings in a variant that
  stands for another effort; a config that names them otherwise gets what it
  says. `GateIsOpen`, `ImagesTogether`, `PickersAreTrue` and
  `EffortsAreHonoured` are these results for the questions of `MCOutcomes`.
- `Bindings_proof`: what `Filter`, `RemoveAt`, `Bind`, `Drop`, `Fresh` and
  `Resolve` return for any list of entries. `Filter` keeps places, and that
  there is a least and a next place follows from the finiteness of intervals
  (`LeastNatural`), without an induction theorem. The next two modules rest on
  these lemmas, and `TurnTraces_proof` takes the first from here.
- `SessionFile_proof`: `ListsStaySound` and `SiblingsKeepTheirs`, for any
  sessions, conversations, operations, cap and retention.
- `SessionStore_proof`: as long as no process at work has its lock taken from it
  (`Theft`), at most one client is inside and its view is the file
  (`StoreInvariant`), so `NoInterleaving`, and every step maps to a step of
  `SessionFile` or a stutter (`StoreImplementsSessionFile`), for any number of
  processes and operations, with deaths anywhere. There is no theft between two
  processes, one of which may die inside a cycle (`TwoDoNotSteal`,
  `StoreOfTwo`), nor among any number that die between their cycles only
  (`SurvivorsDoNotSteal`, `StoreOfSurvivors`); all of them assume that no process
  is suspended until its lock is stale. A suspended process, and two takers of one
  dead process's lock, are the cases in which an update can be lost.
  `StoreIsSound` holds with every fault, deaths and suspensions included.
- `OpencodeTurn_proof`: for any calls, threads, conversations and stored lists,
  `TurnsAreSound`, `LockNeverLeaked`, `RecoveryEarned`, `CancelledOpens` and
  `BindingsForCause`, with a store that may reject before or after its write. The invariant `IInv` ties what a call has spawned to where
  it stands (`SoundInv`), and has the ideas of `PiSession_proof` below: a call
  at work on a resumed conversation holds its lock (`LockInv`, `OwnInv`), and
  one at work on a conversation it started is the only one to know it
  (`PrivateInv`), which is why the missing lock does no harm. `SpawnSteps` lists
  the places a spawn can come from. The half of `BindingsForCause` about
  conversations that survive assumes a list below its cap: at the cap a
  successful `bind` evicts the oldest binding, which is no fault of the call that
  lost it. The run has too few calls to evict.
- `PiSession_proof`: everything the run `pi_session` checks but liveness, for
  any calls, keys, conversations and rows: `TypeCorrect`, `OneRun`, `NoLeak`,
  `CacheIsCoherent`, `LateResultsStayOut`, `BindingsForCause`. The inductive
  invariant has three ideas. `LockInv`: a call at work on a conversation it
  resumed holds its lock. `PrivateInv`: a conversation a call has started itself
  is in no row, no cached binding and no other call's locals, because binding it
  is the last thing the call does; this is what makes it safe to start one
  without its lock. `SlotInv`: a read that a recycle has passed is in no slot.
  `KnownInv` (whatever is known has been created) keeps the name of a new
  conversation new. The proof of `PrivateInv` goes through `TurnsTraced` and
  `StoreTraced`, which say of each step where a call's and the store's knowledge
  of a conversation comes from. It is assumed that agy never takes a name that
  is in use and that other processes do not bind conversations this one starts.
- `TurnTraces_proof`: a step of the whole is a step of one part
  (`StepOfEachPart`), so each part has an invariant of its own, for any finite
  set of processes and any limits and ages.
  - `StagedImageStays`: an image whose turn has no excuse is on disk, at least as
    new as when the turn found it, and condemned by no sweep (`ImageInv`).
  - `ScratchSweptForCause`: what a sweep has judged old stays old, since nothing
    makes a directory younger, and only Pi removes any (`ScratchInv`).
  - `ModelsOfferedForCause`: a list at rest or in the hands of a process carries
    a stamp no later than its printing (`ModelInv`).
  - `LogsAreKeptRight`: a pruned or condemned group was complete and had a cause
    (`GroupInv`). A loose log that is gone or condemned had a cause too, if its
    turn is running and has not written it since it was condemned; nothing condemns
    a log before it is opened (`LooseInv`). The bound on groups is the hard half. Several
    sweeps may condemn from different listings, and a turn may add its group
    between listing and removal. `RoomInv` says that whichever set Q of the
    sweeps goes on to remove, the groups that are spared, one group for each of
    Q and one for each turn that has removed and not yet completed are within the
    limit plus the number of processes. The invariant has to hold for every Q
    because a process may die between condemning and removing.
  - `HostsCanFollow` and `FirstAttemptStays`: the parts enqueued so far nest and
    leave open exactly the blocks the bridge's locals say are open (`Nested`,
    with `PiSound`, `OcLive` and `OcDone`), so each closure of a stream opens
    only what is closed and closes only what is open; and a second attempt
    writes behind the place where it began. Neither depends on the texts.
  - `AnswerShownOnce`, in opencode: no text is enqueued before the response is
    known, and then in one piece (`AnswerInv`), so that `doGenerate` returns that
    piece (`OcSaysAnswer`).
  - `AnswerShownOnce`, in Pi: until the turn ends the blocks of the attempt, joined,
    are the text agy has streamed in it (`Abreast`, kept by `AbreastStep` and
    `AbreastRetry`), and the reconciliation leaves blocks that read as the
    response (`ReconcileReads`): the appended answer, the answer in the last
    block and nothing in the others, or the streamed blocks normalised one by
    one. The last case is the hard one, since normalising the parts is not
    normalising the whole. `After(text, z)` is what is read when `text` comes
    before what was read as `z`; it composes (`AfterJoins`), folding one
    block does not change it whatever follows (`FoldReadsAlike`, hence
    `FlatFolded`), and neither does a trimmed end at the end of all
    (`NormalReadsAlike`). After a late line of a surviving child nothing is
    claimed of Pi.

The lemmas about texts are inductions. A theorem that takes the induction
predicate as an operator cannot be applied with these provers, but
`Upwards` does with sets: numbers that contain 0 and with each the next up to `n`
contain all up to `n`, because a set of numbers has a least one. `Recursion`
finds the function a recursive definition describes in the same way, and
`TextInduction` is `Upwards` for the length of a text.

Only model-checked: liveness under fairness (`AcquireReturns`, `AlwaysSettles`,
`OperationsReturn`, both `TurnsEnd`, `StreamsEnd`), which is out of the prover's
reach.

## Plan

Nothing that the runs check is left to prove within reach of the prover. What
would extend the project is named in the next section.

## Not modelled

- `interactive-session.ts`: it types into a terminal and reads the screen; what
  it does depends on the wording agy prints and on which terminal program is
  installed, and neither is in the repository.
- Configuration, paths, the TUI, debug lines: options parsed one by one, a
  settings dialog and text. They share no state with anything above. Of the
  configuration, the models a user adds are in `Models`.
- The layout of prompts and seeds (`renderSeed`, the text of `messages.ts`),
  the wording of narration and of errors, the contents of call summaries.
- A reader that cancels opencode's stream, the order of the steps inside
  `runTurn` before the first attempt (each step is in a module of its own), and
  removals that fail inside a sweep.
- A composition of runner, lock and turn in which the child that outlives its
  run writes on. The code does nothing about it: the lock is gone by then. The
  limit is stated above.
