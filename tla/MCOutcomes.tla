------------------------------ MODULE MCOutcomes ------------------------------
(***************************************************************************)
(* The decisions of a call that depend on nothing but their input, each    *)
(* asked about every input: the verdict on a run (Outcomes), the quota     *)
(* gate (Quota), the models offered and spawned (Models), the parts of a   *)
(* user turn (Attachments).                                                *)
(***************************************************************************)
EXTENDS Outcomes, Quota, Models, Attachments

CONSTANTS
    JsonTexts,       \* the sets of patterns the model's own text may match
    Triggers         \* the recorded triggers to try

VARIABLES question, answer

exchange == <<question, answer>>

Unanswered == <<>>

\* How did the run end?  An envelope error is a line of the log too: the patterns
\* it shares with the log scan match there as well.
AskRun ==
    \E envelope \in {"none", "success", "blank", "error", "other"},
       error \in SUBSET ErrorPattern, json \in JsonTexts,
       exit \in {"0", "1", "124", "null"}, spawn \in {"none", "ENOENT", "other"},
       timedOut, stalled, unconfirmed, artifact, expect \in BOOLEAN,
       trigger \in Triggers, diagnostic \in SUBSET Pattern :
       /\ envelope # "error" => error = {}
       /\ question = [about |-> "run",
                      run |-> [exitCode |-> exit, spawnError |-> spawn,
                               timedOut |-> timedOut, stalled |-> stalled,
                               terminationUnconfirmed |-> unconfirmed,
                               terminationTrigger |-> trigger,
                               artifact |-> artifact, expectArtifact |-> expect,
                               envelope |-> envelope, error |-> error,
                               diagnostic |-> diagnostic,
                               json |-> json \cup (error \cap Pattern)]]

\* May the model run, at the instant Now?  Around the threshold of 5 per cent, out of
\* the range of a percentage, and with reset times around Now.
Now == 2
Unusable == {Unreadable, File("object", 50, 0, 3)}
FiveHourFiles ==
    Unusable \cup {File("object", u, 100, r) : u \in {95, 96}, r \in {NoTime, NoDate, 2, 3}}
             \cup {File("object", u, 40, 3) : u \in {-10, 41}}
WeeklyFiles == Unusable \cup {File("object", u, 100, NoTime) : u \in {95, 96}}

AskQuota ==
    \E dir \in [SnapshotFile -> FiveHourFiles \cup WeeklyFiles],
       family \in {"gemini", "other", "default"} :
       /\ \A f \in SnapshotFile :
             dir[f] \in IF f[2] = "fiveHour" THEN FiveHourFiles ELSE WeeklyFiles
       /\ question = [about |-> "quota", dir |-> dir, family |-> family]

\* What do the hosts offer for what agy lists?
Ids == {Bare("pro"), Id("pro", "high"), Id("pro", "low"), Default, Id("default", "high")}

AskPicker ==
    \E rows \in UNION {[1 .. n -> Ids] : n \in 0 .. 3} :
        question = [about |-> "picker", rows |-> rows]

\* What does a turn of the opencode provider spawn?
Users ==
    {<<>>,
     <<ModelConfig(Bare("flash"), TRUE, <<Variant("low", Id("flash", "low"))>>)>>,
     <<ModelConfig(Bare("pro"), TRUE, <<Variant("low", Id("pro", "low")),
                                        Variant("medium", Id("pro", "medium"))>>)>>,
     <<ModelConfig(Bare("pro"), TRUE, <<Variant("high", NoArg),
                                        Variant("low", Id("pro", "low"))>>)>>,
     <<ModelConfig(Id("pro", "high"), FALSE, <<>>), ModelConfig(Bare("pro"), FALSE, <<>>)>>}

AskSpawn ==
    \E id \in Ids \cup {Bare("flash"), Id("flash", "low")}, user \in Users,
       places \in [1 .. 3 -> {"absent", "garbled", "high", "low", "max"}],
       direct \in [1 .. 2 -> {Bare("absent"), Bare("garbled"), Id("pro", "high")}] :
        question = [about |-> "spawn", id |-> id, user |-> user,
                    places |-> places, direct |-> direct]

\* What becomes of the parts of a user turn?
Payload ==
    {<<"bytes", "none">>, <<"tooManyBytes", "none">>, <<"webAddress", "none">>} \cup
    {<<"none", a>> : a \in {"none", "unreachable", "allowed", "noImage"}}
Parts ==
    {[type |-> t, media |-> m, key |-> k, data |-> p[1], address |-> p[2]] :
        t \in {"file", "image", "image-url"}, m \in Media,
        k \in {"mediaType", "mimeType"}, p \in Payload} \cup
    {[type |-> t, media |-> "none", key |-> "mediaType", data |-> "none", address |-> "none"] :
        t \in {"text", "other"}}

AskParts ==
    \E content \in UNION {[1 .. n -> Parts] : n \in 1 .. 2},
       imageInput \in BOOLEAN, adapter \in {"opencode", "pi"} :
        /\ \A i \in DOMAIN content :
              content[i].key = "mimeType" => content[i].type = "file"
        /\ question = [about |-> "parts", content |-> content,
                       imageInput |-> imageInput, adapter |-> adapter]

Ask ==
    /\ answer = Unanswered
    /\ AskRun \/ AskQuota \/ AskPicker \/ AskSpawn \/ AskParts

Answer(about, value) ==
    /\ question.about = about /\ answer = Unanswered
    /\ answer' = <<value>>
    /\ UNCHANGED question

Classify == question.about = "run" /\ Answer("run", classifyRun(question.run))
Gate ==
    /\ question.about = "quota"
    /\ Answer("quota", GateOpen(question.dir, question.family, Now))
Offer ==
    /\ question.about = "picker"
    /\ Answer("picker", [opencode |-> resolveRegistry(<<>>, question.rows),
                         pi |-> piResolveRegistry({}, question.rows)])
Spawn ==
    /\ question.about = "spawn"
    /\ LET entry == resolveModel(question.id, question.user)
           variant == readVariant(question.places)
           direct == readDirectModelId(question.direct)
       IN Answer("spawn", [arg |-> modelArgOf(entry, direct, variant),
                           warned |-> variantFallbackNotice(entry, direct, variant)])
Attach ==
    /\ question.about = "parts"
    /\ Answer("parts", Turn(question.content, question.imageInput, question.adapter))

Decide == Classify \/ Gate \/ Offer \/ Spawn \/ Attach
Decisions == Ask /\ [][Decide]_exchange

Answered(about) == answer # Unanswered /\ question.about = about

signal == question.run
verdict == answer[1]
Classified == Answered("run")
Outcome == verdict.outcome

\* The chain of the runner claimed the run before any evidence is looked at.
Claimed ==
    \/ signal.spawnError = "ENOENT"
    \/ signal.terminationUnconfirmed \/ signal.stalled \/ signal.timedOut
    \/ signal.exitCode = "124"

Delivered ==
    \/ signal.artifact /\ signal.exitCode = "0"
    \/ /\ ~signal.expectArtifact
       /\ signal.envelope = "success" /\ signal.exitCode \in {"0", "null"}

-----------------------------------------------------------------------------
\* A run is a success exactly when it delivered and nothing had claimed it: no
\* word in its log can turn a delivered response into a failure, and no run is
\* a success without evidence.
SuccessIffDelivered ==
    Classified => (Outcome = "success" <=> Delivered /\ ~Claimed)

Corroborated ==
    /\ Outcome = "quota_unavailable" =>
          signal.exitCode # "0" /\ "quota" \in Log(signal)
    /\ Outcome = "transient_unavailable" /\ signal.spawnError # "ENOENT" =>
          signal.exitCode # "0" /\ "transient" \in Log(signal)
    /\ Outcome = "auth_captcha" =>
          "auth" \in signal.diagnostic \/ ErrorMatches(signal, "auth")

\* README 257-267: the three timeout signatures of agy.
TimeoutSignature ==
    \/ /\ signal.exitCode # "0" /\ "wait" \in signal.diagnostic
       /\ signal.envelope = "none"
    \/ signal.exitCode = "0" /\ ErrorMatches(signal, "wait")
    \/ signal.exitCode = "0" /\ signal.envelope = "blank" /\ "cut" \in signal.diagnostic

\* A failure gets the name its evidence deserves.  What lets a host fall back or
\* blame the user is corroborated: quota and outage by a failed exit and the log, an
\* auth failure by a source the model cannot write to.  And the timeout signatures of
\* agy are recoverable timeouts, unless the run is claimed, delivered or an auth
\* failure.
FailuresNamedRight ==
    Classified =>
        /\ Corroborated
        /\ TimeoutSignature /\ ~Claimed /\ ~Delivered /\ ~isAuthFailure(signal) =>
              verdict = Verdict("timeout", "agy_print_wait_timeout")

\* Replays exclude each other.  An unconfirmed termination gets no fallback, no
\* host retry and no resume, in either adapter and whatever the adapter knows
\* about the call; no call is both retried by the host and resumed; a delivered
\* answer is not resumed.
ReplayedOnceAtMost ==
    Classified =>
        LET Resumed == \E ctx \in Context :
                          opencodeResume(verdict, ctx) \/ piResume(verdict, ctx)
        IN /\ signal.terminationUnconfirmed /\ signal.spawnError # "ENOENT" =>
                 ~(isFallbackAllowed(Outcome) \/ retryable(verdict) \/ Resumed)
           /\ retryable(verdict) \/ Outcome = "success" => ~Resumed

\* The quota gate (turn.ts, quota.ts) fails open.  It stops a turn only if both windows
\* of the requested model's own pool are known, one of them has less than a twentieth
\* left, and the reset time of the five-hour window is not over; what is known of the
\* other pool changes nothing; and it lets the model run again at the reset time,
\* unless that is no date.
GateFailsOpen ==
    Answered("quota") =>
        LET pool == IF question.family = "gemini" THEN "gemini" ELSE "3p"
            At(w) == question.dir[<<pool, w>>]
            Known(w) == At(w).readable = "object" /\ At(w).limit > 0
            Short(w) == 20 * (At(w).limit - At(w).used) < At(w).limit
            reset == At("fiveHour").resets_at
            stops == /\ \A w \in Window : Known(w)
                     /\ \E w \in Window : Short(w)
                     /\ reset = NoDate \/ reset > Now
        IN /\ answer = <<~stops>>
           /\ stops /\ reset # NoDate => GateOpen(question.dir, question.family, reset)

\* The id a picker's entry stands for without any choice of effort.
Spawnable(models) ==
    {models[id].modelArg : id \in DOMAIN models} \cup
    UNION {{v.agyModelId : v \in models[id].variants} : id \in DOMAIN models}

PiSpawnable(models) ==
    {resolveModelArg(models[id], l) : id \in DOMAIN models, l \in ThinkingLevel \cup {"none"}}

\* No id agy lists is lost in a picker, and none is made up (models.ts).  The two
\* exceptions are the code's: opencode's table forgets ids when agy lists a base both
\* with and without an effort, and pi passes the bare base of a collapsed model when
\* no level is asked for.
OffersWhatAgyLists ==
    Answered("picker") =>
        LET rows == AllRows(question.rows)
            listed == ToSet(rows) \ {Default}
            Mixed(id) == /\ EffortsOf(rows, id.base) # {}
                         /\ \E i \in Naming(rows, id.base) : rows[i].effort = "none"
            opencode == Spawnable(answer[1].opencode)
            pi == PiSpawnable(answer[1].pi)
        IN /\ opencode \subseteq listed \cup {NoArg}
           /\ \A id \in listed : ~Mixed(id) => id \in opencode
           /\ listed \subseteq pi
           /\ \A id \in pi \ listed : id = NoArg \/ \E r \in listed : id = Bare(r.base)

\* A picked effort is what agy runs, or the host is warned (language-model.ts).  For a
\* model that has variants: a variant it does not carry, or none at all, is warned
\* of; one it carries is spawned, unless its config holds no id; an id handed over
\* directly wins.
EffortHonoured ==
    Answered("spawn") =>
        LET entry == resolveModel(question.id, question.user)
            variant == readVariant(question.places)
            payload == {v.agyModelId : v \in Named(entry, variant)}
        IN IF readDirectModelId(question.direct) # NoArg
           THEN answer[1].arg = Id("pro", "high") /\ ~answer[1].warned
           ELSE /\ entry.collapsed => (answer[1].warned <=> payload = {})
                /\ payload \notin {{}, {NoArg}} => answer[1].arg.effort = variant

\* Images are taken all or none and never dropped in silence (extractAttachments,
\* promptHasImage and the gates of doStream and runTurn).  A turn that stages
\* anything stages every part that is no text; a turn that runs with the bridge off
\* holds no image; and no part is both staged and reported as dropped, but for a file
\* declared by mimeType in opencode.
ImagesAllOrNone ==
    Answered("parts") =>
        LET content == question.content
            turn == answer[1]
            NoText == {i \in DOMAIN content : content[i].type # "text"}
        IN /\ turn.staged # {} => turn.runs /\ turn.staged = NoText
           /\ turn.runs /\ ~question.imageInput => extractAttachments(content) = {}
           /\ turn.runs /\ question.imageInput => turn.staged = NoText
           /\ \A i \in turn.staged \cap turn.warned :
                 /\ question.adapter = "opencode"
                 /\ content[i].type = "file" /\ content[i].key = "mimeType"
=============================================================================
