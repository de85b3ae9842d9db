------------------------------- MODULE Outcomes -------------------------------
(***************************************************************************)
(* The verdict on one agy run: classifyRun and isFallbackAllowed           *)
(* (packages/engine/src/outcomes.ts) and what each adapter's               *)
(* mapClassification (errors.ts) makes of it.  Texts are abstracted to the *)
(* set of patterns that match them.                                        *)
(***************************************************************************)
EXTENDS Naturals, Sequences

\* What the regular expressions look for.  "cut" is the stderr marker of a
\* print timeout in mid-turn; "interrupted" only matters in an envelope error.
Pattern == {"auth", "wait", "cut", "quota", "transient"}
ErrorPattern == {"auth", "wait", "interrupted"}

\* RunSignal.  The log is kept in two halves: the diagnostic lines and the
\* JSON lines, which carry model text.  "blank" is SUCCESS with an empty
\* response, "error" is ERROR, "other" any further status.
Signal ==
    [exitCode : {"0", "1", "124", "null"}, spawnError : {"none", "ENOENT", "other"},
     timedOut : BOOLEAN, stalled : BOOLEAN, terminationUnconfirmed : BOOLEAN,
     terminationTrigger : {"none", "timeout", "stall", "abort"},
     artifact : BOOLEAN, expectArtifact : BOOLEAN,
     envelope : {"none", "success", "blank", "error", "other"},
     error : SUBSET ErrorPattern,
     diagnostic : SUBSET Pattern, json : SUBSET Pattern]

\* Mutant of Log: the log of a clean exit is not looked at.
LogOfFailure(s) == IF s.exitCode = "0" THEN {} ELSE s.diagnostic \cup s.json

Log(s) == s.diagnostic \cup s.json

ErrorMatches(s, p) == s.envelope = "error" /\ p \in s.error

\* Mutant of isAuthFailure: the model's own text is searched too.
isAuthFailureAnywhere(s) == ErrorMatches(s, "auth") \/ "auth" \in Log(s)

\* diagnosticLog drops the complete JSON objects before the pattern is tried.
isAuthFailure(s) == ErrorMatches(s, "auth") \/ "auth" \in s.diagnostic

\* Mutant of artifactLessSuccess: an empty response will do.
artifactLessSuccessBlank(s) ==
    ~s.expectArtifact /\ s.envelope \in {"success", "blank"}

artifactLessSuccess(s) == ~s.expectArtifact /\ s.envelope = "success"

Verdict(outcome, reason) == [outcome |-> outcome, reason |-> reason]

UnconfirmedReason ==
    [none |-> "termination_unconfirmed",
     timeout |-> "termination_unconfirmed_timeout",
     stall |-> "termination_unconfirmed_stall",
     abort |-> "termination_unconfirmed_abort"]

\* The rules of classifyRun in the order the code tries them.
Rules(s) ==
    LET failed == s.exitCode # "0"
    IN <<[when |-> s.spawnError = "ENOENT",
          then |-> Verdict("transient_unavailable", "agy_absent")],
         [when |-> s.terminationUnconfirmed,
          then |-> Verdict("termination_unconfirmed",
                           UnconfirmedReason[s.terminationTrigger])],
         [when |-> s.stalled,
          then |-> Verdict("timeout", "stall_detected")],
         [when |-> s.timedOut \/ s.exitCode = "124",
          then |-> Verdict("timeout", "timeout")],
         [when |-> \/ s.exitCode = "0" /\ s.artifact
                   \/ s.exitCode \in {"0", "null"} /\ artifactLessSuccess(s),
          then |-> Verdict("success", "ok")],
         [when |-> "cut" \in Log(s),
          then |-> Verdict("timeout", "agy_print_wait_timeout")],
         [when |-> isAuthFailure(s),
          then |-> Verdict("auth_captcha", "auth_or_captcha")],
         [when |-> ErrorMatches(s, "wait"),
          then |-> Verdict("timeout", "agy_print_wait_timeout")],
         [when |-> ErrorMatches(s, "interrupted"),
          then |-> Verdict("task_failure", "interrupted")],
         [when |-> failed /\ "wait" \in Log(s),
          then |-> Verdict("timeout", "agy_print_wait_timeout")],
         [when |-> failed /\ "quota" \in Log(s),
          then |-> Verdict("quota_unavailable", "quota_exhausted")],
         [when |-> failed /\ "transient" \in Log(s),
          then |-> Verdict("transient_unavailable", "provider_outage")],
         [when |-> failed,
          then |-> Verdict("task_failure", "nonzero_exit")],
         [when |-> TRUE,
          then |-> Verdict("artifact_validation_failure",
                           "artifact_missing_or_empty")]>>

\* First match wins.
FirstMatch(rules) ==
    LET matching == {i \in DOMAIN rules : rules[i].when}
    IN rules[CHOOSE i \in matching : \A j \in matching : i <= j].then

classifyRun(s) == FirstMatch(Rules(s))

\* Mutant of isFallbackAllowed: everything but a success falls back.
isFallbackAllowedBroad(outcome) == outcome # "success"

isFallbackAllowed(outcome) ==
    outcome \in {"quota_unavailable", "transient_unavailable", "timeout"}

-----------------------------------------------------------------------------
\* ErrorContext: was this attempt resumed, is a conversation id known, did the
\* recovery attempt already run, does the policy block it (opencode only), and what
\* does agy's own error text say.
Context == [resumed : BOOLEAN, conversationId : BOOLEAN,
            recoveryAttempted : BOOLEAN, recoveryBlockedByPolicy : BOOLEAN,
            detail : {"interrupted", "other"}]

\* The host may send the same request again.
retryable(v) == v.outcome = "transient_unavailable" /\ v.reason # "agy_absent"

\* opencode-adapter errors.ts: resume the conversation of this very call.
opencodeResume(v, ctx) ==
    \/ /\ v.outcome = "timeout"
       /\ ~ctx.recoveryAttempted /\ ~ctx.recoveryBlockedByPolicy
       /\ ~ctx.resumed /\ ctx.conversationId
    \/ /\ v.outcome = "task_failure"
       /\ "interrupted" \in {v.reason, ctx.detail}

\* pi-adapter errors.ts.
piResume(v, ctx) ==
    v.outcome = "timeout" /\ ~ctx.resumed /\ ctx.conversationId
=============================================================================
