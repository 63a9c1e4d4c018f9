-------------------------------- MODULE BriefLLM --------------------------------
(* The generation kernel of the briefs, _run_brief_llm                                *)
(* (backend/app/services/insight_engine.py): one call and up to MaxRecalls further    *)
(* ones while the answer is cut off, does not parse, fails the schema or, in strict   *)
(* mode, cites posts it was not given; then the classification of the failure and one *)
(* cost record per answer. An answer is one of the ways the API and the checks can    *)
(* take it.                                                                           *)
EXTENDS Naturals, Sequences

CONSTANTS MaxRecalls,        \* MAX_RECALLS
          StrictCitations    \* insight_citation_strict_enforce

ASSUME KernelAssumption == MaxRecalls \in Nat /\ StrictCitations \in BOOLEAN

VARIABLES phase,       \* "call", "classify", "record", "done", or "raised" to the caller
          answers,     \* call_attempts: the verdict on each message received
          flags,       \* the set of failure flags of the loop
          output,      \* is llm_output set?
          failure,     \* failure_kind
          recorded     \* calls of record_anthropic_call

kernelVars == <<phase, answers, flags, output, failure, recorded>>

\* "unverified" is an answer whose citations do not check.
Verdicts == {"valid", "unverified", "truncated", "unparsable", "schema"}
Flags == {"schema", "citation", "truncated"}
FailureKinds == {"schema_validation_error", "citation_validation_error", "truncation_error",
                 "json_parse_error"}
Calls == Len(answers)

KernelTypeOK ==
    /\ phase \in {"call", "classify", "record", "done", "raised"}
    /\ answers \in Seq(Verdicts) /\ Calls <= MaxRecalls + 1
    /\ flags \subseteq Flags
    /\ output \in BOOLEAN
    /\ failure \in FailureKinds \cup {"none"}
    /\ recorded \in 0..MaxRecalls + 1

KernelInit ==
    /\ phase = "call" /\ answers = <<>> /\ flags = {} /\ output = FALSE
    /\ failure = "none" /\ recorded = 0

\* Does the loop take the answer?
Accepted(v) == v = "valid" \/ (v = "unverified" /\ ~StrictCitations)

\* llm_output is set by validate and taken back by the strict citation check.
OutputAfter(v) == Accepted(v)

\* The flags after an answer: the truncation branch leaves before the other two are
\* reset, every other answer resets all three.
FlagsAfter(v) ==
    CASE v = "truncated" -> flags \cup {"truncated"}
      [] v = "schema" -> {"schema"}
      [] v = "unverified" /\ StrictCitations -> {"citation"}
      [] OTHER -> {}

LastAttempt == MaxRecalls + 1

Answer ==
    /\ phase = "call"
    /\ \E v \in Verdicts :
         /\ answers' = Append(answers, v)
         /\ flags' = FlagsAfter(v)
         /\ output' = OutputAfter(v)
         /\ phase' = IF Accepted(v) \/ Calls + 1 = LastAttempt THEN "classify" ELSE "call"
    /\ UNCHANGED <<failure, recorded>>

\* The call raises: the first time the exception goes to the caller, later the loop ends
\* with what it has.
MUT_MayRaise == TRUE
MayRaise == Calls = 0
CallRaises ==
    /\ phase = "call"
    /\ phase' = IF MayRaise THEN "raised" ELSE "classify"
    /\ UNCHANGED <<answers, flags, output, failure, recorded>>

\* The order in which the flags are asked.
FailureKind ==
    IF "schema" \in flags THEN "schema_validation_error"
    ELSE IF "citation" \in flags THEN "citation_validation_error"
    ELSE IF "truncated" \in flags THEN "truncation_error"
    ELSE "json_parse_error"

Classify ==
    /\ phase = "classify"
    /\ failure' = IF output THEN "none" ELSE FailureKind
    /\ phase' = "record"
    /\ UNCHANGED <<answers, flags, output, recorded>>

\* record_anthropic_call once per message, whatever became of it; every message is taken
\* to carry its token counts.
Billed == Calls
Record ==
    /\ phase = "record"
    /\ IF recorded < Billed THEN recorded' = recorded + 1 /\ UNCHANGED phase
                            ELSE phase' = "done" /\ UNCHANGED recorded
    /\ UNCHANGED <<answers, flags, output, failure>>

Done == phase \in {"done", "raised"} /\ UNCHANGED kernelVars

KernelNext == Answer \/ CallRaises \/ Classify \/ Record \/ Done

KernelSpec == KernelInit /\ [][KernelNext]_kernelVars

-----------------------------------------------------------------------------------
(* Properties. *)

\* Every answer that was paid for is in the cost log when the kernel returns, and an
\* exception never goes to the caller after one was paid for (its cost would be lost to
\* the monthly budget): insight_engine.py:3808-3822, :3985-3999.
EveryAnswerBilled ==
    /\ phase = "done" => recorded = Calls
    /\ phase = "raised" => Calls = 0

\* A report is returned exactly if the last answer passed every check, and then no
\* failure is reported; no earlier rejected answer leaks into it.
OutputIsLastAnswer ==
    phase \in {"record", "done"} =>
        /\ output = (Calls > 0 /\ Accepted(answers[Calls]))
        /\ output = (failure = "none")

\* The inductive strengthening of the two.
KernelInv ==
    /\ phase = "call" => Calls <= MaxRecalls
    /\ phase \in {"call", "classify", "raised"} => recorded = 0
    /\ phase = "raised" => Calls = 0
    /\ recorded <= Calls
    /\ phase = "done" => recorded = Calls
    /\ output = (Calls > 0 /\ Accepted(answers[Calls]))
    /\ phase \in {"record", "done"} => output = (failure = "none")

\* The comment at insight_engine.py:3844-3847: the classification reports the failure mode
\* of the last attempt.
KindOf(v) ==
    CASE v = "schema" -> "schema_validation_error"
      [] v = "unverified" -> "citation_validation_error"
      [] v = "truncated" -> "truncation_error"
      [] v = "unparsable" -> "json_parse_error"
LastModeReported ==
    phase = "done" /\ ~output => failure = KindOf(answers[Calls])
================================================================================
