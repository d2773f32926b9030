------------------------------ MODULE Guardian ------------------------------
(***************************************************************************)
(* GuardianEngine.check (app/engine/guardian.py), one call per request.    *)
(* Each of its awaits is one model call: first the judge, then, after a    *)
(* negative verdict, up to MaxRetries corrections.  A correction counts    *)
(* when it is not empty; it is not judged again and its text is dropped.   *)
(***************************************************************************)
EXTENDS Shield

CONSTANT MaxRetries     \* guardian_max_retries

ASSUME RetriesAssumption == MaxRetries \in Nat

VARIABLES
    stage,      \* where the call of check for a request stands
    verdict,    \* what the judge's reply was, once there is one
    calls       \* model calls made so far for a request

Stages == {"off", "judging", "correcting", "accepted", "rejected", "raised"}

\* "malformed": a reply _parse_judge_response cannot read as a verdict.
Verdicts == {"none", "compliant", "noncompliant", "malformed"}

\* The number of calls is bounded by one judgement and MaxRetries
\* corrections, the budget the comments of guardian.py give.
GuardianTypeOK ==
    /\ stage \in [Requests -> Stages]
    /\ verdict \in [Requests -> Verdicts]
    /\ calls \in [Requests -> 0 .. (MaxRetries + 1)]

GuardianInit ==
    /\ stage = [r \in Requests |-> "off"]
    /\ verdict = [r \in Requests |-> "none"]
    /\ calls = [r \in Requests |-> 0]

\* check is called and awaits _judge_call.
StartCheck(r) ==
    /\ stage' = [stage EXCEPT ![r] = "judging"]
    /\ calls' = [calls EXCEPT ![r] = 1]
    /\ UNCHANGED verdict

JudgeCompliant(r) ==
    /\ stage[r] = "judging"
    /\ stage' = [stage EXCEPT ![r] = "accepted"]
    /\ verdict' = [verdict EXCEPT ![r] = "compliant"]
    /\ UNCHANGED calls

\* A reply that is not JSON, or whose confidence is not a number, counts as
\* a negative verdict.
JudgeNegative(r) ==
    /\ stage[r] = "judging"
    /\ \E v \in {"noncompliant", "malformed"} :
            verdict' = [verdict EXCEPT ![r] = v]

CorrectionEmpty(r) == stage[r] = "correcting" /\ UNCHANGED verdict

\* Mistakes to be caught: one call more than the limit, or no count of the
\* calls, with an empty correction sent back to the judge.
RetryUnlimited(r) ==
    /\ JudgeNegative(r) \/ CorrectionEmpty(r)
    /\ calls[r] <= MaxRetries + 1
    /\ stage' = [stage EXCEPT ![r] = "correcting"]
    /\ calls' = [calls EXCEPT ![r] = @ + 1]

RetryUncounted(r) ==
    /\ JudgeNegative(r) \/ CorrectionEmpty(r)
    /\ calls[r] <= MaxRetries
    /\ stage' = [stage EXCEPT ![r] =
                    IF @ = "judging" THEN "correcting" ELSE "judging"]
    /\ UNCHANGED calls

\* The loop has a correction left to ask for.
Retry(r) ==
    /\ JudgeNegative(r) \/ CorrectionEmpty(r)
    /\ calls[r] <= MaxRetries
    /\ stage' = [stage EXCEPT ![r] = "correcting"]
    /\ calls' = [calls EXCEPT ![r] = @ + 1]

\* The loop is exhausted: ComplianceError.
GiveUp(r) ==
    /\ JudgeNegative(r) \/ CorrectionEmpty(r)
    /\ calls[r] > MaxRetries
    /\ stage' = [stage EXCEPT ![r] = "rejected"]
    /\ UNCHANGED calls

\* A correction with text in it: the call returns compliant=True.
CorrectionArrives(r) ==
    /\ stage[r] = "correcting"
    /\ stage' = [stage EXCEPT ![r] = "accepted"]
    /\ UNCHANGED <<verdict, calls>>

\* A timeout, an HTTP error status, or a body without choices.
CallFails(r) ==
    /\ stage[r] \in {"judging", "correcting"}
    /\ stage' = [stage EXCEPT ![r] = "raised"]
    /\ UNCHANGED <<verdict, calls>>

\* A reply that is JSON but no object, or whose confidence is null: the
\* AttributeError or TypeError is not among those the parser catches.
JudgeUnreadable(r) ==
    /\ stage[r] = "judging"
    /\ stage' = [stage EXCEPT ![r] = "raised"]
    /\ verdict' = [verdict EXCEPT ![r] = "malformed"]
    /\ UNCHANGED calls
=============================================================================
