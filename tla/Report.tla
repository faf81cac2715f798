------------------------------- MODULE Report -------------------------------
(***************************************************************************)
(* What the pods of a finished verification run say of the platform        *)
(* (verify.go, from runOutcomeOf on): which pod counts, whether its report *)
(* can be read, the verdict, the counts and the checks that are kept.      *)
(*                                                                         *)
(* A report is a record with its counts as written and the status of each  *)
(* check in order; NoText is a termination message with nothing in it.     *)
(* Left out: details, messages and the bound on a report's size; of a name *)
(* only that it is there matters, so a check without one stands as a check *)
(* with a status nobody knows: either makes the report unreadable.         *)
(***************************************************************************)
EXTENDS Integers, Sequences, FiniteSets

CONSTANTS
    Outcome,        \* the pods a run may leave: sequences of Pod
    NoText,
    MaxChecks,      \* maxVerifyChecks
    IntMax          \* the largest value of the counts' type

ASSUME Counts == IntMax \in Nat \ {0} /\ MaxChecks \in Nat \ {0}

\* What a pod may have written, and the pod.
DoctorReport == [v : Int, passed : Int, failed : Int, warned : Int, skipped : Int,
                 checks : Seq(STRING)]
Pod == [ended : Nat, exit : Int, report : DoctorReport \union {NoText}]

ASSUME PodsLeft == Outcome \subseteq Seq(Pod)

CheckStatus == {"ok", "warn", "fail", "skip"}
Verdict == {"Passed", "Failed", "Error"}

-----------------------------------------------------------------------------
\* A pod says when its check container ended, or 0, and how.
HasEnded(pod) == pod.ended # 0

\* The pod with the result: the first of those whose check ended last, else the first.
chooseRunPod(pods) ==
    LET Done == {i \in DOMAIN pods : HasEnded(pods[i])} IN
    IF Done = {} THEN 1
    ELSE CHOOSE i \in Done : \A j \in Done :
            pods[j].ended < pods[i].ended \/ (pods[j].ended = pods[i].ended /\ i <= j)

\* The termination message the verdict is read from.
runOutcome(pods) ==
    IF pods # <<>> /\ HasEnded(pods[chooseRunPod(pods)]) THEN pods[chooseRunPod(pods)].report
    ELSE NoText

\* A report is read strictly, or not at all: a check of an unknown status, or with
\* no name (which stands as one), refuses all of it.
parses(raw) ==
    /\ raw # NoText /\ raw.v = 1
    /\ raw.passed >= 0 /\ raw.failed >= 0 /\ raw.warned >= 0 /\ raw.skipped >= 0
    /\ \A i \in DOMAIN raw.checks : raw.checks[i] \in CheckStatus

Listed(rep, s) == Cardinality({i \in DOMAIN rep.checks : rep.checks[i] = s})

\* A sum of the counts' type.
Wrap(n) == ((n + IntMax + 1) % (2 * (IntMax + 1))) - (IntMax + 1)

\* The report's own counts, unless they account for fewer checks than it lists or
\* deny a failure it lists: then those of the list.
failed(rep) ==
    IF \/ Wrap(rep.passed + rep.warned + rep.failed + rep.skipped) < Len(rep.checks)
       \/ rep.failed = 0 /\ Listed(rep, "fail") > 0
    THEN Listed(rep, "fail") ELSE rep.failed

judge(pods) ==
    LET rep == runOutcome(pods) IN
    IF ~parses(rep) THEN "Error"
    ELSE IF failed(rep) > 0 THEN "Failed"
    ELSE IF pods[chooseRunPod(pods)].exit = 0 THEN "Passed" ELSE "Error"

\* Failures before warnings before the rest, each in the order of the report.
rank(s) == IF s = "fail" THEN 0 ELSE IF s = "warn" THEN 1 ELSE 2

Before(checks, i, j) ==
    rank(checks[i]) < rank(checks[j]) \/ (rank(checks[i]) = rank(checks[j]) /\ i < j)

\* The places of the checks that are kept.
keepFirst(checks) == {i \in DOMAIN checks : i <= MaxChecks}

keepChecks(checks) ==
    {i \in DOMAIN checks : Cardinality({j \in DOMAIN checks : Before(checks, j, i)}) < MaxChecks}

\* What a run can be judged to be.
Judgements == {judge(pods) : pods \in Outcome}

-----------------------------------------------------------------------------
(* Properties *)

Total(rep) == rep.passed + rep.warned + rep.failed + rep.skipped

\* "A verdict people act on is not guessed" (verify.go:848): pods that are judged
\* have a readable report on the one that ended last. It is Failed if that lists
\* a failure, or counts one among no fewer checks than it lists - unless its
\* counts overflow their type - and Passed only if the check exited 0 besides.
SaysSo(pods) ==
    \E i \in DOMAIN pods :
        LET rep == pods[i].report IN
        /\ pods[i].ended # 0 /\ \A j \in DOMAIN pods : pods[j].ended <= pods[i].ended
        /\ parses(rep)
        /\ \/ Total(rep) > IntMax
           \/ (judge(pods) = "Failed") <=>
                 \/ rep.failed > 0 /\ Total(rep) >= Len(rep.checks)
                 \/ \E k \in DOMAIN rep.checks : rep.checks[k] = "fail"
        /\ judge(pods) = "Passed" => pods[i].exit = 0

\* "so a long report never hides what went wrong" (verify.go:980): of a report
\* longer than status holds, as many checks are kept as fit; a failure goes only
\* when failures alone fill it, a warning when failures and warnings do.
HidesNothing(checks) ==
    LET kept == keepChecks(checks)
        cut == DOMAIN checks \ kept
    IN  /\ Cardinality(kept) = IF Len(checks) <= MaxChecks THEN Len(checks) ELSE MaxChecks
        /\ \A c \in cut, k \in kept :
              /\ checks[c] = "fail" => checks[k] = "fail"
              /\ checks[c] = "warn" => checks[k] \in {"fail", "warn"}

\* The verdicts that are only ever reached faithfully.
Faithful ==
    {verdict \in Verdict : \A pods \in Outcome :
        verdict = judge(pods) /\ verdict # "Error" =>
            SaysSo(pods) /\ HidesNothing(runOutcome(pods).checks)}

=============================================================================
