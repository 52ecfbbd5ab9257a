----------------------------- MODULE EntryCheck -----------------------------
(***************************************************************************)
(* One run of the gate (.github/workflows/entry-check.yml) on a pull       *)
(* request: list the changed entry directories, judge each of them with    *)
(* the harness and the challenger rule, decide the job, and emit the       *)
(* result artifact the close bot consumes.                                 *)
(*                                                                         *)
(* A tree maps every niche to the entry committed under entries/<niche>,   *)
(* or to Absent.  An entry is its score, whether the harness would pass it *)
(* on the cases of its own checkout, and whether it can be scored under    *)
(* the languages.json of the pull request.  The loop visits the listed     *)
(* paths in any order; the code visits them sorted.                        *)
(***************************************************************************)
EXTENDS TrustScore, Verdicts

CONSTANTS
    Niches,     \* directory names under entries/
    Entries,    \* the entries a tree may hold
    Absent,     \* no directory
    Faults      \* what may go wrong: a subset of FaultKinds

FaultKinds ==
    {"sandbox",  \* docker or its daemon fails: exit code 3
     "host",     \* the runner's file system fails
     "stall",    \* the daemon or an image pull outlasts the cap
     "score",    \* `arena score` fails or prints nothing
     "diff",     \* git cannot compare the two commits
     "kill",     \* a step dies or the job is cancelled or timed out
     "emit"}     \* the reporting steps fail

ASSUME EntriesAssumption ==
    /\ Entries \subseteq [score : Score, conforms : BOOLEAN, scorable : BOOLEAN]
    /\ Absent \notin Entries
ASSUME FaultsAssumption == Faults \subseteq FaultKinds

VARIABLES
    head, base,     \* the trees of the pull request and of BASE_SHA
    listing,        \* the paths `git diff | cut | sort -u` prints
    otherChanged,   \* the diff leaves entries/
    diffable,       \* git can resolve BASE_SHA...HEAD
    pc, todo, cur,  \* the step, the paths not visited yet, the current one
    verdict,        \* the status recorded per path (entries.tsv)
    fail,           \* the gate's fail flag
    complete,       \* the check-complete marker exists
    artifact,       \* the uploaded result, or NoArtifact
    outcome         \* the conclusion of the workflow run

inputs == <<head, base, listing, otherChanged, diffable>>
vars   == <<inputs, pc, todo, cur, verdict, fail, complete, artifact, outcome>>

NoVerdict  == "none"
NoPath     == [niche |-> Absent, name |-> "none"]
NoArtifact == [class |-> "none"]

\* A path is printed plainly, or quoted when the file name below it is not
\* ASCII: cut then yields "entries/<niche> with the opening quote.
Paths == [niche : Niches, name : {"plain", "quoted"}]

Changed     == {p.niche : p \in listing}
IsDir(path) == path.name = "plain" /\ head[path.niche] # Absent
Listed      == IF diffable THEN listing ELSE {}
GateSteps   == {"diff", "next", "check", "score", "champion", "recheck"}
GateGreen   == complete /\ ~fail

TypeOK ==
    /\ head \in [Niches -> Entries \cup {Absent}]
    /\ base \in [Niches -> Entries \cup {Absent}]
    /\ listing \subseteq Paths
    /\ otherChanged \in BOOLEAN
    /\ diffable \in BOOLEAN
    /\ pc \in GateSteps \cup {"impact", "emit", "done"}
    /\ todo \subseteq listing
    /\ cur \in Paths \cup {NoPath}
    /\ verdict \in [Paths -> Statuses \cup {NoVerdict}]
    /\ fail \in BOOLEAN
    /\ complete \in BOOLEAN
    /\ artifact \in {NoArtifact} \cup
         [class : Classes, statuses : SUBSET Statuses, touchedOther : BOOLEAN]
    /\ outcome \in {"running", "success", "failure", "cancelled"}

-----------------------------------------------------------------------------
\* A niche whose trees differ is listed; one whose abstraction is equal may
\* be, since its files may differ.  A conforming challenger is scorable: the
\* harness scores it under the same configuration before it builds it.
Init ==
    /\ head \in [Niches -> Entries \cup {Absent}]
    /\ base \in [Niches -> Entries \cup {Absent}]
    /\ \A n \in Niches :
         head[n] # Absent /\ head[n].conforms => head[n].scorable
    /\ listing \in SUBSET Paths
    /\ \A n \in Niches : head[n] # base[n] => n \in Changed
    /\ \A n \in Changed : head[n] # Absent \/ base[n] # Absent
    /\ otherChanged \in BOOLEAN
    /\ diffable \in (IF "diff" \in Faults THEN BOOLEAN ELSE {TRUE})
    /\ pc = "diff"
    /\ todo = {}
    /\ cur = NoPath
    /\ verdict = [p \in Paths |-> NoVerdict]
    /\ fail = FALSE
    /\ complete = FALSE
    /\ artifact = NoArtifact
    /\ outcome = "running"

\* Mutation: the marker is written before the loop instead of after it.
MarkCompleteFirst ==
    /\ pc = "diff"
    /\ todo' = Listed
    /\ complete' = TRUE
    /\ pc' = IF Listed = {} THEN "impact" ELSE "next"
    /\ UNCHANGED <<inputs, cur, verdict, fail, artifact, outcome>>

\* A git failure inside the process substitution leaves an empty listing.
ListChanges ==
    /\ pc = "diff"
    /\ todo' = Listed
    /\ IF Listed = {}
       THEN complete' = TRUE /\ pc' = "impact"
       ELSE UNCHANGED complete /\ pc' = "next"
    /\ UNCHANGED <<inputs, cur, verdict, fail, artifact, outcome>>

\* Mutation: the flag holds the last status instead of any failing one.
RecordLastOnly(path, status) ==
    /\ verdict' = [verdict EXCEPT ![path] = status]
    /\ fail' = (status \notin PassStatuses)
    /\ pc' = "next"
    /\ UNCHANGED <<inputs, complete, artifact, outcome>>

\* record "$d" status, with the fail flag where the gate sets it, and
\* on to the next path.
Record(path, status) ==
    /\ verdict' = [verdict EXCEPT ![path] = status]
    /\ fail' = (fail \/ status \notin PassStatuses)
    /\ pc' = "next"
    /\ UNCHANGED <<inputs, complete, artifact, outcome>>

Goto(step) ==
    /\ pc' = step
    /\ UNCHANGED <<inputs, todo, cur, verdict, fail, complete, artifact, outcome>>

\* Mutation: a visited path stays on the list.
NextPathAgain ==
    /\ pc = "next"
    /\ \E path \in todo :
         /\ cur' = path
         /\ todo' = todo
         /\ IF IsDir(path)
            THEN /\ pc' = "check"
                 /\ UNCHANGED <<inputs, verdict, fail, complete, artifact, outcome>>
            ELSE Record(path, "removed")

NextPath ==
    /\ pc = "next"
    /\ \E path \in todo :
         /\ todo' = todo \ {path}
         /\ cur' = path
         /\ IF IsDir(path)
            THEN /\ pc' = "check"
                 /\ UNCHANGED <<inputs, verdict, fail, complete, artifact, outcome>>
            ELSE Record(path, "removed")

Judge(status) == Record(cur, status) /\ UNCHANGED <<todo, cur>>

CheckChallenger ==
    /\ pc = "check"
    /\ \E rc \in CheckExits(head[cur.niche].conforms, Faults) :
         \/ rc = ExitPass /\ Goto("score")
         \/ rc = ExitInfra /\ Judge("infra-error")
         \/ rc \notin {ExitPass, ExitInfra} /\ Judge("conformance-fail")

\* A score that failed or printed nothing is no verdict.
MayScore(entry)     == entry.scorable
MayNotScore(entry)  == ~entry.scorable \/ "score" \in Faults

\* Mutation: a failed score falls through to the comparison as "not better".
ScoreFallsThrough ==
    /\ pc = "score"
    /\ \/ MayScore(head[cur.niche]) /\ Goto("champion")
       \/ /\ MayNotScore(head[cur.niche])
          /\ IF base[cur.niche] = Absent THEN Judge("new-niche") ELSE Goto("recheck")

ScoreChallenger ==
    /\ pc = "score"
    /\ \/ MayScore(head[cur.niche]) /\ Goto("champion")
       \/ MayNotScore(head[cur.niche]) /\ Judge("infra-error")

Beats(niche) ==
    ShellBetter(head[niche].score.vendored, head[niche].score.hazards,
                base[niche].score.vendored, base[niche].score.hazards)

ScoreChampion ==
    /\ pc = "champion"
    /\ LET champion == base[cur.niche] IN
       \/ champion = Absent /\ Judge("new-niche")
       \/ champion # Absent /\ MayNotScore(champion) /\ Judge("infra-error")
       \/ /\ champion # Absent
          /\ MayScore(champion)
          /\ IF Beats(cur.niche) THEN Judge("beats-champion") ELSE Goto("recheck")

\* Not strictly better: does the champion still pass its own suite?
RecheckChampion ==
    /\ pc = "recheck"
    /\ \E rc \in CheckExits(base[cur.niche].conforms, Faults) :
         \/ rc = ExitInfra /\ Judge("infra-error")
         \/ rc = ExitPass /\ Judge("not-improving")
         \/ rc \notin {ExitPass, ExitInfra} /\ Judge("open-niche")

\* : > check-complete; exit "$fail".  A red gate skips the informational step.
FinishGate ==
    /\ pc = "next"
    /\ todo = {}
    /\ complete' = TRUE
    /\ pc' = IF fail THEN "emit" ELSE "impact"
    /\ outcome' = IF fail THEN "failure" ELSE outcome
    /\ UNCHANGED <<inputs, todo, cur, verdict, fail, artifact>>

\* Informational: whatever the case impact step measures, it exits 0.
CaseImpact ==
    /\ pc = "impact"
    /\ Goto("emit")

\* The running step dies: the worktree cannot be added, the runner is lost,
\* the job is cancelled or reaches its 20 minutes.
Die ==
    /\ "kill" \in Faults
    /\ pc \in GateSteps \cup {"impact", "emit"}
    /\ outcome = "running"
    /\ pc' = "emit"
    /\ outcome' \in {"failure", "cancelled"}
    /\ UNCHANGED <<inputs, todo, cur, verdict, fail, complete, artifact>>

Recorded == {verdict[p] : p \in Paths} \ {NoVerdict}

\* Mutation: the class is computed from whatever the step left behind.
ResultOfHalfRun ==
    [class        |-> Class(Recorded),
     statuses     |-> Recorded,
     touchedOther |-> diffable /\ otherChanged]

\* Mutation: a run without an end gets no class at all.
ResultWithoutError ==
    [class        |-> IF complete THEN Class(Recorded) ELSE "",
     statuses     |-> Recorded,
     touchedOther |-> diffable /\ otherChanged]

Result ==
    [class        |-> IF complete THEN Class(Recorded) ELSE "error",
     statuses     |-> Recorded,
     touchedOther |-> diffable /\ otherChanged]

\* Mutation: the reporting step's own success becomes the job's.
EmitDecides ==
    /\ pc = "emit"
    /\ pc' = "done"
    /\ artifact' = Result
    /\ outcome' = IF fail THEN "failure" ELSE "success"
    /\ UNCHANGED <<inputs, todo, cur, verdict, fail, complete>>

\* The reporting steps run always() and continue on error: they can lose
\* the artifact, never change the outcome.
Emit ==
    /\ pc = "emit"
    /\ pc' = "done"
    /\ artifact' \in {Result} \cup (IF "emit" \in Faults THEN {NoArtifact} ELSE {})
    /\ outcome' = IF outcome = "running" THEN "success" ELSE outcome
    /\ UNCHANGED <<inputs, todo, cur, verdict, fail, complete>>

Next ==
    \/ ListChanges
    \/ NextPath
    \/ CheckChallenger
    \/ ScoreChallenger
    \/ ScoreChampion
    \/ RecheckChampion
    \/ FinishGate
    \/ CaseImpact
    \/ Die
    \/ Emit

\* Every step of the job ends: the runner bounds each of them in time.
Spec == Init /\ [][Next]_vars /\ WF_vars(Next)

-----------------------------------------------------------------------------
(* What the gate promises *)

Challenger(n) == head[n] # Absent /\ head[n].conforms

\* The challenger rule and its two exceptions: an empty niche and a champion
\* that no longer passes.
Wins(n) ==
    \/ base[n] = Absent
    \/ Better(head[n].score, base[n].score)
    \/ ~base[n].conforms

\* What the challenger rule says of a listed path, from the trees alone.
RuleStatus(p) ==
    LET h == head[p.niche]
        b == base[p.niche] IN
    IF ~IsDir(p) THEN "removed"
    ELSE IF ~h.conforms THEN "conformance-fail"
    ELSE NicheStatus(b = Absent,
                     b # Absent /\ Better(h.score, b.score),
                     b # Absent /\ b.conforms)

\* However the measurements fail and whenever the step dies, a recorded
\* status is the one the rule gives or the admission that there is none
\* (entry-check.yml:92-161).  PullRequests builds on this.
VerdictIsTheRule ==
    \A p \in Paths : verdict[p] \in {NoVerdict, "infra-error", RuleStatus(p)}

\* A run that ends in success has seen, for every niche the pull request
\* changes, an entry that passes its cases and wins the niche: no order of
\* visits, no missing verdict, death of a step or score that printed nothing
\* lets another one through (entry-check.yml, the whole loop and its exit).
\* The exception is a run that cannot compare its trees: git's exit status is
\* lost and the list is empty (entry-check.yml:84-91).
GreenIsEarned ==
    outcome = "success" /\ diffable => \A n \in Changed : Challenger(n) /\ Wins(n)

\* A class the close bot acts on is a verdict on the entries: every listed
\* path is an entry directory with a measured verdict, the class names the
\* failing of one that truly has it, and the scope flag is the truth; a run
\* with a missing measurement, a removal, a dead step or a diff that failed
\* never gets such a class.
RejectIsEarned ==
    artifact.class \in AutoReject =>
        /\ artifact.class \in artifact.statuses
        /\ artifact.touchedOther = otherChanged
        /\ \A p \in listing :
             IsDir(p) /\ verdict[p] \notin {"infra-error", "removed", NoVerdict}
        /\ artifact.class = "conformance-fail" =>
             \E n \in Changed : head[n] # Absent /\ ~head[n].conforms
        /\ artifact.class = "not-improving" =>
             /\ \A n \in Changed : Challenger(n)
             /\ \E n \in Changed : ~Wins(n)

\* The verdict file only mirrors the gate (entry-check.yml:73-76): the class
\* computed from it is a passing one exactly when the gate step exits 0, and
\* "error" exactly when the gate step never reached its end.
ClassMirrorsGate ==
    artifact # NoArtifact =>
        /\ artifact.class \in {"pass", "no-entry-changes"} <=> GateGreen
        /\ artifact.class = "error" <=> ~complete

\* The check-complete marker is a promise that no path was skipped: each
\* listed path has its verdict before the marker is written, and from then
\* on the verdicts and the flag do not move.
CompleteIsFinal ==
    [][ /\ complete' => \A p \in Listed : verdict'[p] # NoVerdict
        /\ complete => UNCHANGED <<verdict, fail, complete>> ]_vars

\* Reporting never flips the gate (entry-check.yml:194-195): once the gate
\* or a death has decided the outcome it stays, and a success needs the
\* gate to be green.
OutcomeIsTheGates ==
    [][ /\ outcome # "running" => outcome' = outcome
        /\ outcome' = "success" => GateGreen ]_vars

\* Whatever fails, the run comes to an outcome, and a finished gate step is
\* followed by the reporting that an unmeasured death does not skip.
Terminates == <>(pc = "done" /\ outcome # "running")

-----------------------------------------------------------------------------
(* What the documents say and the code does not do *)

\* SPEC.md: a failing champion defends nothing; its niche is open to any
\* passing entry.
FailingChampionDefendsNothing ==
    /\ pc = "done"
    /\ \A p \in listing : p.name = "plain"
    /\ \A n \in Changed : Challenger(n) /\ base[n] # Absent => ~base[n].conforms
    /\ \A n \in Changed : Challenger(n)
    => outcome = "success"

=============================================================================
