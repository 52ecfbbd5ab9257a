-------------------------- MODULE EntryCheckProofs --------------------------
(***************************************************************************)
(* Proofs that the gate keeps its promises for every set of niches, every  *)
(* pair of trees and every choice of faults among those it is built for.   *)
(***************************************************************************)
EXTENDS EntryCheck, TLAPS

\* The faults the harness does not tell apart from a failing entry are left
\* out where a verdict is claimed to be true (ArenaCheck has those).
HonestHarness == Faults \cap {"host", "stall"} = {}

-----------------------------------------------------------------------------
(* Type correctness *)

LEMMA ClassIsAClass == \A S : Class(S) \in Classes
  BY DEF Class, Classes

LEMMA ResultType ==
    ASSUME TypeOK
    PROVE  Result \in [class : Classes, statuses : SUBSET Statuses, touchedOther : BOOLEAN]
<1>1. Recorded \subseteq Statuses
  BY DEF TypeOK, Recorded
<1>2. (IF complete THEN Class(Recorded) ELSE "error") \in Classes
  BY ClassIsAClass DEF Classes
<1>3. (diffable /\ otherChanged) \in BOOLEAN
  BY DEF TypeOK
<1>4. QED
  BY <1>1, <1>2, <1>3 DEF Result

LEMMA TypeStep == TypeOK /\ [Next]_vars => TypeOK'
<1> SUFFICES ASSUME TypeOK, [Next]_vars
             PROVE  TypeOK'
  OBVIOUS
<1> USE DEF TypeOK, GateSteps
<1>1. CASE ListChanges
  BY <1>1 DEF ListChanges, inputs, Listed
<1>2. ASSUME NEW p, NEW status \in Statuses, Record(p, status),
             todo' \subseteq listing, cur' \in Paths \cup {NoPath}
      PROVE  TypeOK'
  BY <1>2 DEF Record, inputs
<1>3. ASSUME NEW status \in Statuses, Judge(status)
      PROVE  TypeOK'
  BY <1>2, <1>3 DEF Judge
<1>4. ASSUME NEW step \in GateSteps \cup {"impact", "emit"}, Goto(step)
      PROVE  TypeOK'
  BY <1>4 DEF Goto, inputs
<1>5. CASE NextPath
  <2>1. PICK path \in todo :
          /\ todo' = todo \ {path}
          /\ cur' = path
          /\ IF IsDir(path)
             THEN /\ pc' = "check"
                  /\ UNCHANGED <<inputs, verdict, fail, complete, artifact, outcome>>
             ELSE Record(path, "removed")
    BY <1>5 DEF NextPath
  <2>2. CASE IsDir(path)
    BY <2>1, <2>2 DEF inputs
  <2>3. CASE ~IsDir(path)
    <3>1. Record(path, "removed")
      BY <2>1, <2>3
    <3>2. todo' \subseteq listing /\ cur' \in Paths \cup {NoPath}
      BY <2>1
    <3>3. "removed" \in Statuses
      BY DEF Statuses
    <3>4. QED
      BY <1>2, <3>1, <3>2, <3>3
  <2>4. QED
    BY <2>2, <2>3
<1>6. CASE CheckChallenger
  <2>1. Goto("score") \/ Judge("infra-error") \/ Judge("conformance-fail")
    BY <1>6 DEF CheckChallenger
  <2>2. QED
    BY <2>1, <1>3, <1>4 DEF Statuses
<1>7. CASE ScoreChallenger
  <2>1. Goto("champion") \/ Judge("infra-error")
    BY <1>7 DEF ScoreChallenger
  <2>2. QED
    BY <2>1, <1>3, <1>4 DEF Statuses
<1>8. CASE ScoreChampion
  <2>1. \/ Judge("new-niche") \/ Judge("infra-error")
        \/ Judge("beats-champion") \/ Goto("recheck")
    BY <1>8 DEF ScoreChampion
  <2>2. QED
    BY <2>1, <1>3, <1>4 DEF Statuses, PassStatuses
<1>9. CASE RecheckChampion
  <2>1. Judge("infra-error") \/ Judge("not-improving") \/ Judge("open-niche")
    BY <1>9 DEF RecheckChampion
  <2>2. QED
    BY <2>1, <1>3 DEF Statuses, PassStatuses
<1>10. CASE FinishGate
  BY <1>10 DEF FinishGate, inputs
<1>11. CASE CaseImpact
  BY <1>11, <1>4 DEF CaseImpact
<1>12. CASE Die
  BY <1>12 DEF Die, inputs
<1>13. CASE Emit
  <2>1. artifact' \in {Result, NoArtifact}
    BY <1>13 DEF Emit
  <2>2. QED
    BY <1>13, <2>1, ResultType DEF Emit, inputs
<1>14. CASE UNCHANGED vars
  BY <1>14 DEF vars, inputs
<1>15. QED
  BY <1>1, <1>5, <1>6, <1>7, <1>8, <1>9, <1>10, <1>11, <1>12, <1>13, <1>14 DEF Next

\* Every state of every run of the gate is of its type: no action, taken in
\* any order and with any fault, leaves the declared ranges.
THEOREM TypeCorrect == Spec => []TypeOK
<1>1. Init => TypeOK
  BY DEF Init, TypeOK, GateSteps, NoArtifact
<1>2. QED
  BY <1>1, TypeStep, PTL DEF Spec

-----------------------------------------------------------------------------
(* Control: where the run is, and what it has recorded so far *)

Judging == {"check", "score", "champion", "recheck"}

\* The path being judged is a listed directory without a verdict.
CurrentIsOpen ==
    pc \in Judging =>
        cur \in Listed /\ cur \notin todo /\ IsDir(cur) /\ verdict[cur] = NoVerdict

\* A path still to be visited has no verdict, and no path drops out of sight.
NothingSkipped ==
    /\ todo \subseteq Listed
    /\ \A p \in todo : verdict[p] = NoVerdict
    /\ \A p \in Paths : verdict[p] # NoVerdict => p \in Listed
    /\ pc = "diff" => \A p \in Paths : verdict[p] = NoVerdict
    /\ pc \in {"next"} \cup Judging =>
         \A p \in Listed : \/ verdict[p] # NoVerdict
                           \/ p \in todo
                           \/ pc \in Judging /\ p = cur
    /\ complete => \A p \in Listed : verdict[p] # NoVerdict

FailingVerdict(p) == verdict[p] \in {"not-improving", "conformance-fail", "infra-error", "removed"}

FlagMirrorsVerdicts == fail <=> \E p \in Paths : FailingVerdict(p)

OutcomeFollows ==
    /\ pc \in GateSteps => ~complete /\ outcome = "running"
    /\ pc = "impact" => GateGreen /\ outcome = "running"
    /\ pc = "emit" /\ outcome = "running" => GateGreen
    /\ outcome = "success" => GateGreen /\ pc = "done"
    /\ pc = "done" => outcome # "running"

ArtifactIsResult ==
    artifact # NoArtifact => pc = "done" /\ artifact = Result

Control ==
    /\ TypeOK
    /\ CurrentIsOpen
    /\ NothingSkipped
    /\ FlagMirrorsVerdicts
    /\ OutcomeFollows
    /\ ArtifactIsResult

LEMMA InitControl == Init => Control
<1> SUFFICES ASSUME Init
             PROVE  Control
  OBVIOUS
<1>1. TypeOK
  BY DEF Init, TypeOK, GateSteps, NoArtifact
<1>2. CurrentIsOpen /\ OutcomeFollows /\ ArtifactIsResult
  BY DEF Init, CurrentIsOpen, Judging, OutcomeFollows, GateSteps, ArtifactIsResult
<1>3. NothingSkipped /\ FlagMirrorsVerdicts
  BY DEF Init, NothingSkipped, Judging, FlagMirrorsVerdicts, FailingVerdict, NoVerdict
<1>4. QED
  BY <1>1, <1>2, <1>3 DEF Control

\* Recording a status for a path that has none keeps the control facts; the
\* path is the current one, or one just taken off the list.
LEMMA RecordControl ==
    ASSUME Control, TypeOK', pc \in {"next"} \cup Judging,
           NEW p \in Listed, verdict[p] = NoVerdict,
           NEW status \in Statuses, Record(p, status),
           todo' = todo \ {p}, cur' = p,
           pc \in Judging => p = cur
    PROVE  Control'
<1> USE DEF Control, TypeOK
<1>1. p \in Paths /\ Listed' = Listed /\ Listed \subseteq Paths
  BY DEF Record, inputs, Listed
<1>2. verdict' = [verdict EXCEPT ![p] = status] /\ status # NoVerdict
  BY DEF Record, Statuses, PassStatuses, NoVerdict
<1>3. CurrentIsOpen'
  BY DEF Record, CurrentIsOpen, Judging
<1>4. NothingSkipped'
  <2>1. todo' \subseteq Listed' /\ \A q \in todo' : verdict'[q] = NoVerdict
    BY <1>1, <1>2 DEF NothingSkipped
  <2>2. \A q \in Paths : verdict'[q] # NoVerdict => q \in Listed'
    BY <1>1, <1>2 DEF NothingSkipped
  <2>3. \A q \in Listed' : verdict'[q] # NoVerdict \/ q \in todo'
    BY <1>1, <1>2 DEF NothingSkipped
  <2>4. ~complete'
    BY DEF OutcomeFollows, GateSteps, Judging, Record
  <2>5. QED
    BY <2>1, <2>2, <2>3, <2>4 DEF NothingSkipped, Record
<1>5. FlagMirrorsVerdicts'
  <2>1. fail' <=> fail \/ status \notin PassStatuses
    BY DEF Record
  <2>2. \A q \in Paths : q # p => (FailingVerdict(q)' <=> FailingVerdict(q))
    BY <1>1, <1>2 DEF FailingVerdict
  <2>3. FailingVerdict(p)' <=> status \notin PassStatuses
    BY <1>1, <1>2 DEF FailingVerdict, Statuses, PassStatuses
  <2>4. ~FailingVerdict(p)
    BY DEF FailingVerdict, NoVerdict
  <2>5. QED
    BY <1>1, <2>1, <2>2, <2>3, <2>4 DEF FlagMirrorsVerdicts
<1>6. OutcomeFollows'
  BY DEF Record, OutcomeFollows, GateSteps, Judging, GateGreen
<1>7. ArtifactIsResult'
  BY DEF Record, ArtifactIsResult, Judging
<1>8. QED
  BY <1>3, <1>4, <1>5, <1>6, <1>7

LEMMA JudgeControl ==
    ASSUME Control, TypeOK', pc \in Judging, NEW status \in Statuses, Judge(status)
    PROVE  Control'
<1>1. /\ cur \in Listed /\ verdict[cur] = NoVerdict /\ cur \notin todo
      /\ Record(cur, status) /\ todo' = todo /\ cur' = cur
  BY DEF Control, CurrentIsOpen, Judge
<1>2. todo' = todo \ {cur}
  BY <1>1
<1>3. QED
  BY <1>1, <1>2, RecordControl

LEMMA GotoControl ==
    ASSUME Control, TypeOK', pc \in Judging, NEW step \in Judging, Goto(step)
    PROVE  Control'
<1> USE DEF Control, Goto, inputs
<1>1. CurrentIsOpen'
  BY DEF CurrentIsOpen, Listed, IsDir
<1>2. NothingSkipped'
  BY DEF NothingSkipped, Listed, Judging
<1>3. FlagMirrorsVerdicts'
  BY DEF FlagMirrorsVerdicts, FailingVerdict
<1>4. OutcomeFollows' /\ ArtifactIsResult'
  BY DEF OutcomeFollows, GateSteps, Judging, GateGreen, ArtifactIsResult
<1>5. QED
  BY <1>1, <1>2, <1>3, <1>4

LEMMA NextControl == Control /\ [Next]_vars => Control'
<1> SUFFICES ASSUME Control, [Next]_vars
             PROVE  Control'
  OBVIOUS
<1>0. TypeOK'
  BY TypeStep DEF Control
<1>1. CASE ListChanges
  <2> USE <1>1 DEF ListChanges, inputs, Control
  <2>1. CurrentIsOpen'
    BY DEF CurrentIsOpen, Judging
  <2>2. NothingSkipped'
    <3>1. Listed' = Listed /\ Listed \subseteq Paths
      BY DEF Listed, TypeOK
    <3>2. QED
      BY <3>1 DEF NothingSkipped, OutcomeFollows, GateSteps, Judging
  <2>3. FlagMirrorsVerdicts'
    BY DEF FlagMirrorsVerdicts, FailingVerdict
  <2>4. OutcomeFollows'
    <3>1. Listed = {} => ~fail
      BY DEF FlagMirrorsVerdicts, FailingVerdict, NothingSkipped, NoVerdict
    <3>2. QED
      BY <3>1 DEF OutcomeFollows, GateSteps, GateGreen
  <2>5. ArtifactIsResult'
    BY DEF ArtifactIsResult
  <2>6. QED
    BY <1>0, <2>1, <2>2, <2>3, <2>4, <2>5
<1>2. CASE NextPath
  <2>1. PICK path \in todo :
          /\ todo' = todo \ {path}
          /\ cur' = path
          /\ IF IsDir(path)
             THEN /\ pc' = "check"
                  /\ UNCHANGED <<inputs, verdict, fail, complete, artifact, outcome>>
             ELSE Record(path, "removed")
    BY <1>2 DEF NextPath
  <2>2. pc = "next" /\ path \in Listed /\ verdict[path] = NoVerdict
    BY <1>2 DEF NextPath, Control, NothingSkipped
  <2>3. CASE ~IsDir(path)
    <3>1. Record(path, "removed") /\ "removed" \in Statuses
      BY <2>1, <2>3 DEF Statuses
    <3>2. pc \notin Judging
      BY <2>2 DEF Judging
    <3>3. QED
      BY <1>0, <2>1, <2>2, <3>1, <3>2, RecordControl
  <2>4. CASE IsDir(path)
    <3> USE <2>1, <2>2, <2>4 DEF Control, inputs
    <3>1. CurrentIsOpen'
      BY DEF CurrentIsOpen, Listed, IsDir
    <3>2. NothingSkipped'
      BY DEF NothingSkipped, Listed, Judging
    <3>3. FlagMirrorsVerdicts'
      BY DEF FlagMirrorsVerdicts, FailingVerdict
    <3>4. OutcomeFollows' /\ ArtifactIsResult'
      BY DEF OutcomeFollows, GateSteps, Judging, GateGreen, ArtifactIsResult
    <3>5. QED
      BY <1>0, <3>1, <3>2, <3>3, <3>4
  <2>5. QED
    BY <2>3, <2>4
<1>3. CASE CheckChallenger
  <2>1. /\ pc \in Judging
        /\ Goto("score") \/ Judge("infra-error") \/ Judge("conformance-fail")
    BY <1>3 DEF CheckChallenger, Judging
  <2>2. QED
    BY <2>1, <1>0, GotoControl, JudgeControl DEF Statuses, Judging
<1>4. CASE ScoreChallenger
  <2>1. /\ pc \in Judging
        /\ Goto("champion") \/ Judge("infra-error")
    BY <1>4 DEF ScoreChallenger, Judging
  <2>2. QED
    BY <2>1, <1>0, GotoControl, JudgeControl DEF Statuses, Judging
<1>5. CASE ScoreChampion
  <2>1. /\ pc \in Judging
        /\ \/ Judge("new-niche") \/ Judge("infra-error")
           \/ Judge("beats-champion") \/ Goto("recheck")
    BY <1>5 DEF ScoreChampion, Judging
  <2>2. QED
    BY <2>1, <1>0, GotoControl, JudgeControl DEF Statuses, PassStatuses, Judging
<1>6. CASE RecheckChampion
  <2>1. /\ pc \in Judging
        /\ Judge("infra-error") \/ Judge("not-improving") \/ Judge("open-niche")
    BY <1>6 DEF RecheckChampion, Judging
  <2>2. QED
    BY <2>1, <1>0, JudgeControl DEF Statuses, PassStatuses
<1>7. CASE FinishGate
  <2> USE <1>7 DEF FinishGate, inputs, Control
  <2>1. CurrentIsOpen' /\ FlagMirrorsVerdicts' /\ ArtifactIsResult'
    BY DEF CurrentIsOpen, Judging, FlagMirrorsVerdicts, FailingVerdict, ArtifactIsResult
  <2>2. NothingSkipped'
    BY DEF NothingSkipped, Judging, Listed
  <2>3. OutcomeFollows'
    BY DEF OutcomeFollows, GateSteps, GateGreen
  <2>4. QED
    BY <1>0, <2>1, <2>2, <2>3
<1>8. CASE CaseImpact
  <2> USE <1>8 DEF CaseImpact, Goto, inputs, Control
  <2>1. CurrentIsOpen' /\ FlagMirrorsVerdicts' /\ ArtifactIsResult'
    BY DEF CurrentIsOpen, Judging, FlagMirrorsVerdicts, FailingVerdict, ArtifactIsResult
  <2>2. NothingSkipped'
    BY DEF NothingSkipped, Judging, Listed
  <2>3. OutcomeFollows'
    BY DEF OutcomeFollows, GateSteps, GateGreen
  <2>4. QED
    BY <1>0, <2>1, <2>2, <2>3
<1>9. CASE Die
  <2> USE <1>9 DEF Die, inputs, Control
  <2>1. CurrentIsOpen' /\ FlagMirrorsVerdicts'
    BY DEF CurrentIsOpen, Judging, FlagMirrorsVerdicts, FailingVerdict
  <2>2. ArtifactIsResult'
    BY DEF ArtifactIsResult, GateSteps
  <2>3. NothingSkipped'
    BY DEF NothingSkipped, Judging, Listed
  <2>4. OutcomeFollows'
    BY DEF OutcomeFollows, GateSteps, GateGreen
  <2>5. QED
    BY <1>0, <2>1, <2>2, <2>3, <2>4
<1>10. CASE Emit
  <2> USE <1>10 DEF Emit, inputs, Control
  <2>1. CurrentIsOpen' /\ FlagMirrorsVerdicts'
    BY DEF CurrentIsOpen, Judging, FlagMirrorsVerdicts, FailingVerdict
  <2>2. NothingSkipped'
    BY DEF NothingSkipped, Judging, Listed
  <2>3. OutcomeFollows'
    BY DEF OutcomeFollows, GateSteps, GateGreen
  <2>4. ArtifactIsResult'
    BY DEF ArtifactIsResult, Result, Recorded
  <2>5. QED
    BY <1>0, <2>1, <2>2, <2>3, <2>4
<1>11. CASE UNCHANGED vars
  BY <1>11, <1>0 DEF vars, inputs, Control, CurrentIsOpen, NothingSkipped,
     FlagMirrorsVerdicts, FailingVerdict, OutcomeFollows, GateGreen, ArtifactIsResult,
     Listed, IsDir, Result, Recorded
<1>12. QED
  BY <1>1, <1>2, <1>3, <1>4, <1>5, <1>6, <1>7, <1>8, <1>9, <1>10, <1>11 DEF Next

\* The control facts hold in every state, whatever fails: no listed path
\* drops out of the loop, the fail flag is the disjunction of the recorded
\* statuses, and the artifact is the result of the state it was made in.
THEOREM ControlCorrect == Spec => []Control
<1>1. QED
  BY InitControl, NextControl, PTL DEF Spec

-----------------------------------------------------------------------------
(* What follows from control alone, with every fault *)

LEMMA GreenClass ==
    ASSUME NEW S \in SUBSET Statuses
    PROVE  /\ Class(S) # "error"
           /\ Class(S) \in {"pass", "no-entry-changes"} <=> S \subseteq PassStatuses
  BY DEF Class, Statuses, PassStatuses

LEMMA RecordedFails ==
    ASSUME Control
    PROVE  /\ Recorded \in SUBSET Statuses
           /\ fail <=> ~(Recorded \subseteq PassStatuses)
<1>1. Recorded \in SUBSET Statuses
  BY DEF Recorded, Control, TypeOK
<1>2. \A p \in Paths : FailingVerdict(p) <=> verdict[p] \in Statuses \ PassStatuses
  BY DEF FailingVerdict, Statuses, PassStatuses, Control, TypeOK
<1>3. \A p \in Paths : verdict[p] \in Statuses => verdict[p] \in Recorded
  BY DEF Recorded, Statuses, PassStatuses, NoVerdict
<1>4. \A s \in Recorded : \E p \in Paths : s = verdict[p]
  BY DEF Recorded
<1>5. QED
  BY <1>1, <1>2, <1>3, <1>4 DEF Control, FlagMirrorsVerdicts

\* The class in the artifact passes exactly when the gate step exits 0, and
\* says "error" exactly when that step never reached its end: the duplicate
\* of the decision the bot reads cannot drift from the gate's own.
THEOREM ClassMirrors == Spec => []ClassMirrorsGate
<1>1. Control => ClassMirrorsGate
  <2> SUFFICES ASSUME Control, artifact # NoArtifact
               PROVE  /\ artifact.class \in {"pass", "no-entry-changes"} <=> GateGreen
                      /\ artifact.class = "error" <=> ~complete
    BY DEF ClassMirrorsGate
  <2>1. artifact.class = IF complete THEN Class(Recorded) ELSE "error"
    BY DEF Control, ArtifactIsResult, Result
  <2>2. CASE complete
    BY <2>1, <2>2, GreenClass, RecordedFails DEF GateGreen
  <2>3. CASE ~complete
    BY <2>1, <2>3 DEF GateGreen
  <2>4. QED
    BY <2>2, <2>3
<1>2. QED
  BY <1>1, ControlCorrect, PTL

\* The marker is only written when every listed path has its verdict, and
\* from then on neither the verdicts nor the flag move.
THEOREM CompleteStaysFinal == Spec => CompleteIsFinal
<1>1. Control /\ Control' /\ [Next]_vars =>
        [ /\ complete' => \A p \in Listed : verdict'[p] # NoVerdict
          /\ complete => UNCHANGED <<verdict, fail, complete>> ]_vars
  <2> SUFFICES ASSUME Control, Control', Next
               PROVE  /\ complete' => \A p \in Listed : verdict'[p] # NoVerdict
                      /\ complete => UNCHANGED <<verdict, fail, complete>>
    OBVIOUS
  <2>1. Listed' = Listed
    BY DEF Next, ListChanges, NextPath, CheckChallenger, ScoreChallenger, ScoreChampion,
       RecheckChampion, FinishGate, CaseImpact, Die, Emit, Goto, Judge, Record, inputs, Listed
  <2>2. complete' => \A p \in Listed : verdict'[p] # NoVerdict
    BY <2>1 DEF Control, NothingSkipped
  <2>3. complete => pc \notin GateSteps
    BY DEF Control, OutcomeFollows
  <2>4. pc \notin GateSteps => UNCHANGED <<verdict, fail, complete>>
    BY DEF Next, ListChanges, NextPath, CheckChallenger, ScoreChallenger, ScoreChampion,
       RecheckChampion, FinishGate, CaseImpact, Die, Emit, Goto, GateSteps
  <2>5. QED
    BY <2>2, <2>3, <2>4
<1>2. QED
  BY <1>1, ControlCorrect, PTL DEF Spec, CompleteIsFinal

\* Reporting never flips the gate: an outcome once decided stays, and a run
\* only becomes a success when the gate step ended with a clear flag.
THEOREM OutcomeStaysTheGates == Spec => OutcomeIsTheGates
<1>1. Control /\ Control' /\ [Next]_vars =>
        [ /\ outcome # "running" => outcome' = outcome
          /\ outcome' = "success" => GateGreen ]_vars
  <2> SUFFICES ASSUME Control, Control', Next
               PROVE  /\ outcome # "running" => outcome' = outcome
                      /\ outcome' = "success" => GateGreen
    OBVIOUS
  <2>1. outcome # "running" => pc = "emit" \/ pc = "done"
    BY DEF Control, OutcomeFollows, TypeOK, GateSteps
  <2>2. pc = "emit" \/ pc = "done" =>
          (outcome # "running" => outcome' = outcome)
    BY DEF Next, ListChanges, NextPath, CheckChallenger, ScoreChallenger, ScoreChampion,
       RecheckChampion, FinishGate, CaseImpact, Die, Emit
  <2>3. ASSUME outcome' = "success"
        PROVE  GateGreen
    <3>1. pc' = "done"
      BY <2>3 DEF Control, OutcomeFollows
    <3>2. Emit
      BY <3>1 DEF Next, ListChanges, NextPath, CheckChallenger, ScoreChallenger,
         ScoreChampion, RecheckChampion, FinishGate, CaseImpact, Die, Goto, Judge, Record
    <3>3. QED
      BY <2>3, <3>2 DEF Emit, Control, OutcomeFollows, GateGreen
  <2>4. QED
    BY <2>1, <2>2, <2>3
<1>2. QED
  BY <1>1, ControlCorrect, PTL DEF Spec, OutcomeIsTheGates

-----------------------------------------------------------------------------
(* Truth: with an honest harness a recorded status is what the rule says *)

\* What the run has already learnt of the path it is judging.
Measured ==
    /\ pc \in {"score", "champion", "recheck"} => head[cur.niche].conforms
    /\ pc = "recheck" =>
         /\ base[cur.niche] # Absent
         /\ ~Better(head[cur.niche].score, base[cur.niche].score)

Truth == Control /\ Measured /\ VerdictIsTheRule

LEMMA HonestExits ==
    ASSUME HonestHarness, NEW right, NEW rc \in CheckExits(right, Faults)
    PROVE  /\ rc = ExitPass => right
           /\ rc \notin {ExitPass, ExitInfra} => ~right
  BY DEF HonestHarness, CheckExits, ExitPass, ExitFail, ExitInfra

\* The order is written twice, in Go (score.go:157-162) and in the shell of
\* the gate (entry-check.yml:79); the two agree on every pair of scores.
THEOREM ShellAgreesWithGo ==
    ASSUME NEW s \in Score, NEW c \in Score
    PROVE  ShellBetter(s.vendored, s.hazards, c.vendored, c.hazards)
             <=> Better(s, c)
  BY DEF Score, Better, ShellBetter

LEMMA BeatsIsBetter ==
    ASSUME TypeOK, NEW n \in Niches, head[n] # Absent, base[n] # Absent
    PROVE  Beats(n) <=> Better(head[n].score, base[n].score)
<1>1. head[n] \in Entries /\ base[n] \in Entries
  BY DEF TypeOK
<1>2. head[n].score \in Score /\ base[n].score \in Score
  BY <1>1, EntriesAssumption
<1>3. QED
  BY <1>2, ShellAgreesWithGo DEF Beats

\* A step that judges the current path keeps the truth when the status it
\* records is the rule's or no verdict.
LEMMA JudgeTruth ==
    ASSUME Truth, Control', pc \in Judging, NEW status, Judge(status),
           status \in {"infra-error", RuleStatus(cur)}
    PROVE  Truth'
<1> USE DEF Truth
<1>1. Measured'
  BY DEF Judge, Record, Measured
<1>2. VerdictIsTheRule'
  <2>1. \A p \in Paths : RuleStatus(p)' = RuleStatus(p)
    BY DEF Judge, Record, inputs, RuleStatus, IsDir
  <2>2. cur \in Paths
    BY DEF Control, CurrentIsOpen, TypeOK, Listed
  <2>3. verdict' = [verdict EXCEPT ![cur] = status] /\ verdict \in [Paths -> Statuses \cup {NoVerdict}]
    BY DEF Judge, Record, Control, TypeOK
  <2>4. QED
    BY <2>1, <2>2, <2>3 DEF VerdictIsTheRule
<1>3. QED
  BY <1>1, <1>2

\* A step that records nothing keeps every recorded truth.
LEMMA QuietTruth ==
    ASSUME Truth, UNCHANGED <<head, base, verdict>>
    PROVE  VerdictIsTheRule'
<1>1. \A p \in Paths : RuleStatus(p)' = RuleStatus(p)
  BY DEF RuleStatus, IsDir
<1>2. QED
  BY <1>1 DEF Truth, VerdictIsTheRule

LEMMA TruthStep ==
    ASSUME HonestHarness, Truth, [Next]_vars
    PROVE  Truth'
<1>0. Control'
  BY NextControl DEF Truth
<1> USE DEF Truth
<1>a. ASSUME pc \in Judging
      PROVE  /\ cur \in Paths /\ cur.niche \in Niches
             /\ IsDir(cur) /\ head[cur.niche] # Absent
  BY <1>a DEF Control, CurrentIsOpen, TypeOK, Listed, Paths, IsDir
<1>1. CASE ListChanges
  BY <1>0, <1>1, QuietTruth DEF ListChanges, inputs, Measured
<1>2. CASE NextPath
  <2>1. PICK path \in todo :
          /\ cur' = path
          /\ IF IsDir(path)
             THEN /\ pc' = "check"
                  /\ UNCHANGED <<inputs, verdict, fail, complete, artifact, outcome>>
             ELSE Record(path, "removed")
    BY <1>2 DEF NextPath
  <2>2. CASE IsDir(path)
    BY <1>0, <2>1, <2>2, QuietTruth DEF inputs, Measured
  <2>3. CASE ~IsDir(path)
    <3>1. /\ verdict' = [verdict EXCEPT ![path] = "removed"]
          /\ pc' = "next" /\ UNCHANGED <<head, base>>
      BY <2>1, <2>3 DEF Record, inputs
    <3>2. \A p \in Paths : RuleStatus(p)' = RuleStatus(p)
      BY <3>1 DEF RuleStatus, IsDir
    <3>3. RuleStatus(path) = "removed"
      BY <2>3 DEF RuleStatus
    <3>4. verdict \in [Paths -> Statuses \cup {NoVerdict}]
      BY DEF Control, TypeOK
    <3>5. VerdictIsTheRule'
      BY <3>1, <3>2, <3>3, <3>4 DEF VerdictIsTheRule
    <3>6. QED
      BY <1>0, <3>1, <3>5 DEF Measured
  <2>4. QED
    BY <2>2, <2>3
<1>3. CASE CheckChallenger
  <2>1. PICK rc \in CheckExits(head[cur.niche].conforms, Faults) :
          \/ rc = ExitPass /\ Goto("score")
          \/ rc = ExitInfra /\ Judge("infra-error")
          \/ rc \notin {ExitPass, ExitInfra} /\ Judge("conformance-fail")
    BY <1>3 DEF CheckChallenger
  <2>2. pc \in Judging
    BY <1>3 DEF CheckChallenger, Judging
  <2>3. CASE rc = ExitPass /\ Goto("score")
    <3>1. head[cur.niche].conforms
      BY <2>3, HonestExits
    <3>2. QED
      BY <1>0, <2>3, <3>1, QuietTruth DEF Goto, inputs, Measured
  <2>4. CASE rc = ExitInfra /\ Judge("infra-error")
    BY <1>0, <2>2, <2>4, JudgeTruth
  <2>5. CASE rc \notin {ExitPass, ExitInfra} /\ Judge("conformance-fail")
    <3>1. ~head[cur.niche].conforms
      BY <2>5, HonestExits
    <3>2. RuleStatus(cur) = "conformance-fail"
      BY <1>a, <2>2, <3>1 DEF RuleStatus
    <3>3. QED
      BY <1>0, <2>2, <2>5, <3>2, JudgeTruth
  <2>6. QED
    BY <2>1, <2>3, <2>4, <2>5
<1>4. CASE ScoreChallenger
  <2>1. pc \in Judging /\ pc = "score"
    BY <1>4 DEF ScoreChallenger, Judging
  <2>2. CASE Goto("champion")
    BY <1>0, <2>1, <2>2, QuietTruth DEF Goto, inputs, Measured
  <2>3. CASE Judge("infra-error")
    BY <1>0, <2>1, <2>3, JudgeTruth
  <2>4. QED
    BY <1>4, <2>2, <2>3 DEF ScoreChallenger
<1>5. CASE ScoreChampion
  <2>1. pc \in Judging /\ pc = "champion" /\ head[cur.niche].conforms
    BY <1>5 DEF ScoreChampion, Judging, Measured
  <2>2. CASE base[cur.niche] = Absent /\ Judge("new-niche")
    <3>1. RuleStatus(cur) = "new-niche"
      BY <1>a, <2>1, <2>2 DEF RuleStatus, NicheStatus
    <3>2. QED
      BY <1>0, <2>1, <2>2, <3>1, JudgeTruth
  <2>3. CASE Judge("infra-error")
    BY <1>0, <2>1, <2>3, JudgeTruth
  <2>4. CASE base[cur.niche] # Absent /\ Beats(cur.niche) /\ Judge("beats-champion")
    <3>1. Better(head[cur.niche].score, base[cur.niche].score)
      BY <1>a, <2>1, <2>4, BeatsIsBetter DEF Control
    <3>2. RuleStatus(cur) = "beats-champion"
      BY <1>a, <2>1, <2>4, <3>1 DEF RuleStatus, NicheStatus
    <3>3. QED
      BY <1>0, <2>1, <2>4, <3>2, JudgeTruth
  <2>5. CASE base[cur.niche] # Absent /\ ~Beats(cur.niche) /\ Goto("recheck")
    <3>1. ~Better(head[cur.niche].score, base[cur.niche].score)
      BY <1>a, <2>1, <2>5, BeatsIsBetter DEF Control
    <3>2. Measured'
      BY <2>1, <2>5, <3>1 DEF Goto, inputs, Measured
    <3>3. QED
      BY <1>0, <2>5, <3>2, QuietTruth DEF Goto, inputs
  <2>6. QED
    BY <1>5, <2>2, <2>3, <2>4, <2>5 DEF ScoreChampion
<1>6. CASE RecheckChampion
  <2>1. /\ pc \in Judging /\ head[cur.niche].conforms
        /\ base[cur.niche] # Absent
        /\ ~Better(head[cur.niche].score, base[cur.niche].score)
    BY <1>6 DEF RecheckChampion, Judging, Measured
  <2>2. PICK rc \in CheckExits(base[cur.niche].conforms, Faults) :
          \/ rc = ExitInfra /\ Judge("infra-error")
          \/ rc = ExitPass /\ Judge("not-improving")
          \/ rc \notin {ExitPass, ExitInfra} /\ Judge("open-niche")
    BY <1>6 DEF RecheckChampion
  <2>3. CASE rc = ExitInfra /\ Judge("infra-error")
    BY <1>0, <2>1, <2>3, JudgeTruth
  <2>4. CASE rc = ExitPass /\ Judge("not-improving")
    <3>1. RuleStatus(cur) = "not-improving"
      BY <1>a, <2>1, <2>4, HonestExits DEF RuleStatus, NicheStatus
    <3>2. QED
      BY <1>0, <2>1, <2>4, <3>1, JudgeTruth
  <2>5. CASE rc \notin {ExitPass, ExitInfra} /\ Judge("open-niche")
    <3>1. RuleStatus(cur) = "open-niche"
      BY <1>a, <2>1, <2>5, HonestExits DEF RuleStatus, NicheStatus
    <3>2. QED
      BY <1>0, <2>1, <2>5, <3>1, JudgeTruth
  <2>6. QED
    BY <2>2, <2>3, <2>4, <2>5
<1>7. CASE FinishGate
  BY <1>0, <1>7, QuietTruth DEF FinishGate, inputs, Measured
<1>8. CASE CaseImpact
  BY <1>0, <1>8, QuietTruth DEF CaseImpact, Goto, inputs, Measured
<1>9. CASE Die
  BY <1>0, <1>9, QuietTruth DEF Die, inputs, Measured
<1>10. CASE Emit
  BY <1>0, <1>10, QuietTruth DEF Emit, inputs, Measured
<1>11. CASE UNCHANGED vars
  BY <1>0, <1>11, QuietTruth DEF vars, inputs, Measured
<1>12. QED
  BY <1>1, <1>2, <1>3, <1>4, <1>5, <1>6, <1>7, <1>8, <1>9, <1>10, <1>11 DEF Next

\* With a harness that only fails as a sandbox failure, every recorded status
\* and everything the run still holds about its current path is true.
THEOREM TruthInvariant ==
    ASSUME HonestHarness
    PROVE  Spec => []Truth
<1>1. Init => Truth
  BY InitControl DEF Init, Truth, Measured, VerdictIsTheRule, NoVerdict
<1>2. Truth /\ [Next]_vars => Truth'
  BY TruthStep
<1>3. QED
  BY <1>1, <1>2, PTL DEF Spec

\* However scores, daemon, diff and steps fail, a recorded status is the one
\* the challenger rule gives the two trees, or says that there is none.
THEOREM VerdictsAreTheRule ==
    ASSUME HonestHarness
    PROVE  Spec => []VerdictIsTheRule
<1>1. Truth => VerdictIsTheRule
  BY DEF Truth
<1>2. QED
  BY <1>1, TruthInvariant, PTL

LEMMA RuleSaysWins ==
    ASSUME NEW p \in Paths, RuleStatus(p) \in PassStatuses
    PROVE  Challenger(p.niche) /\ Wins(p.niche)
  BY DEF RuleStatus, PassStatuses, NicheStatus, Challenger, Wins, IsDir

LEMMA RuleSaysLoses ==
    ASSUME NEW p \in Paths, RuleStatus(p) = "not-improving"
    PROVE  ~Wins(p.niche)
  BY DEF RuleStatus, NicheStatus, Wins

LEMMA RuleSaysFails ==
    ASSUME NEW p \in Paths, RuleStatus(p) = "conformance-fail"
    PROVE  head[p.niche] # Absent /\ ~head[p.niche].conforms
  BY DEF RuleStatus, NicheStatus, IsDir

\* A green run over comparable trees has judged every niche the pull request
\* changes, and each of them holds a passing entry that wins its niche.
THEOREM GreenStaysEarned ==
    ASSUME HonestHarness
    PROVE  Spec => []GreenIsEarned
<1>1. Truth => GreenIsEarned
  <2> SUFFICES ASSUME Truth, outcome = "success", diffable, NEW n \in Changed
               PROVE  Challenger(n) /\ Wins(n)
    BY DEF GreenIsEarned
  <2>1. PICK p \in listing : p.niche = n
    BY DEF Changed
  <2>2. p \in Listed /\ p \in Paths
    BY DEF Listed, Truth, Control, TypeOK
  <2>3. complete /\ ~fail
    BY DEF Truth, Control, OutcomeFollows, GateGreen
  <2>4. verdict[p] \in Statuses
    BY <2>2, <2>3 DEF Truth, Control, NothingSkipped, TypeOK
  <2>5. verdict[p] \in PassStatuses
    BY <2>2, <2>3, <2>4 DEF Truth, Control, FlagMirrorsVerdicts, FailingVerdict, Statuses
  <2>6. RuleStatus(p) \in PassStatuses
    BY <2>2, <2>5 DEF Truth, VerdictIsTheRule, PassStatuses, NoVerdict
  <2>7. QED
    BY <2>1, <2>2, <2>6, RuleSaysWins
<1>2. QED
  BY <1>1, TruthInvariant, PTL

\* A class the close bot acts on rests on a measured verdict for every listed
\* path, and on one entry that truly has the failing the class names.
THEOREM RejectStaysEarned ==
    ASSUME HonestHarness
    PROVE  Spec => []RejectIsEarned
<1>1. Truth => RejectIsEarned
  <2> SUFFICES ASSUME Truth, artifact.class \in AutoReject, artifact # NoArtifact
               PROVE  RejectIsEarned
    BY DEF RejectIsEarned, AutoReject, NoArtifact
  <2>1. /\ artifact = Result /\ complete
        /\ artifact.class = Class(Recorded) /\ artifact.statuses = Recorded
        /\ artifact.touchedOther = (diffable /\ otherChanged)
    BY DEF Truth, Control, ArtifactIsResult, Result, AutoReject
  <2>2. /\ artifact.class \in Recorded
        /\ "removed" \notin Recorded /\ "infra-error" \notin Recorded
        /\ artifact.class = "not-improving" => "conformance-fail" \notin Recorded
    BY <2>1 DEF Class, AutoReject
  <2>3. PICK q \in Paths : verdict[q] = artifact.class
    BY <2>2 DEF Recorded
  <2>4. q \in Listed /\ diffable /\ Listed = listing
    BY <2>3 DEF AutoReject, NoVerdict, Truth, Control, NothingSkipped, Listed
  <2>5. \A p \in listing : p \in Paths /\ verdict[p] \in Recorded
    BY <2>1, <2>4 DEF Truth, Control, NothingSkipped, TypeOK, Recorded
  <2>6. \A p \in listing : verdict[p] \notin {"infra-error", "removed", NoVerdict}
    BY <2>2, <2>5 DEF Recorded
  <2>7. \A p \in listing : verdict[p] = RuleStatus(p) /\ IsDir(p)
    BY <2>5, <2>6 DEF Truth, VerdictIsTheRule, RuleStatus
  <2>8. artifact.touchedOther = otherChanged
    BY <2>1, <2>4 DEF Truth, Control, TypeOK
  <2>9. ASSUME artifact.class = "conformance-fail"
        PROVE  \E n \in Changed : head[n] # Absent /\ ~head[n].conforms
    <3>1. RuleStatus(q) = "conformance-fail" /\ q.niche \in Changed
      BY <2>3, <2>4, <2>7, <2>9 DEF Changed
    <3>2. QED
      BY <3>1, RuleSaysFails
  <2>10. ASSUME artifact.class = "not-improving"
         PROVE  /\ \A n \in Changed : Challenger(n)
                /\ \E n \in Changed : ~Wins(n)
    <3>1. RuleStatus(q) = "not-improving" /\ q.niche \in Changed
      BY <2>3, <2>4, <2>7, <2>10 DEF Changed
    <3>2. \A p \in listing : RuleStatus(p) \notin {"removed", "conformance-fail"}
      BY <2>2, <2>5, <2>6, <2>7, <2>10
    <3>3. \A p \in listing : Challenger(p.niche)
      BY <2>7, <3>2 DEF RuleStatus, Challenger, IsDir
    <3>4. QED
      BY <3>1, <3>3, RuleSaysLoses DEF Changed
  <2>11. QED
    BY <2>1, <2>2, <2>6, <2>7, <2>8, <2>9, <2>10 DEF RejectIsEarned
<1>2. QED
  BY <1>1, TruthInvariant, PTL

=============================================================================
