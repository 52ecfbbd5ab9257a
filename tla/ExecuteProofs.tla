---------------------------- MODULE ExecuteProofs ----------------------------
(***************************************************************************)
(* Proofs about the processes behind execute, for every set of programs,   *)
(* every number of cases and every subset of the faults: a call reports    *)
(* what the harness is proved against (ArenaCheckProofs), an exit code is  *)
(* a program's own, and nothing that still runs had one.                   *)
(***************************************************************************)
EXTENDS Execute, TLAPS

Faulty == {"sandbox", "host", "stall"}

\* A command of the right shape, whatever stands behind the other variables.
Shape ==
    /\ TypeOK
    /\ prog.run \in Behaviour /\ prog.helper \in {"none", "leaves", "stays"}
    /\ sandbox \in BOOLEAN
    /\ reports = [c \in 0..Calls |-> reports[c]]

\* The processes of a call: a child runs while the call waits, the helper is
\* the host program's own.
Processes ==
    /\ phase = "idle" => child = "none"
    /\ child = "none" => job = "none" /\ helper = "none" /\ timer = "running"
    /\ phase = "waiting" => child # "none"
    /\ child = "running" => phase = "waiting"
    /\ job = "ended" => prog.run.ends
    /\ helper # "none" => ~sandbox /\ prog.helper # "none"
    /\ helper = "gone" => prog.helper = "leaves"
    /\ child # "none" /\ ~sandbox /\ prog.helper # "none" => helper # "none"

\* Who made the child exit.
OwnEnd == exit = Started(prog.run) /\ job = "ended" /\ "sandbox" \notin events
DaemonsEnd == sandbox /\ exit \in Broken \ {NotStarted} /\ "sandbox" \in Faults

\* The child is killed by the timer only; the timer expires only for a reason.
Ends ==
    /\ child = "killed" => timer = "expired"
    /\ child = "exited" => OwnEnd \/ DaemonsEnd
    /\ child # "exited" /\ child # "none" => "sandbox" \notin events
    /\ child = "none" /\ phase # "returned" /\ phase # "over" => events = {}
    /\ child # "none" => "host" \notin events
    /\ child # "none" /\ "stall" \in events => timer = "expired"
    /\ timer = "expired" =>
           \/ ~prog.run.ends
           \/ ~sandbox /\ prog.helper # "none"
           \/ sandbox /\ "stall" \in Faults

\* What a call has returned.
Reported ==
    phase = "returned" =>
        \/ /\ child = "none" /\ report = NotStarted
           /\ events = {IF sandbox THEN "sandbox" ELSE "host"} /\ events \subseteq Faults
        \/ child \in {"exited", "killed"} /\ PipesClosed /\ report = Result

\* What earlier calls have left running, and what they have reported.
Past ==
    /\ phase = "returned" => reports[call] = Classify(sandbox, report)
    /\ \A c \in left : c < call \/ (c = call /\ phase \in {"returned", "over"})
    /\ \A c \in left : reports[c] # "code"
    /\ call > 0 => reports[0] = "code"

Inv == Shape /\ Processes /\ Ends /\ Reported /\ Past

-----------------------------------------------------------------------------
(* Reports *)

LEMMA Classes ==
    ASSUME NEW s, NEW r
    PROVE  Classify(s, r) \in {"code", "verdict", "infra"}
  BY DEF Classify

\* A code is the program's own, and the program has ended.
LEMMA CodeIsOwn ==
    ASSUME Inv, child \in {"exited", "killed"}, Classify(sandbox, Result) = "code"
    PROVE  job = "ended" /\ exit = Started(prog.run)
<1>1. ~Result.deadline /\ timer = "running" /\ Result.exit = exit.exit
      /\ Result.complains = exit.complains
  BY DEF Classify, Result, Inv, Shape, TypeOK
<1>2. child = "exited"
  BY <1>1 DEF Inv, Ends
<1>3. ~DaemonsEnd
  BY <1>1 DEF DaemonsEnd, Broken, NotStarted, Classify, Result
<1>4. QED
  BY <1>2, <1>3 DEF Inv, Ends, OwnEnd

-----------------------------------------------------------------------------
(* The steps *)

\* A step within a call that leaves its past alone.
LEMMA WithinCall ==
    ASSUME Inv, phase = "waiting", phase' = "waiting", Shape', Processes', Ends',
           UNCHANGED <<call, left, reports>>
    PROVE  Inv'
  BY DEF Inv, Reported, Past

\* A call returns: a program that still runs has reported no code.
LEMMA ReturnKeeps ==
    ASSUME Inv, phase \in {"idle", "waiting"}, NEW r, Return(r), UNCHANGED <<sandbox, call>>,
           job = "running" => Classify(sandbox, r) # "code"
    PROVE  /\ Past'
           /\ reports' = [c \in 0..Calls |-> reports'[c]] /\ left' \subseteq 0..Calls
           /\ \A c \in 0..Calls : reports'[c] \in {"none", "code", "verdict", "infra"}
<1>1. call \in 0..Calls /\ call \notin left /\ Calls \in Nat
  BY ExecuteAssumption DEF Inv, Shape, TypeOK, Past
<1>2. reports'[call] = Classify(sandbox, r) /\ \A c \in 0..Calls : c # call => reports'[c] = reports[c]
  BY <1>1 DEF Return, Inv, Shape
<1>3. reports' = [c \in 0..Calls |-> reports'[c]]
  BY <1>1 DEF Return, Inv, Shape
<1>4. left' \subseteq left \cup {call} /\ (call \in left' => job = "running")
  BY <1>1 DEF Return
<1>5. left' \subseteq 0..Calls
  BY <1>1, <1>4 DEF Inv, Shape, TypeOK
<1>6. \A c \in left' : c # call => reports'[c] = reports[c] /\ c \in left
  BY <1>2, <1>4, <1>5
<1>7. Past'
  <2>1. phase' = "returned" /\ report' = r
    BY DEF Return
  <2>2. call > 0 => reports'[0] = "code"
    BY <1>1, <1>2 DEF Inv, Past
  <2>3. \A c \in left' : reports'[c] # "code"
    BY <1>2, <1>4, <1>6 DEF Inv, Past
  <2>4. \A c \in left' : c < call \/ c = call
    BY <1>6 DEF Inv, Past
  <2>5. QED
    BY <1>2, <2>1, <2>2, <2>3, <2>4 DEF Past
<1>8. QED
  BY <1>2, <1>3, <1>5, <1>7, Classes DEF Inv, Shape, TypeOK

\* What a child, the timer and a call that is not made leave to report.
LEMMA Outcomes ==
    /\ Nothing \in Outcome /\ NotStarted \in Outcome /\ Broken \subseteq Outcome
    /\ \A b \in Behaviour : Started(b) \in Outcome
    /\ exit \in Outcome /\ timer \in {"running", "expired"} => Result \in Outcome
<1>1. Nothing \in Outcome /\ NotStarted \in Outcome
  BY DEF Nothing, NotStarted, Outcome
<1>2. Broken \subseteq Outcome
  BY <1>1 DEF Broken, Outcome
<1>3. \A b \in Behaviour : Started(b) \in Outcome
  BY DEF Behaviour, Started, Outcome
<1>4. exit \in Outcome /\ timer \in {"running", "expired"} => Result \in Outcome
  BY DEF Result, Outcome
<1>5. QED
  BY <1>1, <1>2, <1>3, <1>4

LEMMA StartKeeps == Inv /\ Start => Inv'
<1> SUFFICES ASSUME Inv, Start
             PROVE  Inv'
  OBVIOUS
<1>1. /\ phase = "idle" /\ phase' = "waiting" /\ child = "none" /\ child' = "running"
      /\ timer = "running" /\ events = {}
      /\ UNCHANGED <<sandbox, call, prog, timer, exit, report, events, left, reports>>
  BY DEF Start, Inv, Processes, Ends
<1>2. /\ sandbox => job' = "none" /\ helper' = "none"
      /\ ~sandbox => job' = "running" /\ helper' = IF prog.helper = "none" THEN "none" ELSE "running"
  BY <1>1 DEF Start, Inv, Processes
<1>3. Shape'
  BY <1>1, <1>2 DEF Inv, Shape, TypeOK
<1>4. Processes' /\ Ends'
  BY <1>1, <1>2, <1>3 DEF Inv, Shape, Processes, Ends
<1>5. QED
  BY <1>1, <1>3, <1>4 DEF Inv, Reported, Past

LEMMA StartFailsKeeps == Inv /\ StartFails => Inv'
<1> SUFFICES ASSUME Inv, StartFails
             PROVE  Inv'
  OBVIOUS
<1>1. /\ phase = "idle" /\ child = "none" /\ job = "none" /\ phase' = "returned"
      /\ report' = NotStarted
      /\ events' = {IF sandbox THEN "sandbox" ELSE "host"} /\ events' \subseteq Faults
      /\ UNCHANGED <<sandbox, call, prog, timer, child, exit, job, helper>>
  BY DEF StartFails, Return, Inv, Processes
<1>2. /\ Past' /\ reports' = [c \in 0..Calls |-> reports'[c]] /\ left' \subseteq 0..Calls
      /\ \A c \in 0..Calls : reports'[c] \in {"none", "code", "verdict", "infra"}
  BY <1>1, ReturnKeeps DEF StartFails
<1>3. Shape'
  BY <1>1, <1>2, Outcomes DEF Inv, Shape, TypeOK
<1>4. Processes' /\ Ends' /\ Reported'
  BY <1>1 DEF Inv, Processes, Ends, Reported
<1>5. QED
  BY <1>2, <1>3, <1>4 DEF Inv

LEMMA RunReturnsKeeps == Inv /\ RunReturns => Inv'
<1> SUFFICES ASSUME Inv, RunReturns
             PROVE  Inv'
  OBVIOUS
<1>1. /\ phase = "waiting" /\ child \in {"exited", "killed"} /\ PipesClosed
      /\ phase' = "returned" /\ report' = Result /\ Return(Result)
      /\ UNCHANGED <<sandbox, call, prog, timer, child, exit, job, helper, events>>
  BY DEF RunReturns, Return, callVars
<1>2. job = "running" => Classify(sandbox, Result) # "code"
  BY <1>1, CodeIsOwn
<1>3. /\ Past' /\ reports' = [c \in 0..Calls |-> reports'[c]] /\ left' \subseteq 0..Calls
      /\ \A c \in 0..Calls : reports'[c] \in {"none", "code", "verdict", "infra"}
  BY <1>1, <1>2, ReturnKeeps
<1>4. Shape'
  BY <1>1, <1>3, Outcomes DEF Inv, Shape, TypeOK
<1>5. Processes' /\ Ends'
  BY <1>1 DEF Inv, Processes, Ends, OwnEnd, DaemonsEnd
<1>6. Reported'
  BY <1>1 DEF Reported, Result, PipesClosed
<1>7. QED
  BY <1>3, <1>4, <1>5, <1>6 DEF Inv

LEMMA ExpireKeeps == Inv /\ Expire => Inv'
<1> SUFFICES ASSUME Inv, Expire
             PROVE  Inv'
  OBVIOUS
<1>1. /\ phase = "waiting" /\ timer' = "expired" /\ child # "none"
      /\ events' = IF sandbox /\ prog.run.ends THEN events \cup {"stall"} ELSE events
      /\ UNCHANGED <<sandbox, call, phase, prog, child, exit, job, helper, report, left, reports>>
  BY DEF Expire, Inv, Processes
<1>2. ~prog.run.ends \/ (~sandbox /\ prog.helper # "none") \/ (sandbox /\ "stall" \in Faults)
  BY DEF Expire, Slow, Inv, Processes
<1>3. Shape'
  BY <1>1 DEF Inv, Shape, TypeOK
<1>4. Processes'
  BY <1>1 DEF Inv, Processes
<1>5. Ends'
  BY <1>1, <1>2 DEF Inv, Ends, OwnEnd, DaemonsEnd
<1>6. QED
  BY <1>1, <1>3, <1>4, <1>5, WithinCall

LEMMA KillKeeps == Inv /\ Kill => Inv'
<1> SUFFICES ASSUME Inv, Kill
             PROVE  Inv'
  OBVIOUS
<1>1. /\ phase = "waiting" /\ timer = "expired" /\ child = "running" /\ child' = "killed"
      /\ job' = IF sandbox THEN job ELSE "killed"
      /\ UNCHANGED <<sandbox, call, phase, prog, timer, exit, helper, report, events, left, reports>>
  BY DEF Kill
<1>2. Shape'
  BY <1>1 DEF Inv, Shape, TypeOK
<1>3. Processes'
  BY <1>1 DEF Inv, Processes
<1>4. Ends'
  BY <1>1 DEF Inv, Ends
<1>5. QED
  BY <1>1, <1>2, <1>3, <1>4, WithinCall

LEMMA ContainerStartsKeeps == Inv /\ ContainerStarts => Inv'
<1> SUFFICES ASSUME Inv, ContainerStarts
             PROVE  Inv'
  OBVIOUS
<1>1. /\ phase = "waiting" /\ child = "running" /\ job' = "running"
      /\ UNCHANGED <<sandbox, call, phase, prog, timer, child, exit, helper, report, events, left, reports>>
  BY DEF ContainerStarts
<1>2. Shape' /\ Processes' /\ Ends'
  BY <1>1 DEF Inv, Shape, TypeOK, Processes, Ends
<1>3. QED
  BY <1>1, <1>2, WithinCall

LEMMA ProgramEndsKeeps == Inv /\ ProgramEnds => Inv'
<1> SUFFICES ASSUME Inv, ProgramEnds
             PROVE  Inv'
  OBVIOUS
<1>1. /\ phase = "waiting" /\ job = "running" /\ prog.run.ends /\ job' = "ended" /\ child # "none"
      /\ UNCHANGED <<sandbox, call, phase, prog, timer, helper, report, events, left, reports>>
  BY DEF ProgramEnds, Inv, Processes
<1>2. /\ sandbox => child' = child /\ exit' = exit
      /\ ~sandbox => child' = "exited" /\ exit' = Started(prog.run)
  BY DEF ProgramEnds
<1>3. Shape' /\ Processes'
  BY <1>1, <1>2, Outcomes DEF Inv, Shape, TypeOK, Processes
<1>4. ~sandbox => "sandbox" \notin events
  BY <1>1 DEF Inv, Ends, OwnEnd, DaemonsEnd
<1>5. Started(prog.run)' = Started(prog.run)
  BY <1>1 DEF Started
<1>6. Ends'
  BY <1>1, <1>2, <1>4, <1>5 DEF Inv, Ends, OwnEnd, DaemonsEnd
<1>7. QED
  BY <1>1, <1>3, <1>6, WithinCall

LEMMA CliExitsKeeps == Inv /\ CliExits => Inv'
<1> SUFFICES ASSUME Inv, CliExits
             PROVE  Inv'
  OBVIOUS
<1>1. /\ child = "running" /\ job = "ended" /\ child' = "exited" /\ exit' = Started(prog.run)
      /\ phase = "waiting" /\ "sandbox" \notin events
      /\ UNCHANGED <<sandbox, call, phase, prog, timer, job, helper, report, events, left, reports>>
  BY DEF CliExits, Inv, Processes, Ends
<1>2. Shape' /\ Processes'
  BY <1>1, Outcomes DEF Inv, Shape, TypeOK, Processes
<1>3. Started(prog.run)' = Started(prog.run)
  BY <1>1 DEF Started
<1>4. Ends'
  BY <1>1, <1>3 DEF Inv, Ends, OwnEnd
<1>5. QED
  BY <1>1, <1>2, <1>4, WithinCall

LEMMA DaemonFailsKeeps == Inv /\ DaemonFails => Inv'
<1> SUFFICES ASSUME Inv, DaemonFails
             PROVE  Inv'
  OBVIOUS
<1>1. /\ sandbox /\ "sandbox" \in Faults /\ phase = "waiting" /\ child = "running"
      /\ child' = "exited" /\ exit' \in Broken \ {NotStarted} /\ events' = events \cup {"sandbox"}
      /\ UNCHANGED <<sandbox, call, phase, prog, timer, job, helper, report, left, reports>>
  BY DEF DaemonFails
<1>2. Shape' /\ Processes'
  BY <1>1, Outcomes DEF Inv, Shape, TypeOK, Processes
<1>3. Ends'
  BY <1>1 DEF Inv, Ends, DaemonsEnd
<1>4. QED
  BY <1>1, <1>2, <1>3, WithinCall

LEMMA HelperLeavesKeeps == Inv /\ HelperLeaves => Inv'
<1> SUFFICES ASSUME Inv, HelperLeaves
             PROVE  Inv'
  OBVIOUS
<1>1. /\ helper = "running" /\ prog.helper = "leaves" /\ helper' = "gone"
      /\ UNCHANGED <<sandbox, call, phase, prog, timer, child, exit, job, report, events, left, reports>>
  BY DEF HelperLeaves
<1>2. Shape' /\ Processes'
  BY <1>1 DEF Inv, Shape, TypeOK, Processes
<1>3. Ends' /\ Past'
  BY <1>1 DEF Inv, Ends, Past, OwnEnd, DaemonsEnd
<1>4. Reported'
  BY <1>1 DEF Inv, Reported, PipesClosed, Result
<1>5. QED
  BY <1>2, <1>3, <1>4 DEF Inv

LEMMA OrphanEndsKeeps == Inv /\ OrphanEnds => Inv'
<1> SUFFICES ASSUME Inv, OrphanEnds
             PROVE  Inv'
  OBVIOUS
<1>1. /\ left' \subseteq left
      /\ UNCHANGED <<sandbox, call, phase, report, reports, prog, timer, child, exit, job, helper, events>>
  BY DEF OrphanEnds, callVars
<1>2. Shape' /\ Processes' /\ Past'
  BY <1>1 DEF Inv, Shape, TypeOK, Processes, Past
<1>3. Ends' /\ Reported'
  BY <1>1 DEF Inv, Ends, OwnEnd, DaemonsEnd, Reported, PipesClosed, Result
<1>4. QED
  BY <1>2, <1>3 DEF Inv

LEMMA NextCallKeeps == Inv /\ NextCall => Inv'
<1> SUFFICES ASSUME Inv, NextCall
             PROVE  Inv'
  OBVIOUS
<1>1. phase = "returned" /\ UNCHANGED <<sandbox, left, reports>> /\ call \in Nat
      /\ Calls \in Nat /\ child # "running"
  BY ExecuteAssumption DEF NextCall, Inv, Shape, TypeOK, Processes
<1>2. CASE GoesOn
  <2>1. /\ call' = call + 1 /\ phase' = "idle" /\ prog' \in Programs
        /\ timer' = "running" /\ child' = "none" /\ exit' = Nothing /\ report' = Nothing
        /\ job' = "none" /\ helper' = "none" /\ events' = {}
    BY <1>2 DEF NextCall
  <2>2. call' \in 0..Calls
    BY <1>1, <1>2, <2>1 DEF GoesOn
  <2>3. prog'.run \in Behaviour /\ prog'.helper \in {"none", "leaves", "stays"}
    BY <2>1, ExecuteAssumption
  <2>4. Shape'
    BY <1>1, <2>1, <2>2, <2>3, Outcomes DEF Inv, Shape, TypeOK
  <2>5. Processes' /\ Ends' /\ Reported'
    BY <2>1 DEF Processes, Ends, Reported
  <2>6. Past'
    <3>1. reports[0] = "code"
      BY <1>1, <1>2 DEF GoesOn, Inv, Past
    <3>2. \A c \in left : c \in Int
      BY DEF Inv, Shape, TypeOK
    <3>3. \A c \in left : c < call'
      BY <1>1, <2>1, <3>2 DEF Inv, Past
    <3>4. QED
      BY <1>1, <2>1, <3>1, <3>3 DEF Inv, Past
  <2>7. QED
    BY <2>4, <2>5, <2>6 DEF Inv
<1>3. CASE ~GoesOn
  <2>1. phase' = "over"
        /\ UNCHANGED <<call, prog, timer, child, exit, job, helper, events, report>>
    BY <1>3 DEF NextCall, callVars
  <2>2. Shape'
    BY <1>1, <2>1 DEF Inv, Shape, TypeOK
  <2>3. Processes' /\ Past' /\ Reported'
    BY <1>1, <2>1 DEF Inv, Processes, Past, Reported
  <2>4. Ends'
    BY <1>1, <2>1 DEF Inv, Ends, OwnEnd, DaemonsEnd
  <2>5. QED
    BY <2>2, <2>3, <2>4 DEF Inv
<1>4. QED
  BY <1>2, <1>3

LEMMA StutterKeeps == Inv /\ UNCHANGED vars => Inv'
  BY DEF vars, callVars, Inv, Shape, TypeOK, Processes, Ends, OwnEnd, DaemonsEnd, Reported,
         PipesClosed, Result, Past

LEMMA InvStep == Inv /\ [Next]_vars => Inv'
  BY StartKeeps, StartFailsKeeps, ExpireKeeps, KillKeeps, RunReturnsKeeps, NextCallKeeps,
     ContainerStartsKeeps, ProgramEndsKeeps, CliExitsKeeps, DaemonFailsKeeps,
     HelperLeavesKeeps, OrphanEndsKeeps, StutterKeeps DEF Next

LEMMA InitInv == Init => Inv
<1> SUFFICES ASSUME Init
             PROVE  Inv
  OBVIOUS
<1>1. prog.run \in Behaviour /\ prog.helper \in {"none", "leaves", "stays"} /\ sandbox \in BOOLEAN
      /\ Calls \in Nat
  BY ExecuteAssumption DEF Init
<1>2. Shape
  BY <1>1, Outcomes DEF Init, Shape, TypeOK
<1>3. QED
  BY <1>2 DEF Init, Inv, Processes, Ends, Reported, Past

LEMMA Invariant == Spec => []Inv
  BY InitInv, InvStep, PTL DEF Spec

-----------------------------------------------------------------------------
(* What follows from it *)

\* Every variable stays in its range.
THEOREM ExecuteTypeCorrect == Spec => []TypeOK
<1>1. Inv => TypeOK
  BY DEF Inv, Shape
<1>2. QED
  BY <1>1, Invariant, PTL

\* However program, CLI, daemon, timer and pipes interleave, an exit code and
\* the output with it are those of a program that ended by itself, with nobody
\* left who could still write.
THEOREM CodeMeansEndedAlways == Spec => []CodeMeansEnded
<1>1. ASSUME Inv, phase = "returned", Classify(sandbox, report) = "code"
      PROVE  job = "ended" /\ helper # "running" /\ report.matches = prog.run.matches
  <2>1. report # NotStarted
    BY <1>1 DEF Classify, NotStarted
  <2>2. child \in {"exited", "killed"} /\ PipesClosed /\ report = Result
    BY <1>1, <2>1 DEF Inv, Reported
  <2>3. job = "ended" /\ exit = Started(prog.run)
    BY <1>1, <2>2, CodeIsOwn
  <2>4. helper # "running"
    BY <1>1, <2>2 DEF PipesClosed, Inv, Processes
  <2>5. QED
    BY <2>2, <2>3, <2>4 DEF Result, Started
<1>2. Inv => CodeMeansEnded
  BY <1>1 DEF CodeMeansEnded
<1>3. QED
  BY <1>2, Invariant, PTL

\* The cases never share their source directory with a build that still runs.
THEOREM BuildAlwaysOver == Spec => []BuildIsOver
<1>1. Inv => BuildIsOver
  BY DEF Inv, Past, BuildIsOver
<1>2. QED
  BY <1>1, Invariant, PTL

\* Whatever container outlives its call had no exit code to report.
THEOREM NothingJudgedIsLeft == Spec => []LeftoverWasNoCode
<1>1. Inv => LeftoverWasNoCode
  BY DEF Inv, Past, LeftoverWasNoCode
<1>2. QED
  BY <1>1, Invariant, PTL

-----------------------------------------------------------------------------
(* The promise to the harness *)

\* What a program can be seen to be: itself, unless something holds its output.
LEMMA SeenSays ==
    ASSUME Shape
    PROVE  /\ Seen # {}
           /\ sandbox \/ prog.helper # "stays" => prog.run \in Seen
           /\ ~sandbox /\ prog.helper # "none" => [prog.run EXCEPT !.ends = FALSE] \in Seen
  BY DEF Seen, Shape

LEMMA OwnExecution ==
    ASSUME NEW s, NEW b
    PROVE  \E events_ \in {{}, {"imitated"}} : <<Started(b), events_>> \in Executions(s, b)
  BY DEF Executions

\* A report of the deadline needs no more than some execution that is one.
LEMMA TimeoutIsExecution ==
    ASSUME Inv, phase = "returned", report = Result, timer = "expired"
    PROVE  \E b \in Seen : \E x \in Executions(sandbox, b) : SameReport(report, x[1])
<1>1. Classify(sandbox, report) = "verdict"
  BY DEF Classify, Result
<1>2. \A r : r.deadline => SameReport(report, r)
  BY <1>1 DEF SameReport, Classify
<1>3. CASE sandbox /\ prog.run.ends
  <2>1. "stall" \in Faults
    BY <1>3 DEF Inv, Ends
  <2>2. <<Stalled, {"stall"}>> \in Executions(sandbox, prog.run)
    BY <1>3, <2>1 DEF Executions
  <2>3. SameReport(report, Stalled)
    BY <1>2 DEF Stalled
  <2>4. QED
    BY <1>3, <2>2, <2>3, SeenSays DEF Inv
<1>4. CASE \E b \in Seen : ~b.ends
  <2>1. PICK b \in Seen : ~b.ends
    BY <1>4
  <2>2. PICK e : <<Started(b), e>> \in Executions(sandbox, b)
    BY OwnExecution
  <2>3. Started(b).deadline
    BY <2>1 DEF Started
  <2>4. SameReport(report, Started(b))
    BY <1>2, <2>3
  <2>5. QED
    BY <2>1, <2>2, <2>4
<1>5. ~prog.run.ends \/ (~sandbox /\ prog.helper # "none") \/ (sandbox /\ prog.run.ends)
  BY DEF Inv, Ends, Shape, Behaviour
<1>6. CASE ~prog.run.ends /\ (sandbox \/ prog.helper = "none")
  BY <1>4, <1>6, SeenSays DEF Inv
<1>7. CASE ~sandbox /\ prog.helper # "none"
  <2>1. ~[prog.run EXCEPT !.ends = FALSE].ends
    BY DEF Inv, Shape, Behaviour
  <2>2. QED
    BY <1>4, <1>7, <2>1, SeenSays DEF Inv
<1>8. QED
  BY <1>3, <1>5, <1>6, <1>7

\* A child that exited in time: the program's own end, or the daemon's.
LEMMA ExitIsExecution ==
    ASSUME Inv, phase = "returned", report = Result, timer = "running",
           child = "exited", PipesClosed
    PROVE  \E b \in Seen : \E x \in Executions(sandbox, b) :
               SameReport(report, x[1]) /\ events \subseteq x[2]
<1>1. events \subseteq {"sandbox"}
  BY DEF Inv, Ends, Shape, TypeOK
<1>2. CASE OwnEnd
  <2>1. prog.run.ends
    BY <1>2 DEF OwnEnd, Inv, Processes
  <2>2. report = Started(prog.run)
    BY <1>2, <2>1 DEF OwnEnd, Result, Started, Inv, Shape, Behaviour
  <2>3. prog.run \in Seen
    BY SeenSays DEF Inv, Processes, PipesClosed, Shape, TypeOK
  <2>4. events = {}
    BY <1>1, <1>2 DEF OwnEnd
  <2>5. PICK e : <<Started(prog.run), e>> \in Executions(sandbox, prog.run)
    BY OwnExecution
  <2>6. SameReport(report, Started(prog.run))
    BY <2>2 DEF SameReport
  <2>7. QED
    BY <2>3, <2>4, <2>5, <2>6
<1>3. CASE DaemonsEnd
  <2>1. report = exit
    <3>1. report = [started |-> TRUE, deadline |-> FALSE, exit |-> exit.exit,
                    complains |-> exit.complains, matches |-> exit.matches]
      BY DEF Result
    <3>2. QED
      BY <1>3, <3>1 DEF DaemonsEnd, Broken, NotStarted
  <2>2. <<exit, {"sandbox"}>> \in Executions(sandbox, prog.run)
    BY <1>3 DEF DaemonsEnd, Executions
  <2>3. prog.run \in Seen
    BY <1>3, SeenSays DEF DaemonsEnd, Inv
  <2>4. SameReport(report, exit)
    BY <2>1 DEF SameReport
  <2>5. QED
    BY <1>1, <2>2, <2>3, <2>4
<1>4. QED
  BY <1>2, <1>3 DEF Inv, Ends

\* What a call returns is one of the executions ArenaCheck is proved against,
\* whatever the processes behind it did, in whatever order.
THEOREM ExecutionsAreKept == Spec => []KeepsExecutions
<1>1. ASSUME Inv, phase = "returned"
      PROVE  \E b \in Seen : \E x \in Executions(sandbox, b) :
                 SameReport(report, x[1]) /\ (report.deadline \/ events \subseteq x[2])
  <2>1. CASE child = "none"
    <3>1. report = NotStarted /\ events = {IF sandbox THEN "sandbox" ELSE "host"}
          /\ events \subseteq Faults
      BY <1>1, <2>1 DEF Inv, Reported
    <3>2. PICK b : b \in Seen
      BY <1>1, SeenSays DEF Inv
    <3>3. <<NotStarted, events>> \in Executions(sandbox, b)
      BY <1>1, <3>1 DEF Executions, Broken, HostFails, Inv, Shape
    <3>4. SameReport(report, NotStarted)
      BY <3>1 DEF SameReport
    <3>5. QED
      BY <3>2, <3>3, <3>4
  <2>2. CASE child # "none"
    <3>1. child \in {"exited", "killed"} /\ PipesClosed /\ report = Result
      BY <1>1, <2>2 DEF Inv, Reported
    <3>2. CASE timer = "expired"
      BY <1>1, <3>1, <3>2, TimeoutIsExecution DEF Result
    <3>3. CASE timer = "running"
      BY <1>1, <3>1, <3>3, ExitIsExecution DEF Inv, Ends
    <3>4. QED
      BY <1>1, <3>2, <3>3 DEF Inv, Shape, TypeOK
  <2>3. QED
    BY <2>1, <2>2
<1>2. Inv => KeepsExecutions
  BY <1>1 DEF KeepsExecutions
<1>3. QED
  BY <1>2, Invariant, PTL
=============================================================================
