--------------------------- MODULE ArenaCheckProofs ---------------------------
(***************************************************************************)
(* Proofs that `arena check` keeps the contract the gate is built on, for  *)
(* every command line, every suite, everything the programs may do, both   *)
(* modes and every subset of the faults.                                   *)
(***************************************************************************)
EXTENDS ArenaCheck, FiniteSetTheorems, TLAPS

Faulty == {"sandbox", "host", "stall", "imitated"}
Silent == {"sandbox", "imitated"}   \* events that leave an entry without a verdict
Results == [pass : BOOLEAN, infra : BOOLEAN]

\* An entry is being checked.
Active == pc \in {"load", "prepare", "build", "cases"}

\* Every entry is counted at most once: as failed, as current or as left.
Shape ==
    /\ TypeOK
    /\ Active => entry \in Entry /\ entry.dir \notin left
    /\ failed + Cardinality(left) + (IF Active THEN 1 ELSE 0) <= Cardinality(Dirs)

\* The infrastructure flags say exactly whether such an event was met.
Flags ==
    /\ infra \/ res.infra <=> events \cap Silent # {}
    /\ pc \in {"load", "prepare", "build"} => ~res.infra
    /\ ~Active /\ res.infra => infra
    /\ events \cap (Silent \cup {"stall"}) # {} => sandbox

\* What the position says about the current entry.
Known ==
    /\ pc \in {"prepare", "build", "cases"} => entry.valid
    /\ pc = "build" => entry.build # NoBuild
    /\ pc = "cases" =>
           /\ entry.build # NoBuild => entry.build.ends /\ entry.build.exit = 0
           /\ res.pass => \A c \in Cases \ todo : Passes(entry.program[c], entry.want[c])
           /\ ~res.pass => ~Right(entry) \/ events # {}

\* The count against the truth: nobody wrong is missed, nobody is failed for nothing.
Truth ==
    /\ left \cap wrong = {}
    /\ Active => (entry.dir \in wrong <=> ~Right(entry))
    /\ failed = 0 => wrong \subseteq (IF Active THEN {entry.dir} ELSE {})
    /\ failed > 0 => wrong # {} \/ events # {}
    /\ exit # NoExit =>
           pc = "done" /\ exit = IF infra THEN ExitInfra
                                 ELSE IF failed > 0 THEN ExitFail ELSE ExitPass

Inv == Shape /\ Flags /\ Known /\ Truth

-----------------------------------------------------------------------------
(* What a run of a program says *)

LEMMA ExecutionSays ==
    ASSUME NEW s \in BOOLEAN, NEW b \in Behaviour, NEW x \in Executions(s, b)
    PROVE  /\ x[2] \subseteq Faulty
           /\ Classify(s, x[1]) = "infra" <=> x[2] \cap Silent # {}
           /\ x[2] \cap (Silent \cup {"stall"}) # {} => s
           /\ Classify(s, x[1]) = "code" =>
                  x[2] = {} /\ b.ends /\ x[1].exit = b.exit /\ x[1].matches = b.matches
           /\ Classify(s, x[1]) # "code" => x[2] # {} \/ ~b.ends
<1>1. CASE x = <<Started(b), IF Classify(s, Started(b)) = "infra" THEN {"imitated"} ELSE {}>>
  <2>1. x[1] = Started(b) /\ x[2] = IF Classify(s, Started(b)) = "infra" THEN {"imitated"} ELSE {}
    BY <1>1
  <2>2. /\ Started(b).started /\ Started(b).exit = b.exit /\ Started(b).matches = b.matches
        /\ Started(b).deadline = ~b.ends
    BY DEF Started
  <2>3. Classify(s, x[1]) = "infra" => s
    BY <2>1, <2>2 DEF Classify
  <2>4. Classify(s, x[1]) = "code" => b.ends
    BY <2>1, <2>2 DEF Classify, Behaviour
  <2>5. Classify(s, x[1]) # "code" /\ Classify(s, x[1]) # "infra" => ~b.ends
    BY <2>1, <2>2 DEF Classify, Behaviour
  <2>6. QED
    BY <2>1, <2>2, <2>3, <2>4, <2>5 DEF Faulty, Silent
<1>2. CASE s /\ x \in Broken \X {{"sandbox"}}
  <2>1. x[1] \in Broken /\ x[2] = {"sandbox"}
    BY <1>2
  <2>2. Classify(s, x[1]) = "infra"
    BY <1>2, <2>1 DEF Broken, NotStarted, Classify
  <2>3. QED
    BY <1>2, <2>1, <2>2 DEF Faulty, Silent
<1>3. CASE s /\ x = <<Stalled, {"stall"}>>
  <2>1. Classify(s, x[1]) = "verdict" /\ x[2] = {"stall"}
    BY <1>3 DEF Stalled, Classify
  <2>2. QED
    BY <1>3, <2>1 DEF Faulty, Silent
<1>4. CASE ~s /\ x = <<NotStarted, {"host"}>>
  <2>1. Classify(s, x[1]) = "verdict" /\ x[2] = {"host"}
    BY <1>4 DEF NotStarted, Classify
  <2>2. QED
    BY <1>4, <2>1 DEF Faulty, Silent
<1>5. QED
  BY <1>1, <1>2, <1>3, <1>4 DEF Executions

LEMMA BuildBehaves == ASSUME NEW e \in Entry, e.build # NoBuild PROVE e.build \in Behaviour
  BY CheckAssumption DEF Entry

LEMMA ProgramBehaves ==
    ASSUME NEW e \in Entry, NEW c \in Cases
    PROVE  e.program[c] \in Behaviour /\ e.want[c] \in {"zero", "nonzero"}
  BY CheckAssumption DEF Entry

LEMMA LeftCounts == ASSUME Shape PROVE Cardinality(left) \in Nat /\ Cardinality(Dirs) \in Nat
<1>1. IsFiniteSet(left) /\ IsFiniteSet(Dirs)
  BY CheckAssumption, FS_Subset DEF Shape, TypeOK
<1>2. QED
  BY <1>1, FS_CardinalityType

-----------------------------------------------------------------------------
(* The steps *)

\* An entry is left with a result that is earned: a pass by a right entry, a
\* failure by a wrong one or by an event, no verdict by an event of that kind.
LEMMA ReportKeeps ==
    ASSUME Inv, Active, NEW result \in Results, Report(result),
           events \subseteq events', events' \subseteq Faulty,
           result.pass => Right(entry),
           ~result.pass => ~Right(entry) \/ events' # {},
           infra \/ result.infra <=> events' \cap Silent # {},
           events' \cap (Silent \cup {"stall"}) # {} => sandbox
    PROVE  Inv'
<1>1. pc' \in {"open", "exit"} /\ ~Active'
  BY DEF Report, Active
<1>2. /\ failed \in Nat /\ failed' \in Nat
      /\ failed' = IF result.pass THEN failed ELSE failed + 1
  BY LeftCounts DEF Report, Inv, Shape, TypeOK, Results
<1>3. failed' + Cardinality(left') <= Cardinality(Dirs)
  BY <1>2, LeftCounts DEF Report, Inv, Shape
<1>4. Shape'
  <2>1. failed' \in 0 .. Cardinality(Dirs)
    BY <1>2, <1>3, LeftCounts DEF Report, Inv
  <2>2. TypeOK'
    BY <1>1, <2>1 DEF Report, Inv, Shape, TypeOK, Results, Faulty
  <2>3. QED
    BY <1>1, <1>2, <1>3, <2>2, LeftCounts DEF Report, Inv, Shape
<1>5. Flags'
  BY <1>1 DEF Report, Inv, Flags
<1>6. Known'
  BY <1>1 DEF Known
<1>7. Truth'
  <2>1. failed' = 0 => wrong' = {}
    BY <1>2 DEF Report, Inv, Truth
  <2>2. failed' > 0 => wrong' # {} \/ events' # {}
    BY <1>2 DEF Report, Inv, Truth
  <2>3. exit' = NoExit
    BY DEF Report, Inv, Truth, Active
  <2>4. QED
    BY <1>1, <2>1, <2>2, <2>3 DEF Report, Inv, Truth
<1>8. QED
  BY <1>4, <1>5, <1>6, <1>7 DEF Inv

\* The same for a failure; what may have happened is named by the new events.
LEMMA FailKeeps ==
    ASSUME Inv, Active, pc # "cases", NEW silent \in BOOLEAN, Fail(silent),
           NEW new \in SUBSET Faulty, events' = events \cup new,
           ~Right(entry) \/ new # {},
           silent <=> new \cap Silent # {},
           new \cap (Silent \cup {"stall"}) # {} => sandbox
    PROVE  Inv'
<1>1. [pass |-> FALSE, infra |-> silent] \in Results
  BY DEF Results
<1>2. ~res.infra
  BY DEF Inv, Flags, Active
<1>3. events' \subseteq Faulty
  BY DEF Inv, Shape, TypeOK, Faulty
<1>4. infra \/ silent <=> events' \cap Silent # {}
  BY <1>2 DEF Inv, Flags
<1>5. events' \cap (Silent \cup {"stall"}) # {} => sandbox
  BY DEF Inv, Flags
<1>6. QED
  BY <1>1, <1>3, <1>4, <1>5, ReportKeeps DEF Fail

\* A valid entry, and a build that went well, lead to the cases.
LEMMA CasesKeep ==
    ASSUME Inv, pc \in {"prepare", "build"}, pc' = "cases", todo' = Cases,
           res' = [pass |-> TRUE, infra |-> FALSE], events' = events,
           entry.build # NoBuild => entry.build.ends /\ entry.build.exit = 0,
           UNCHANGED <<sandbox, left, entry, failed, infra, exit, wrong>>
    PROVE  Inv'
<1>1. Active /\ Active' /\ ~res.infra
  BY DEF Active, Inv, Flags
<1>2. Shape'
  BY <1>1 DEF Inv, Shape, TypeOK
<1>3. Flags'
  BY <1>1 DEF Inv, Flags
<1>4. Known'
  BY DEF Inv, Known
<1>5. Truth'
  BY <1>1 DEF Inv, Truth, Right
<1>6. QED
  BY <1>2, <1>3, <1>4, <1>5 DEF Inv

LEMMA OpenKeeps == Inv /\ Open => Inv'
<1> SUFFICES ASSUME Inv, Open
             PROVE  Inv'
  OBVIOUS
<1>1. PICK e \in Entry :
          /\ e.dir \in left /\ entry' = e /\ left' = left \ {e.dir}
          /\ wrong' = wrong \cup (IF Right(e) THEN {} ELSE {e.dir})
  BY DEF Open
<1>2. /\ pc = "open" /\ pc' = "load" /\ ~Active /\ Active' /\ ~res'.infra
      /\ res' = [pass |-> FALSE, infra |-> FALSE]
      /\ UNCHANGED <<sandbox, todo, failed, infra, exit, events>>
  BY DEF Open, Active
<1>3. e.dir \in Dirs
  BY DEF Entry
<1>4. Cardinality(left') = Cardinality(left) - 1
  <2>1. IsFiniteSet(left)
    BY CheckAssumption, FS_Subset DEF Inv, Shape, TypeOK
  <2>2. QED
    BY <1>1, <2>1, FS_RemoveElement
<1>5. Shape'
  <2>1. TypeOK'
    BY <1>1, <1>2, <1>3 DEF Inv, Shape, TypeOK
  <2>2. failed' + Cardinality(left') + 1 <= Cardinality(Dirs)
    BY <1>2, <1>4, LeftCounts DEF Inv, Shape, TypeOK
  <2>3. QED
    BY <1>1, <1>2, <2>1, <2>2 DEF Shape
<1>6. Flags'
  BY <1>2 DEF Inv, Flags
<1>7. Known'
  BY <1>2 DEF Known
<1>8. Truth'
  <2>1. e.dir \notin wrong
    BY <1>1 DEF Inv, Truth
  <2>2. entry'.dir \in wrong' <=> ~Right(entry')
    BY <1>1, <2>1
  <2>3. Right(entry)' <=> Right(entry')
    BY DEF Right
  <2>4. left' \cap wrong' = {}
    BY <1>1 DEF Inv, Truth
  <2>5. failed' = 0 => wrong' \subseteq {entry'.dir}
    BY <1>1, <1>2 DEF Inv, Truth
  <2>6. failed' > 0 => wrong' # {} \/ events' # {}
    BY <1>1, <1>2 DEF Inv, Truth
  <2>7. exit' = NoExit
    BY <1>2 DEF Inv, Truth
  <2>8. QED
    BY <1>2, <2>2, <2>3, <2>4, <2>5, <2>6, <2>7 DEF Truth
<1>9. QED
  BY <1>5, <1>6, <1>7, <1>8 DEF Inv

LEMMA HostFailureKeeps ==
    ASSUME Inv, Active, pc # "cases", Fail(FALSE), events' = events \cup {"host"}
    PROVE  Inv'
<1>1. {"host"} \in SUBSET Faulty /\ {"host"} \cap Silent = {}
      /\ {"host"} \cap (Silent \cup {"stall"}) = {}
  BY DEF Faulty, Silent
<1>2. QED
  BY <1>1, FailKeeps

LEMMA LoadKeeps == Inv /\ Load => Inv'
<1> SUFFICES ASSUME Inv, Load
             PROVE  Inv'
  OBVIOUS
<1>1. pc = "load" /\ Active
  BY DEF Load, Active
<1>2. CASE entry.valid /\ Goto("prepare") /\ UNCHANGED events
  <2>1. Active' /\ ~res.infra /\ pc' = "prepare"
    BY <1>1, <1>2 DEF Goto, Active, Inv, Flags
  <2>2. Shape'
    BY <1>1, <1>2, <2>1 DEF Goto, Inv, Shape, TypeOK
  <2>3. Flags' /\ Known'
    BY <1>1, <1>2, <2>1 DEF Goto, Inv, Flags, Known
  <2>4. Truth'
    BY <1>1, <1>2, <2>1 DEF Goto, Inv, Truth, Right
  <2>5. QED
    BY <2>2, <2>3, <2>4 DEF Inv
<1>3. CASE ~entry.valid /\ Fail(FALSE) /\ UNCHANGED events
  <2>1. ~Right(entry)
    BY <1>3 DEF Right
  <2>2. events' = events \cup {} /\ {} \in SUBSET Faulty
    BY <1>3
  <2>3. QED
    BY <1>1, <1>3, <2>1, <2>2, FailKeeps
<1>4. CASE Fail(FALSE) /\ events' = events \cup {"host"}
  BY <1>1, <1>4, HostFailureKeeps
<1>5. QED
  BY <1>2, <1>3, <1>4 DEF Load

LEMMA PrepareKeeps == Inv /\ Prepare => Inv'
<1> SUFFICES ASSUME Inv, Prepare
             PROVE  Inv'
  OBVIOUS
<1>1. pc = "prepare" /\ Active
  BY DEF Prepare, Active
<1>2. CASE entry.build # NoBuild /\ Goto("build") /\ UNCHANGED events
  <2>1. Active' /\ ~res.infra /\ pc' = "build"
    BY <1>1, <1>2 DEF Goto, Active, Inv, Flags
  <2>2. Shape'
    BY <1>1, <1>2, <2>1 DEF Goto, Inv, Shape, TypeOK
  <2>3. Flags' /\ Known'
    BY <1>1, <1>2, <2>1 DEF Goto, Inv, Flags, Known
  <2>4. Truth'
    BY <1>1, <1>2, <2>1 DEF Goto, Inv, Truth, Right
  <2>5. QED
    BY <2>2, <2>3, <2>4 DEF Inv
<1>3. CASE /\ entry.build = NoBuild /\ pc' = "cases" /\ todo' = Cases
           /\ res' = [pass |-> TRUE, infra |-> FALSE]
           /\ UNCHANGED <<sandbox, left, entry, failed, infra, exit, wrong, events>>
  BY <1>1, <1>3, CasesKeep
<1>4. CASE Fail(FALSE) /\ events' = events \cup {"host"}
  BY <1>1, <1>4, HostFailureKeeps
<1>5. QED
  BY <1>2, <1>3, <1>4 DEF Prepare

LEMMA BuildKeeps == Inv /\ Build => Inv'
<1> SUFFICES ASSUME Inv, Build
             PROVE  Inv'
  OBVIOUS
<1>1. pc = "build" /\ Active /\ entry \in Entry /\ sandbox \in BOOLEAN
  BY DEF Build, Active, Inv, Shape, TypeOK
<1>2. entry.build # NoBuild /\ entry.build \in Behaviour
  BY <1>1, BuildBehaves DEF Inv, Known
<1>3. PICK x \in Executions(sandbox, entry.build) :
          /\ events' = events \cup x[2]
          /\ IF Classify(sandbox, x[1]) # "code" THEN Fail(Classify(sandbox, x[1]) = "infra")
             ELSE IF x[1].exit # 0 THEN Fail(FALSE)
             ELSE /\ pc' = "cases"
                  /\ todo' = Cases
                  /\ res' = [pass |-> TRUE, infra |-> FALSE]
                  /\ UNCHANGED <<sandbox, left, entry, failed, infra, exit, wrong>>
  BY DEF Build
<1>4. /\ x[2] \in SUBSET Faulty
      /\ Classify(sandbox, x[1]) = "infra" <=> x[2] \cap Silent # {}
      /\ x[2] \cap (Silent \cup {"stall"}) # {} => sandbox
      /\ Classify(sandbox, x[1]) = "code" =>
             x[2] = {} /\ entry.build.ends /\ x[1].exit = entry.build.exit
      /\ Classify(sandbox, x[1]) # "code" => x[2] # {} \/ ~entry.build.ends
  BY <1>1, <1>2, ExecutionSays
<1>5. CASE Classify(sandbox, x[1]) # "code"
  <2>1. ~Right(entry) \/ x[2] # {}
    BY <1>2, <1>4, <1>5 DEF Right
  <2>2. QED
    BY <1>1, <1>3, <1>4, <1>5, <2>1, FailKeeps
<1>6. CASE Classify(sandbox, x[1]) = "code" /\ x[1].exit # 0
  <2>1. ~Right(entry) /\ x[2] = {} /\ ~(x[2] \cap Silent # {})
    BY <1>2, <1>4, <1>6 DEF Right
  <2>2. Fail(FALSE)
    BY <1>3, <1>6
  <2>3. QED
    BY <1>1, <1>3, <1>4, <2>1, <2>2, FailKeeps
<1>7. CASE Classify(sandbox, x[1]) = "code" /\ x[1].exit = 0
  <2>1. events' = events /\ entry.build.ends /\ entry.build.exit = 0
    BY <1>3, <1>4, <1>7
  <2>2. QED
    BY <1>1, <1>3, <1>7, <2>1, CasesKeep
<1>8. QED
  BY <1>5, <1>6, <1>7

\* One case more: a pass is the program's own, a failure is its own or an event's.
LEMMA CaseKeeps ==
    ASSUME Inv, pc = "cases", NEW c \in todo, NEW pass \in BOOLEAN, NEW silent \in BOOLEAN,
           CaseDone(c, pass, silent), NEW new \in SUBSET Faulty, events' = events \cup new,
           pass => Passes(entry.program[c], entry.want[c]),
           ~pass => ~Passes(entry.program[c], entry.want[c]) \/ new # {},
           silent <=> new \cap Silent # {},
           new \cap (Silent \cup {"stall"}) # {} => sandbox
    PROVE  Inv'
<1>1. /\ Active /\ Active' /\ pc' = "cases" /\ c \in Cases
      /\ res' = [pass |-> res.pass /\ pass, infra |-> res.infra \/ silent]
      /\ todo' = todo \ {c}
      /\ UNCHANGED <<sandbox, pc, left, entry, failed, infra, exit, wrong>>
  BY DEF CaseDone, Active, Inv, Shape, TypeOK
<1>2. res.pass \in BOOLEAN /\ res.infra \in BOOLEAN
  BY DEF Inv, Shape, TypeOK
<1>3. /\ res'.pass <=> res.pass /\ pass
      /\ res'.infra <=> res.infra \/ silent
  BY <1>1
<1>4. Shape'
  <2>1. TypeOK'
    BY <1>1, <1>2 DEF Inv, Shape, TypeOK, Faulty
  <2>2. QED
    BY <1>1, <2>1 DEF Inv, Shape
<1>5. Flags'
  BY <1>1, <1>3 DEF Inv, Flags
<1>6. Known'
  <2>1. Right(entry)' <=> Right(entry)
    BY <1>1 DEF Right
  <2>2. ~pass => ~Right(entry) \/ new # {}
    BY <1>1 DEF Right
  <2>3. ~res'.pass => ~Right(entry) \/ events' # {}
    BY <1>1, <1>3, <2>2 DEF Inv, Known
  <2>4. res'.pass => \A d \in Cases \ todo' : Passes(entry.program[d], entry.want[d])
    BY <1>1, <1>3 DEF Inv, Known
  <2>5. QED
    BY <1>1, <2>1, <2>3, <2>4 DEF Inv, Known
<1>7. Truth'
  <2>1. Right(entry)' <=> Right(entry)
    BY <1>1 DEF Right
  <2>2. QED
    BY <1>1, <2>1 DEF Inv, Truth
<1>8. QED
  BY <1>4, <1>5, <1>6, <1>7 DEF Inv

LEMMA RunCaseKeeps == Inv /\ RunCase => Inv'
<1> SUFFICES ASSUME Inv, RunCase
             PROVE  Inv'
  OBVIOUS
<1>1. pc = "cases" /\ entry \in Entry /\ sandbox \in BOOLEAN
  BY DEF RunCase, Inv, Shape, TypeOK, Active
<1>2. PICK c \in todo :
         \/ \E x \in Executions(sandbox, entry.program[c]) :
              /\ events' = events \cup x[2]
              /\ CaseDone(c,
                          /\ Classify(sandbox, x[1]) = "code"
                          /\ ExitMatches(x[1], entry.want[c])
                          /\ x[1].matches,
                          Classify(sandbox, x[1]) = "infra")
         \/ HostFails /\ CaseDone(c, FALSE, FALSE) /\ events' = events \cup {"host"}
  BY DEF RunCase
<1>3. c \in Cases /\ entry.program[c] \in Behaviour /\ entry.want[c] \in {"zero", "nonzero"}
  BY <1>1, ProgramBehaves DEF Inv, Shape, TypeOK
<1>4. CASE CaseDone(c, FALSE, FALSE) /\ events' = events \cup {"host"}
  <2>1. {"host"} \in SUBSET Faulty /\ {"host"} \cap Silent = {}
        /\ {"host"} \cap (Silent \cup {"stall"}) = {}
    BY DEF Faulty, Silent
  <2>2. QED
    BY <1>1, <1>4, <2>1, CaseKeeps
<1>5. ASSUME NEW x \in Executions(sandbox, entry.program[c]),
             events' = events \cup x[2],
             CaseDone(c,
                      /\ Classify(sandbox, x[1]) = "code"
                      /\ ExitMatches(x[1], entry.want[c])
                      /\ x[1].matches,
                      Classify(sandbox, x[1]) = "infra")
      PROVE  Inv'
  <2> DEFINE b == entry.program[c]
             pass == /\ Classify(sandbox, x[1]) = "code"
                     /\ ExitMatches(x[1], entry.want[c])
                     /\ x[1].matches
             silent == Classify(sandbox, x[1]) = "infra"
  <2>1. /\ x[2] \in SUBSET Faulty
        /\ silent <=> x[2] \cap Silent # {}
        /\ x[2] \cap (Silent \cup {"stall"}) # {} => sandbox
        /\ Classify(sandbox, x[1]) = "code" =>
               x[2] = {} /\ b.ends /\ x[1].exit = b.exit /\ x[1].matches = b.matches
        /\ Classify(sandbox, x[1]) # "code" => x[2] # {} \/ ~b.ends
    BY <1>1, <1>3, ExecutionSays
  <2>2. b.matches \in BOOLEAN
    BY <1>3 DEF Behaviour
  <2>3. pass \in BOOLEAN /\ silent \in BOOLEAN
    BY <2>1, <2>2 DEF ExitMatches
  <2>4. pass => Passes(b, entry.want[c])
    BY <2>1 DEF Passes, ExitMatches
  <2>5. ~pass => ~Passes(b, entry.want[c]) \/ x[2] # {}
    BY <2>1 DEF Passes, ExitMatches
  <2>6. CaseDone(c, pass, silent)
    BY <1>5
  <2> HIDE DEF pass, silent
  <2>7. QED
    BY <1>1, <1>3, <1>5, <2>1, <2>3, <2>4, <2>5, <2>6, CaseKeeps
<1>6. QED
  BY <1>2, <1>4, <1>5

LEMMA FinishKeeps == Inv /\ FinishEntry => Inv'
<1> SUFFICES ASSUME Inv, FinishEntry
             PROVE  Inv'
  OBVIOUS
<1>1. pc = "cases" /\ todo = {} /\ Report(res) /\ events' = events /\ Active
  BY DEF FinishEntry, Active
<1>2. res \in Results /\ events' \subseteq Faulty
  BY <1>1 DEF Inv, Shape, TypeOK, Results, Faulty
<1>3. res.pass => Right(entry)
  BY <1>1 DEF Inv, Known, Right
<1>4. ~res.pass => ~Right(entry) \/ events' # {}
  BY <1>1 DEF Inv, Known
<1>5. /\ infra \/ res.infra <=> events' \cap Silent # {}
      /\ events' \cap (Silent \cup {"stall"}) # {} => sandbox
  BY <1>1 DEF Inv, Flags
<1>6. QED
  BY <1>1, <1>2, <1>3, <1>4, <1>5, ReportKeeps

LEMMA ExitKeeps == Inv /\ Exit => Inv'
<1> SUFFICES ASSUME Inv, Exit
             PROVE  Inv'
  OBVIOUS
<1>1. /\ pc = "exit" /\ pc' = "done" /\ ~Active /\ ~Active'
      /\ exit' = IF infra THEN ExitInfra ELSE IF failed > 0 THEN ExitFail ELSE ExitPass
      /\ UNCHANGED <<sandbox, left, entry, todo, res, failed, infra, wrong, events>>
  BY DEF Exit, Active
<1>2. Shape'
  BY <1>1 DEF Inv, Shape, TypeOK
<1>3. Flags' /\ Known'
  BY <1>1 DEF Inv, Flags, Known
<1>4. Truth'
  BY <1>1 DEF Inv, Truth
<1>5. QED
  BY <1>2, <1>3, <1>4 DEF Inv

LEMMA StutterKeeps == Inv /\ UNCHANGED vars => Inv'
  BY DEF vars, Inv, Shape, TypeOK, Active, Flags, Known, Truth, Right

LEMMA InvStep == Inv /\ [Next]_vars => Inv'
  BY OpenKeeps, LoadKeeps, PrepareKeeps, BuildKeeps, RunCaseKeeps, FinishKeeps, ExitKeeps,
     StutterKeeps DEF Next

LEMMA InitInv == Init => Inv
<1> SUFFICES ASSUME Init
             PROVE  Inv
  OBVIOUS
<1>1. Cardinality(Dirs) \in Nat /\ ~Active
  BY CheckAssumption, FS_CardinalityType DEF Init, Active
<1>2. /\ sandbox \in BOOLEAN /\ failed \in 0 .. Cardinality(Dirs)
      /\ res \in [pass : BOOLEAN, infra : BOOLEAN]
  BY <1>1, CheckAssumption DEF Init
<1>3. TypeOK
  BY <1>2 DEF Init, TypeOK
<1>4. QED
  BY <1>1, <1>3 DEF Init, Inv, Shape, Flags, Known, Truth, NoExit

LEMMA Invariant == Spec => []Inv
  BY InitInv, InvStep, PTL DEF Spec

-----------------------------------------------------------------------------
(* What follows from it *)

\* Every variable stays in its range; no entry is counted twice.
THEOREM CheckTypeCorrect == Spec => []TypeOK
<1>1. Inv => TypeOK
  BY DEF Inv, Shape
<1>2. QED
  BY <1>1, Invariant, PTL

\* An event that silences an entry ends in exit code 3, and nothing else does.
LEMMA SilentIsInfra ==
    ASSUME Inv, exit # NoExit
    PROVE  exit = ExitInfra <=> events \cap Silent # {}
<1>1. pc = "done" /\ exit = IF infra THEN ExitInfra ELSE IF failed > 0 THEN ExitFail ELSE ExitPass
  BY DEF Inv, Truth
<1>2. infra <=> events \cap Silent # {}
  BY <1>1 DEF Inv, Flags, Active
<1>3. QED
  BY <1>1, <1>2 DEF ExitInfra, ExitFail, ExitPass

\* Without such an event, exit 0 says that nobody is wrong and exit 1 that
\* somebody is, or that something happened that reads like it.
LEMMA ExitsAreEarned ==
    ASSUME Inv, exit # NoExit, events \cap Silent = {}
    PROVE  \/ exit = ExitPass /\ wrong = {}
           \/ exit = ExitFail /\ (wrong # {} \/ events \cap {"host", "stall"} # {})
<1>1. /\ pc = "done" /\ ~Active /\ ~infra
      /\ exit = IF infra THEN ExitInfra ELSE IF failed > 0 THEN ExitFail ELSE ExitPass
  BY DEF Inv, Truth, Flags, Active
<1>2. failed \in Nat /\ events \subseteq Faulty
  BY LeftCounts DEF Inv, Shape, TypeOK, Faulty
<1>3. CASE failed = 0
  BY <1>1, <1>3 DEF Inv, Truth
<1>4. CASE failed > 0
  BY <1>1, <1>2, <1>4 DEF Inv, Truth, Faulty, Silent
<1>5. QED
  BY <1>2, <1>3, <1>4

\* The contract the gate and the board assume of every measurement holds for
\* every command line: exit 0 is earned by every entry, exit 1 by one of them
\* unless the host broke or stalled, exit 3 by an event that silenced one.
THEOREM CheckKeepsContract == Spec => []KeepsContract
<1>1. ASSUME Inv, exit # NoExit
      PROVE  exit \in CheckExits(wrong = {},
                          events \cup (IF "imitated" \in events THEN {"sandbox"} ELSE {}))
  <2>1. CASE events \cap Silent # {}
    BY <1>1, <2>1, SilentIsInfra DEF CheckExits, Silent
  <2>2. CASE events \cap Silent = {}
    BY <1>1, <2>2, ExitsAreEarned DEF CheckExits
  <2>3. QED
    BY <2>1, <2>2
<1>2. Inv => KeepsContract
  BY <1>1 DEF KeepsContract
<1>3. QED
  BY <1>2, Invariant, PTL

\* However many other cases and entries fail or pass, a container that did not
\* run leaves the whole command without a verdict.
THEOREM SandboxFaultStaysNoVerdict == Spec => []SandboxFaultIsNoVerdict
<1>1. Inv => SandboxFaultIsNoVerdict
  BY SilentIsInfra DEF SandboxFaultIsNoVerdict, Silent
<1>2. QED
  BY <1>1, Invariant, PTL

\* No program gets a pass or a failure by imitating docker's own errors.
THEOREM ImitationStaysDeferral == Spec => []ImitationOnlyDefers
<1>1. Inv => ImitationOnlyDefers
  BY SilentIsInfra DEF ImitationOnlyDefers, Silent
<1>2. QED
  BY <1>1, Invariant, PTL

\* Without the sandbox there is no third answer, and on a host that works the
\* two there are are the truth.
THEOREM HostModeStaysJudge == Spec => []HostModeJudges
<1>1. ASSUME Inv, exit # NoExit, ~sandbox
      PROVE  exit # ExitInfra /\ ("host" \notin events => (exit = ExitPass <=> wrong = {}))
  <2>1. events \cap Silent = {} /\ "stall" \notin events
    BY <1>1 DEF Inv, Flags
  <2>2. QED
    BY <1>1, <2>1, ExitsAreEarned DEF ExitPass, ExitFail, ExitInfra
<1>2. Inv => HostModeJudges
  BY <1>1 DEF HostModeJudges
<1>3. QED
  BY <1>2, Invariant, PTL

\* An entry that leaves its checks without being counted as failed is right in
\* every part, whatever the entries before it did.
THEOREM UncountedStaysRight == Spec => UncountedIsRight
<1>1. ASSUME Inv, [Next]_vars, pc' \in {"open", "exit"}, pc \notin {"open", "exit"},
             failed' = failed
      PROVE  Right(entry)
  <2>1. failed \in Nat
    BY <1>1, LeftCounts DEF Inv, Shape, TypeOK
  <2>2. ~Fail(TRUE) /\ ~Fail(FALSE)
    BY <1>1, <2>1 DEF Fail, Report
  <2>3. ~Build
    BY <1>1, <2>2 DEF Build
  <2>4. ~Load /\ ~Prepare
    BY <1>1, <2>2 DEF Load, Prepare, Goto
  <2>5. FinishEntry
    BY <1>1, <2>3, <2>4 DEF Next, vars, Open, RunCase, CaseDone, Exit
  <2>6. res.pass
    BY <1>1, <2>1, <2>5 DEF FinishEntry, Report, Inv, Shape, TypeOK
  <2>7. QED
    BY <1>1, <2>5, <2>6 DEF FinishEntry, Inv, Known, Right
<1>2. Inv /\ [Next]_vars =>
          [(pc' \in {"open", "exit"} /\ pc \notin {"open", "exit"} /\ failed' = failed)
             => Right(entry)]_vars
  BY <1>1
<1>3. QED
  BY <1>2, Invariant, PTL DEF Spec, UncountedIsRight
=============================================================================
