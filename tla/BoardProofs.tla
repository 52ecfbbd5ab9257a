----------------------------- MODULE BoardProofs -----------------------------
(***************************************************************************)
(* Proofs that the published board is one true account of one commit and   *)
(* never goes back, for every set of tasks, every history of main and any  *)
(* number of builds, queued, replaced, failed or crashed.                  *)
(***************************************************************************)
EXTENDS Board, TLAPS

\* The faults a check does not tell apart from a failing entry are left out
\* where a row is claimed to be true (ArenaCheck has those).
HonestHosts == Faults \cap {"host", "stall"} = {}

Rows == SUBSET [task : Tasks, exit : {ExitPass, ExitFail}]
Steps == {"idle", "check", "html", "deploy"}
Files == [json : Boards, html : Boards]

\* The records behind the type invariant, and what step and commit say of
\* each other.
Shape ==
    /\ TypeOK
    /\ run \in [commit : 0..MaxCommit, step : Steps, rows : Rows, files : Files]
    /\ pages \in Files
    /\ run.step = "idle" => run = Idle
    /\ run.step # "idle" => run.commit \in Commits

-----------------------------------------------------------------------------
(* Type correctness *)

LEMMA Empty == NoFile \in Boards /\ NoFiles \in Files
  BY BoardAssumption DEF NoFile, NoFiles, Boards, Files

LEMMA BuildShape ==
    ASSUME NEW c \in Commits
    PROVE  /\ Build(c) \in [commit : 0..MaxCommit, step : Steps, rows : Rows, files : Files]
           /\ Build(c).step = "check" /\ Build(c).commit = c /\ Build(c).rows = {}
<1>1. Build(c) = [commit |-> c, step |-> "check", rows |-> {}, files |-> NoFiles]
  BY DEF Build, Idle
<1>2. c \in 0..MaxCommit
  BY BoardAssumption DEF Commits
<1>3. QED
  BY <1>1, <1>2, Empty DEF Steps, Rows

LEMMA IdleShape ==
    /\ Idle \in [commit : 0..MaxCommit, step : Steps, rows : Rows, files : Files]
    /\ Idle.step = "idle" /\ Idle.rows = {} /\ Idle.commit = 0
  BY Empty, BoardAssumption DEF Idle, Steps, Rows

\* The board of the rows at hand is a board.
LEMMA DataIsBoard == ASSUME Shape PROVE Data \in Boards
<1>1. run.commit \in 0..MaxCommit /\ run.rows \in Rows
  BY DEF Shape
<1>2. QED
  BY <1>1 DEF Data, Boards, Rows

LEMMA TriggerShape ==
    ASSUME Shape, NEW c \in Commits, Trigger(c), main' \in Commits,
           UNCHANGED <<content, pages, calm>>
    PROVE  Shape'
<1>1. c \in 0..MaxCommit
  BY BoardAssumption DEF Commits
<1>2. CASE run = Idle
  BY <1>2, BuildShape DEF Trigger, Shape, TypeOK, Rows, Steps, Files, Boards
<1>3. CASE run # Idle
  BY <1>1, <1>3 DEF Trigger, Shape, TypeOK, Boards, Files
<1>4. QED
  BY <1>2, <1>3

\* What waits takes the place of the build that is over.
LEMMA ReleaseShape ==
    ASSUME Shape, Release, pages' \in Files, UNCHANGED <<main, content, calm>>
    PROVE  Shape'
<1>1. CASE pending = 0
  BY <1>1, IdleShape, BoardAssumption DEF Release, Shape, TypeOK, Rows, Steps, Files, Boards
<1>2. CASE pending # 0
  <2>1. pending \in Commits
    BY <1>2, BoardAssumption DEF Shape, TypeOK, Commits
  <2>2. QED
    BY <1>2, <2>1, BuildShape, BoardAssumption
       DEF Release, Shape, TypeOK, Rows, Steps, Files, Boards
<1>3. QED
  BY <1>1, <1>2

LEMMA AbortShape == Shape /\ Abort => Shape'
  BY ReleaseShape DEF Abort, Shape

\* A build goes on: its record changes, nothing else does.
LEMMA RunShape ==
    ASSUME Shape, UNCHANGED <<main, content, pending, pages, calm>>,
           run' \in [commit : 0..MaxCommit, step : Steps, rows : Rows, files : Files],
           run'.commit = run.commit, run.step # "idle", run'.step # "idle"
    PROVE  Shape'
  BY DEF Shape, TypeOK, Rows, Steps, Files, Boards

LEMMA ShapeStep == Shape /\ [Next]_vars => Shape'
<1> SUFFICES ASSUME Shape, [Next]_vars
             PROVE  Shape'
  OBVIOUS
<1>1. CASE Push
  <2>1. main + 1 \in Commits
    BY <1>1, BoardAssumption DEF Push, Shape, TypeOK, Commits
  <2>2. QED
    BY <1>1, <2>1, TriggerShape DEF Push
<1>2. CASE Rebuild
  BY <1>2, TriggerShape DEF Rebuild, Shape, TypeOK
<1>3. CASE Crash
  BY <1>3, AbortShape DEF Crash
<1>4. CASE Calm
  BY <1>4 DEF Calm, Shape, TypeOK, Boards, Files
<1>5. CASE CheckEntry
  <2>1. PICK t \in Entries(run.commit) \ Checked :
          \E code \in CheckExits(content[run.commit][t] = "right", IF calm THEN {} ELSE Faults) :
             IF code = ExitInfra THEN Abort
             ELSE /\ run' = [run EXCEPT !.rows = @ \cup {[task |-> t, exit |-> code]}]
                  /\ UNCHANGED <<main, content, pending, pages, calm>>
    BY <1>5 DEF CheckEntry
  <2>2. PICK code \in CheckExits(content[run.commit][t] = "right", IF calm THEN {} ELSE Faults) :
             IF code = ExitInfra THEN Abort
             ELSE /\ run' = [run EXCEPT !.rows = @ \cup {[task |-> t, exit |-> code]}]
                  /\ UNCHANGED <<main, content, pending, pages, calm>>
    BY <2>1
  <2>3. CASE code = ExitInfra
    BY <2>2, <2>3, AbortShape
  <2>4. CASE code # ExitInfra
    <3>1. [task |-> t, exit |-> code] \in [task : Tasks, exit : {ExitPass, ExitFail}]
      BY <2>4 DEF Entries, CheckExits
    <3>2. run' \in [commit : 0..MaxCommit, step : Steps, rows : Rows, files : Files]
      BY <2>2, <2>4, <3>1 DEF Shape, Rows
    <3>3. run'.commit = run.commit /\ run'.step = run.step /\ run.step = "check"
      BY <1>5, <2>2, <2>4 DEF Shape, CheckEntry
    <3>4. QED
      BY <2>2, <2>4, <3>2, <3>3, RunShape
  <2>5. QED
    BY <2>3, <2>4
<1>6. CASE WriteJson
  <2>1. CASE Checked = {}
    BY <1>6, <2>1, AbortShape DEF WriteJson
  <2>2. CASE Checked # {}
    <3>1. run' \in [commit : 0..MaxCommit, step : Steps, rows : Rows, files : Files]
      BY <1>6, <2>2, DataIsBoard DEF WriteJson, Shape, Steps, Files
    <3>2. run'.commit = run.commit /\ run'.step = "html" /\ run.step = "check"
      BY <1>6, <2>2 DEF WriteJson, Shape
    <3>3. QED
      BY <1>6, <2>2, <3>1, <3>2, RunShape DEF WriteJson
  <2>3. QED
    BY <2>1, <2>2
<1>7. CASE WriteHtml
  <2>1. run' \in [commit : 0..MaxCommit, step : Steps, rows : Rows, files : Files]
    BY <1>7, DataIsBoard DEF WriteHtml, Shape, Steps, Files
  <2>2. run'.commit = run.commit /\ run'.step = "deploy" /\ run.step = "html"
    BY <1>7 DEF WriteHtml, Shape
  <2>3. QED
    BY <1>7, <2>1, <2>2, RunShape DEF WriteHtml
<1>8. CASE Deploy
  BY <1>8, ReleaseShape DEF Deploy, Shape
<1>9. CASE UNCHANGED vars
  BY <1>9 DEF vars, Shape, TypeOK, Boards, Files
<1>10. QED
  BY <1>1, <1>2, <1>3, <1>4, <1>5, <1>6, <1>7, <1>8, <1>9 DEF Next

LEMMA InitShape == Init => Shape
<1> SUFFICES ASSUME Init
             PROVE  Shape
  OBVIOUS
<1>1. 1 \in Commits
  BY BoardAssumption DEF Commits
<1>2. run \in [commit : 0..MaxCommit, step : Steps, rows : Rows, files : Files]
      /\ run.step = "check" /\ run.commit \in Commits
  BY <1>1, BuildShape DEF Init
<1>3. pages \in Files /\ main \in Commits /\ pending \in 0..MaxCommit
  BY <1>1, Empty, BoardAssumption DEF Init, Commits
<1>4. TypeOK
  BY <1>2, <1>3 DEF Init, TypeOK, Rows, Steps, Files
<1>5. QED
  BY <1>2, <1>3, <1>4 DEF Shape

LEMMA ShapeInvariant == Spec => []Shape
  BY InitShape, ShapeStep, PTL DEF Spec

\* Every variable stays in its range; in particular a row is only ever made of
\* a verdict, never of a check that had none.
THEOREM BoardTypeCorrect == Spec => []TypeOK
<1>1. Shape => TypeOK
  BY DEF Shape
<1>2. QED
  BY <1>1, ShapeInvariant, PTL

-----------------------------------------------------------------------------
(* The published commit never goes back *)

\* Published, in progress, waiting, pushed: four commits in this order, where
\* there are any; and a board that is written is one of the run's commit.
Order ==
    /\ pages.json.commit <= main /\ pending <= main
    /\ run.step # "idle" => pages.json.commit <= run.commit /\ run.commit <= main
    /\ pending # 0 => run.step # "idle" /\ run.commit <= pending
    /\ run.step \in {"html", "deploy"} => run.files.json.commit = run.commit

\* The commits that Order compares are numbers.
LEMMA Numbers ==
    ASSUME Shape
    PROVE  /\ main \in Nat /\ pending \in Nat /\ run.commit \in Nat
           /\ pages.json.commit \in Nat /\ run.files.json.commit \in Nat
<1>1. pages.json \in Boards /\ run.files.json \in Boards
  BY DEF Shape, Files
<1>2. QED
  BY <1>1, BoardAssumption DEF Shape, TypeOK, Commits, Boards

\* What is published when the group is free again is not newer than the build
\* that made room.
LEMMA ReleaseOrder ==
    ASSUME Shape, Order, run.step # "idle", Release, UNCHANGED main,
           pages'.json.commit \in Nat, pages'.json.commit <= run.commit
    PROVE  Order'
<1>1. CASE pending = 0
  BY <1>1, IdleShape, Numbers DEF Release, Order
<1>2. CASE pending # 0
  <2>1. pending \in Commits
    BY <1>2, BoardAssumption DEF Shape, TypeOK, Commits
  <2>2. run'.commit = pending /\ run'.step = "check" /\ pending' = 0
    BY <1>2, <2>1, BuildShape DEF Release
  <2>3. QED
    BY <1>2, <2>2, Numbers DEF Order
<1>3. QED
  BY <1>1, <1>2

LEMMA AbortOrder == Shape /\ Order /\ run.step # "idle" /\ Abort => Order'
<1> SUFFICES ASSUME Shape, Order, run.step # "idle", Abort
             PROVE  Order'
  OBVIOUS
<1>1. pages'.json.commit \in Nat /\ pages'.json.commit <= run.commit
  BY Numbers DEF Abort, Order
<1>2. QED
  BY <1>1, ReleaseOrder DEF Abort

LEMMA TriggerOrder ==
    ASSUME Shape, Order, NEW c \in Commits, Trigger(c), main' = c, main <= c, UNCHANGED pages
    PROVE  Order'
<1>1. c \in Nat /\ c # 0
  BY BoardAssumption DEF Commits
<1>2. CASE run = Idle
  <2>1. run'.commit = c /\ run'.step = "check" /\ pending' = pending
    BY <1>2, BuildShape DEF Trigger
  <2>2. run.step = "idle"
    BY <1>2, IdleShape
  <2>3. QED
    BY <1>1, <2>1, <2>2, Numbers DEF Order
<1>3. CASE run # Idle
  <2>1. run.step # "idle"
    BY <1>3 DEF Shape
  <2>2. QED
    BY <1>1, <1>3, <2>1, Numbers DEF Trigger, Order
<1>4. QED
  BY <1>2, <1>3

LEMMA OrderStep == Shape /\ Order /\ [Next]_vars => Order'
<1> SUFFICES ASSUME Shape, Order, [Next]_vars
             PROVE  Order'
  OBVIOUS
<1>1. CASE Push
  <2>1. main + 1 \in Commits /\ main <= main + 1
    BY <1>1, BoardAssumption DEF Push, Shape, TypeOK, Commits
  <2>2. QED
    BY <1>1, <2>1, TriggerOrder DEF Push
<1>2. CASE Rebuild
  <2>1. main \in Commits /\ main <= main
    BY Numbers DEF Shape, TypeOK
  <2>2. QED
    BY <1>2, <2>1, TriggerOrder DEF Rebuild
<1>3. CASE Crash
  BY <1>3, AbortOrder DEF Crash, Shape
<1>4. CASE Calm
  BY <1>4 DEF Calm, Order
<1>5. CASE CheckEntry
  <2>1. run.step = "check"
    BY <1>5 DEF CheckEntry
  <2>2. CASE Abort
    BY <2>1, <2>2, AbortOrder
  <2>3. CASE ~Abort
    <3>1. /\ \E r : run' = [run EXCEPT !.rows = r]
          /\ UNCHANGED <<main, pending, pages>>
      BY <1>5, <2>3 DEF CheckEntry
    <3>2. run'.commit = run.commit /\ run'.step = run.step
      BY <3>1 DEF Shape
    <3>3. QED
      BY <2>1, <3>1, <3>2 DEF Order
  <2>4. QED
    BY <2>2, <2>3
<1>6. CASE WriteJson
  <2>1. CASE Checked = {}
    BY <1>6, <2>1, AbortOrder DEF WriteJson
  <2>2. CASE Checked # {}
    <3>1. run'.commit = run.commit /\ run'.step = "html" /\ run'.files.json = Data
      BY <1>6, <2>2 DEF WriteJson, Shape, Files
    <3>2. QED
      BY <1>6, <2>2, <3>1 DEF WriteJson, Order, Data
  <2>3. QED
    BY <2>1, <2>2
<1>7. CASE WriteHtml
  <2>1. run'.commit = run.commit /\ run'.step = "deploy" /\ run'.files.json = run.files.json
    BY <1>7 DEF WriteHtml, Shape, Files
  <2>2. QED
    BY <1>7, <2>1 DEF WriteHtml, Order
<1>8. CASE Deploy
  BY <1>8, ReleaseOrder, Numbers DEF Deploy, Order
<1>9. CASE UNCHANGED vars
  BY <1>9 DEF vars, Order
<1>10. QED
  BY <1>1, <1>2, <1>3, <1>4, <1>5, <1>6, <1>7, <1>8, <1>9 DEF Next

LEMMA InitOrder == Init => Order
<1> SUFFICES ASSUME Init
             PROVE  Order
  OBVIOUS
<1>1. run.step = "check" /\ run.commit = 1
  BY BuildShape, BoardAssumption DEF Init, Commits
<1>2. pages.json.commit = 0
  BY DEF Init, NoFiles, NoFile
<1>3. QED
  BY <1>1, <1>2 DEF Init, Order

LEMMA OrderInvariant == Spec => [](Shape /\ Order)
<1>1. Init => Shape /\ Order
  BY InitShape, InitOrder
<1>2. Shape /\ Order /\ [Next]_vars => (Shape /\ Order)'
  BY ShapeStep, OrderStep
<1>3. QED
  BY <1>1, <1>2, PTL DEF Spec

\* Only a deployment changes what is published, and it publishes the run's commit.
LEMMA PublishedMoves ==
    ASSUME Shape, Order, [Next]_vars
    PROVE  pages'.json.commit >= pages.json.commit
<1>1. CASE Deploy
  BY <1>1, Numbers DEF Deploy, Order
<1>2. CASE ~Deploy
  <2>1. UNCHANGED pages
    BY <1>2 DEF Next, vars, Push, Rebuild, Crash, Calm, CheckEntry, WriteJson, WriteHtml, Abort
  <2>2. QED
    BY <2>1, Numbers
<1>3. QED
  BY <1>1, <1>2

\* However builds wait, replace each other, fail and crash, the site never goes
\* back to an older commit than the one it has shown.
THEOREM BoardNeverGoesBack == Spec => NeverBackwards
<1>1. Shape /\ Order /\ [Next]_vars => [pages'.json.commit >= pages.json.commit]_vars
  BY PublishedMoves
<1>2. QED
  BY <1>1, OrderInvariant, PTL DEF Spec, NeverBackwards

-----------------------------------------------------------------------------
(* What is published is true *)

Exit(c, t) == IF content[c][t] = "right" THEN ExitPass ELSE ExitFail

TrueBoard(c) ==
    [commit |-> c, rows |-> {[task |-> t, exit |-> Exit(c, t)] : t \in Entries(c)},
     open |-> Tasks \ Entries(c)]

\* What a build has is true of its commit: row by row while it checks, as a
\* whole once it writes, file by file.
Truth ==
    /\ \A r \in run.rows : r.task \in Entries(run.commit) /\ r.exit = Exit(run.commit, r.task)
    /\ run.step \in {"html", "deploy"} =>
           Data = TrueBoard(run.commit) /\ run.files.json = TrueBoard(run.commit)
    /\ run.step = "deploy" => run.files.html = TrueBoard(run.commit)
    /\ pages # NoFiles =>
           pages.json = TrueBoard(pages.json.commit) /\ pages.html = pages.json

\* The contents of a commit never change, nor does what is true of it.
LEMMA SameTruth ==
    ASSUME UNCHANGED content
    PROVE  \A c : Entries(c)' = Entries(c) /\ TrueBoard(c)' = TrueBoard(c)
                  /\ \A t : Exit(c, t)' = Exit(c, t)
<1>1. \A c : Entries(c)' = Entries(c)
  BY DEF Entries
<1>2. \A c : \A t : Exit(c, t)' = Exit(c, t)
  BY DEF Exit
<1>3. \A c : TrueBoard(c)' = TrueBoard(c)
  BY <1>1, <1>2 DEF TrueBoard, Entries, Exit
<1>4. QED
  BY <1>1, <1>2, <1>3

\* A build that has just started, or none, claims nothing.
LEMMA FreshTruth ==
    ASSUME UNCHANGED content, run'.rows = {}, run'.step \in {"idle", "check"},
           pages' # NoFiles =>
               pages'.json = TrueBoard(pages'.json.commit) /\ pages'.html = pages'.json
    PROVE  Truth'
  BY SameTruth DEF Truth

LEMMA ReleaseFresh ==
    ASSUME Shape, Release
    PROVE  run'.rows = {} /\ run'.step \in {"idle", "check"}
<1>1. CASE pending = 0
  BY <1>1, IdleShape DEF Release
<1>2. CASE pending # 0
  <2>1. pending \in Commits
    BY <1>2, BoardAssumption DEF Shape, TypeOK, Commits
  <2>2. QED
    BY <1>2, <2>1, BuildShape DEF Release
<1>3. QED
  BY <1>1, <1>2

LEMMA AbortTruth == Shape /\ Truth /\ Abort => Truth'
<1> SUFFICES ASSUME Shape, Truth, Abort
             PROVE  Truth'
  OBVIOUS
<1>1. pages' # NoFiles =>
          pages'.json = TrueBoard(pages'.json.commit) /\ pages'.html = pages'.json
  BY DEF Abort, Truth
<1>2. QED
  BY <1>1, ReleaseFresh, FreshTruth DEF Abort

LEMMA TriggerTruth ==
    ASSUME Shape, Truth, NEW c \in Commits, Trigger(c), UNCHANGED <<content, pages>>
    PROVE  Truth'
<1>1. CASE run = Idle
  <2>1. run'.rows = {} /\ run'.step = "check"
    BY <1>1, BuildShape DEF Trigger
  <2>2. QED
    BY <2>1, FreshTruth DEF Truth
<1>2. CASE run # Idle
  <2>1. Data' = Data
    BY <1>2 DEF Trigger, Data, Checked
  <2>2. QED
    BY <1>2, <2>1, SameTruth DEF Trigger, Truth
<1>3. QED
  BY <1>1, <1>2

\* The rows of a build that has checked every entry are the true ones.
LEMMA AllChecked ==
    ASSUME Shape, Truth, Entries(run.commit) = Checked
    PROVE  Data = TrueBoard(run.commit)
<1> DEFINE True == {[task |-> t, exit |-> Exit(run.commit, t)] : t \in Entries(run.commit)}
<1>1. ASSUME NEW r \in run.rows
      PROVE  r = [task |-> r.task, exit |-> Exit(run.commit, r.task)]
             /\ r.task \in Entries(run.commit)
  <2>1. r \in [task : Tasks, exit : {ExitPass, ExitFail}]
    BY DEF Shape, Rows
  <2>2. r = [task |-> r.task, exit |-> r.exit]
    BY <2>1
  <2>3. QED
    BY <2>2 DEF Truth
<1>2. run.rows \subseteq True
  BY <1>1
<1>3. ASSUME NEW t \in Entries(run.commit)
      PROVE  [task |-> t, exit |-> Exit(run.commit, t)] \in run.rows
  <2>1. PICK r \in run.rows : r.task = t
    BY DEF Checked
  <2>2. QED
    BY <1>1, <2>1
<1>4. run.rows = True
  BY <1>2, <1>3
<1>5. QED
  BY <1>4 DEF Data, TrueBoard

LEMMA TruthStep == HonestHosts /\ Shape /\ Truth /\ [Next]_vars => Truth'
<1> SUFFICES ASSUME HonestHosts, Shape, Truth, [Next]_vars
             PROVE  Truth'
  OBVIOUS
<1>1. CASE Push
  <2>1. main + 1 \in Commits
    BY <1>1, BoardAssumption DEF Push, Shape, TypeOK, Commits
  <2>2. QED
    BY <1>1, <2>1, TriggerTruth DEF Push
<1>2. CASE Rebuild
  BY <1>2, TriggerTruth DEF Rebuild, Shape, TypeOK
<1>3. CASE Crash
  BY <1>3, AbortTruth DEF Crash
<1>4. CASE Calm
  <2>1. Data' = Data
    BY <1>4 DEF Calm, Data, Checked
  <2>2. QED
    BY <1>4, <2>1, SameTruth DEF Calm, Truth
<1>5. CASE CheckEntry
  <2>1. PICK t \in Entries(run.commit) \ Checked :
          \E code \in CheckExits(content[run.commit][t] = "right", IF calm THEN {} ELSE Faults) :
             IF code = ExitInfra THEN Abort
             ELSE /\ run' = [run EXCEPT !.rows = @ \cup {[task |-> t, exit |-> code]}]
                  /\ UNCHANGED <<main, content, pending, pages, calm>>
    BY <1>5 DEF CheckEntry
  <2>2. PICK code \in CheckExits(content[run.commit][t] = "right", IF calm THEN {} ELSE Faults) :
             IF code = ExitInfra THEN Abort
             ELSE /\ run' = [run EXCEPT !.rows = @ \cup {[task |-> t, exit |-> code]}]
                  /\ UNCHANGED <<main, content, pending, pages, calm>>
    BY <2>1
  <2>3. CASE code = ExitInfra
    BY <2>2, <2>3, AbortTruth
  <2>4. CASE code # ExitInfra
    <3>1. code = Exit(run.commit, t)
      BY <2>4 DEF CheckExits, Exit, HonestHosts
    <3>2. /\ run'.rows = run.rows \cup {[task |-> t, exit |-> code]}
          /\ run'.commit = run.commit /\ run'.step = "check" /\ UNCHANGED <<content, pages>>
      BY <1>5, <2>2, <2>4 DEF Shape, CheckEntry
    <3>3. ASSUME NEW r \in run'.rows
          PROVE  r.task \in Entries(run.commit) /\ r.exit = Exit(run.commit, r.task)
      BY <3>1, <3>2 DEF Truth
    <3>4. QED
      BY <3>2, <3>3, SameTruth DEF Truth
  <2>5. QED
    BY <2>3, <2>4
<1>6. CASE WriteJson
  <2>1. CASE Checked = {}
    BY <1>6, <2>1, AbortTruth DEF WriteJson
  <2>2. CASE Checked # {}
    <3>1. /\ run'.commit = run.commit /\ run'.step = "html" /\ run'.rows = run.rows
          /\ run'.files.json = Data /\ UNCHANGED <<content, pages>>
      BY <1>6, <2>2 DEF WriteJson, Shape, Files
    <3>2. Data = TrueBoard(run.commit)
      BY <1>6, AllChecked DEF WriteJson
    <3>3. Data' = Data
      BY <3>1 DEF Data, Checked
    <3>4. QED
      BY <3>1, <3>2, <3>3, SameTruth DEF Truth
  <2>3. QED
    BY <2>1, <2>2
<1>7. CASE WriteHtml
  <2>1. /\ run'.commit = run.commit /\ run'.step = "deploy" /\ run'.rows = run.rows
        /\ run'.files.json = run.files.json /\ run'.files.html = Data
        /\ UNCHANGED <<content, pages>>
    BY <1>7 DEF WriteHtml, Shape, Files
  <2>2. Data' = Data /\ Data = TrueBoard(run.commit) /\ run.files.json = Data
    BY <1>7, <2>1 DEF Data, Checked, Truth, WriteHtml
  <2>3. QED
    BY <2>1, <2>2, SameTruth DEF Truth
<1>8. CASE Deploy
  <2>1. pages'.json = TrueBoard(run.commit) /\ pages'.html = pages'.json
    BY <1>8 DEF Deploy, Truth
  <2>2. pages'.json.commit = run.commit
    BY <2>1 DEF TrueBoard
  <2>3. QED
    BY <1>8, <2>1, <2>2, ReleaseFresh, FreshTruth DEF Deploy
<1>9. CASE UNCHANGED vars
  <2>1. Data' = Data
    BY <1>9 DEF vars, Data, Checked
  <2>2. QED
    BY <1>9, <2>1, SameTruth DEF vars, Truth
<1>10. QED
  BY <1>1, <1>2, <1>3, <1>4, <1>5, <1>6, <1>7, <1>8, <1>9 DEF Next

LEMMA InitTruth == Init => Truth
<1> SUFFICES ASSUME Init
             PROVE  Truth
  OBVIOUS
<1>1. run.step = "check" /\ run.rows = {}
  BY BuildShape, BoardAssumption DEF Init, Commits
<1>2. QED
  BY <1>1 DEF Init, Truth

LEMMA TruthInvariant ==
    ASSUME HonestHosts
    PROVE  Spec => [](Shape /\ Truth)
<1>1. Init => Shape /\ Truth
  BY InitShape, InitTruth
<1>2. Shape /\ Truth /\ [Next]_vars => (Shape /\ Truth)'
  BY ShapeStep, TruthStep
<1>3. QED
  BY <1>1, <1>2, PTL DEF Spec

\* Whatever outages and crashes there are, as long as the host itself does not
\* fail in a way that reads like a failing entry, a published board is a true
\* and complete account of one commit, and both files say the same.
THEOREM BoardStaysTrue ==
    ASSUME HonestHosts
    PROVE  Spec => []PublishedIsTrue
<1>1. Truth => PublishedIsTrue
  BY DEF Truth, PublishedIsTrue, TrueBoard, Exit
<1>2. QED
  BY <1>1, TruthInvariant, PTL
=============================================================================
