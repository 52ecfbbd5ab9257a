-------------------------------- MODULE Board --------------------------------
(***************************************************************************)
(* The published board: board.yml, `arena board` (tool/board.go) and       *)
(* WriteBoard (internal/arena/board.go).  Pushes to main, the weekly cron  *)
(* and manual dispatches ask for a build of the commit main is at; the     *)
(* concurrency group runs one build at a time and keeps one waiting, the   *)
(* newest.  A build checks every entry of its commit, writes board.json,   *)
(* then index.html, and hands both to the deploy job.                      *)
(*                                                                         *)
(* A commit is a number; what is at it never changes.  Re-running an old   *)
(* build by hand, which would publish an old commit, is left out.          *)
(***************************************************************************)
EXTENDS Verdicts

CONSTANTS
    Tasks,      \* tasks with cases
    MaxCommit,  \* bound on the commits pushed to main
    Faults      \* a subset of {"sandbox", "host", "stall", "crash"}

ASSUME BoardAssumption ==
    /\ MaxCommit \in Nat \ {0} /\ Faults \subseteq {"sandbox", "host", "stall", "crash"}

VARIABLES
    main,       \* the commit main is at
    content,    \* per commit and task: "none", or an entry that is "right" or "wrong"
    run,        \* the build in progress, or Idle
    pending,    \* the commit waiting for the group, or 0
    pages,      \* the published files
    calm        \* no faults any more

vars == <<main, content, run, pending, pages, calm>>

Commits == 1..MaxCommit
NoFile == [commit |-> 0, rows |-> {}, open |-> {}]
NoFiles == [json |-> NoFile, html |-> NoFile]
Idle == [commit |-> 0, step |-> "idle", rows |-> {}, files |-> NoFiles]

Entries(c) == {t \in Tasks : content[c][t] # "none"}

Build(c) == [commit |-> c, step |-> "check", rows |-> {}, files |-> NoFiles]

Init ==
    /\ main = 1
    /\ content \in [Commits -> [Tasks -> {"none", "right", "wrong"}]]
    /\ run = Build(1) /\ pending = 0
    /\ pages = NoFiles /\ calm = FALSE

-----------------------------------------------------------------------------
(* board.yml: triggers and the pages group *)

\* A build of commit c is asked for: it starts, or it is the one that waits.
Trigger(c) ==
    IF run = Idle THEN run' = Build(c) /\ UNCHANGED pending
    ELSE pending' = c /\ UNCHANGED run

Push ==
    /\ main < MaxCommit
    /\ main' = main + 1
    /\ Trigger(main + 1)
    /\ UNCHANGED <<content, pages, calm>>

Rebuild == Trigger(main) /\ UNCHANGED <<main, content, pages, calm>>

\* The group is free again: what waits starts.
Release ==
    /\ run' = IF pending = 0 THEN Idle ELSE Build(pending)
    /\ pending' = 0

\* Mutation: a build without a verdict is put back into the queue.
AbortAndRequeue ==
    /\ run' = IF pending = 0 THEN Idle ELSE Build(pending)
    /\ pending' = run.commit
    /\ UNCHANGED <<main, content, pages, calm>>

\* Mutation: a failed build waits for somebody to look at it.
AbortAndHold ==
    /\ run' = [run EXCEPT !.step = "failed"]
    /\ UNCHANGED <<main, content, pending, pages, calm>>

\* A job fails: nothing is published.
Abort == Release /\ UNCHANGED <<main, content, pages, calm>>

\* A step fails, the disk is full, the runner is lost.
Crash ==
    /\ run # Idle /\ "crash" \in Faults /\ ~calm
    /\ Abort

Calm == ~calm /\ calm' = TRUE /\ UNCHANGED <<main, content, run, pending, pages>>

-----------------------------------------------------------------------------
(* cmdBoard and WriteBoard *)

Checked == {r.task : r \in run.rows}

\* Mutation: an entry without a verdict gets a row, too.
CheckPublishesInfra ==
    /\ run.step = "check"
    /\ \E t \in Entries(run.commit) \ Checked :
         \E code \in CheckExits(content[run.commit][t] = "right", IF calm THEN {} ELSE Faults) :
             run' = [run EXCEPT !.rows = @ \cup {[task |-> t, exit |-> code]}]
    /\ UNCHANGED <<main, content, pending, pages, calm>>

\* The next entry is checked; one without a verdict ends the build.
CheckEntry ==
    /\ run.step = "check"
    /\ \E t \in Entries(run.commit) \ Checked :
         \E code \in CheckExits(content[run.commit][t] = "right", IF calm THEN {} ELSE Faults) :
             IF code = ExitInfra THEN Abort
             ELSE /\ run' = [run EXCEPT !.rows = @ \cup {[task |-> t, exit |-> code]}]
                  /\ UNCHANGED <<main, content, pending, pages, calm>>

\* Mutation: the board is named after what main is at when it is written.
DataOfMain == [commit |-> main, rows |-> run.rows, open |-> Tasks \ Checked]

\* One board for both files: the rows, and the tasks nobody has taken.
Data == [commit |-> run.commit, rows |-> run.rows, open |-> Tasks \ Checked]

\* There is no board of no entries.
WriteJson ==
    /\ run.step = "check" /\ Entries(run.commit) = Checked
    /\ IF Checked = {} THEN Abort
       ELSE /\ run' = [commit |-> run.commit, step |-> "html", rows |-> run.rows,
                       files |-> [run.files EXCEPT !.json = Data]]
            /\ UNCHANGED <<main, content, pending, pages, calm>>

WriteHtml ==
    /\ run.step = "html"
    /\ run' = [commit |-> run.commit, step |-> "deploy", rows |-> run.rows,
                files |-> [run.files EXCEPT !.html = Data]]
    /\ UNCHANGED <<main, content, pending, pages, calm>>

\* The upload of docs/ and the deploy job.
Deploy ==
    /\ run.step = "deploy"
    /\ pages' = run.files
    /\ Release
    /\ UNCHANGED <<main, content, calm>>

Next ==
    \/ Push \/ Rebuild \/ Crash \/ Calm
    \/ CheckEntry \/ WriteJson \/ WriteHtml \/ Deploy

\* The cron comes back every week and a job that has a runner goes on; nobody
\* has to push and faults may go on for ever.
Fairness ==
    WF_vars(Rebuild) /\ WF_vars(CheckEntry) /\ WF_vars(WriteJson)
    /\ WF_vars(WriteHtml) /\ WF_vars(Deploy)

Spec == Init /\ [][Next]_vars /\ Fairness

-----------------------------------------------------------------------------
(* Properties *)

Boards ==
    [commit : 0..MaxCommit, open : SUBSET Tasks,
     rows : SUBSET [task : Tasks, exit : {ExitPass, ExitFail}]]

\* Every variable stays in its range; a row holds a verdict.
TypeOK ==
    /\ main \in Commits /\ pending \in 0..MaxCommit /\ calm \in BOOLEAN
    /\ content \in [Commits -> [Tasks -> {"none", "right", "wrong"}]]
    /\ run.commit \in 0..MaxCommit /\ run.step \in {"idle", "check", "html", "deploy"}
    /\ run.rows \subseteq [task : Tasks, exit : {ExitPass, ExitFail}]
    /\ \A files \in {run.files, pages} : files.json \in Boards /\ files.html \in Boards

\* "A docker hiccup must not publish a board that shows a healthy entry as
\* failing": once something is published, both files say of one and the same
\* commit, entry by entry, what is true of it, and every other task is open.
PublishedIsTrue ==
    pages # NoFiles =>
        LET c == pages.json.commit
        IN  /\ pages.html = pages.json
            /\ pages.json.rows =
                   {[task |-> t, exit |-> IF content[c][t] = "right" THEN ExitPass ELSE ExitFail] :
                       t \in Entries(c)}
            /\ pages.json.open = Tasks \ Entries(c)

\* The published commit never goes back, however builds wait, replace each
\* other and fail.
NeverBackwards == [][pages'.json.commit >= pages.json.commit]_vars

\* Once the faults are over and nobody pushes any more, the board comes to show
\* the commit main is at, if there is an entry to show: a build that was lost,
\* replaced or failed is made up for.
CatchesUp == <>[]calm => <>[](Entries(main) # {} => pages.json.commit = main)
=============================================================================
