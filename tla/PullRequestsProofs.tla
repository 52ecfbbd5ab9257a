-------------------------- MODULE PullRequestsProofs --------------------------
(***************************************************************************)
(* Proofs about one niche for any number of pull requests, runs, pushes,   *)
(* sharpenings, crashes and restarts: the bot closes on verdicts only, and *)
(* the whole pipeline, merges of old verdicts included, implements the     *)
(* challenger rule.                                                        *)
(***************************************************************************)
EXTENDS PullRequests, TLAPS

-----------------------------------------------------------------------------
(* The score order, for every score there is *)

\* The champion defends ties: nothing is better than itself, and two scores
\* are never better than each other.
THEOREM BetterIsStrict ==
    ASSUME NEW s \in Score, NEW c \in Score
    PROVE  /\ ~Better(s, s)
           /\ ~(Better(s, c) /\ Better(c, s))
  BY DEF Score, Better

THEOREM BetterIsTransitive ==
    ASSUME NEW s \in Score, NEW c \in Score, NEW d \in Score,
           Better(s, c), Better(c, d)
    PROVE  Better(s, d)
  BY DEF Score, Better

\* Two scores neither of which beats the other are the same score: there is no
\* pair of entries the gate could exchange back and forth.
THEOREM BetterIsTotal ==
    ASSUME NEW s \in Score, NEW c \in Score, s # c
    PROVE  Better(s, c) \/ Better(c, s)
<1>1. s.vendored # c.vendored \/ s.hazards # c.hazards
  BY DEF Score
<1>2. QED
  BY <1>1 DEF Score, Better

\* The argument of entry-check.yml:57-61 for the stale base, with its premise
\* spelled out: if the champion has only improved since, then not improving
\* on the old one implies not improving on the new one.
THEOREM StaleComparisonIsSafe ==
    ASSUME NEW s \in Score, NEW old \in Score, NEW new \in Score,
           ~Better(s, old), new = old \/ Better(new, old)
    PROVE  ~Better(s, new)
<1>1. CASE new = old
  BY <1>1
<1>2. CASE Better(new, old)
  BY <1>2, BetterIsTransitive
<1>3. QED
  BY <1>1, <1>2

-----------------------------------------------------------------------------
(* The inductive invariant *)

\* A run that exists, with the payload it was started with.
Started(r) == run[r].status # "none"

\* A champion that defends its niche against the suite.
Holds(c, s) == c # None /\ Conforms(c, s)

\* What a run judges is a push to its pull request, and its head if nothing
\* was pushed since.
Payloads ==
    \A r \in Runs : Started(r) =>
        LET p == run[r].pr IN
        /\ pr[p] \in PullRequest
        /\ run[r].sha <= pr[p].sha
        /\ IsHead(r) => run[r].head = pr[p].head

\* A finished run has one of the classes the gate gives its payload; the bot
\* is past its verification only for a rejection that touches entries alone.
Verdict ==
    \A r \in Runs :
        /\ run[r].status = "done" =>
               run[r].class \in GateClasses(run[r].head, run[r].champion, run[r].suite)
        /\ bot[r] # "idle" => run[r].status = "done"
        /\ bot[r] \in {"list", "comment", "close"} => run[r].class \in AutoReject /\ run[r].head.cases = 0

\* A closing names a run that stays what it was.
Closings ==
    \A c \in closed :
        /\ run[c.run].status = "done" /\ run[c.run].class \in AutoReject
        /\ run[c.run].head.cases = 0

Inv == TypeOK /\ Payloads /\ Verdict /\ Closings

-----------------------------------------------------------------------------
(* The rule *)

\* The class of a run that judged is its status, or "pass".
LEMMA ClassOfStatus ==
    ASSUME NEW h, NEW c, NEW s
    PROVE  /\ Status(h, c, s) \in PassStatuses => Class({Status(h, c, s)}) = "pass"
           /\ Status(h, c, s) \notin PassStatuses =>
                  Status(h, c, s) \in AutoReject /\ Class({Status(h, c, s)}) = Status(h, c, s)
           /\ GateClasses(h, c, s) \subseteq Classes
<1>1. Status(h, c, s) \in PassStatuses \cup AutoReject
  BY DEF Status, NicheStatus, PassStatuses, AutoReject
<1>2. QED
  BY <1>1 DEF Class, PassStatuses, AutoReject, GateClasses, Classes

LEMMA RejectedClass ==
    ASSUME NEW h, NEW c, NEW s, NEW class \in GateClasses(h, c, s)
    PROVE  /\ class \in AutoReject => Status(h, c, s) \in AutoReject
           /\ class = "pass" => Status(h, c, s) \in PassStatuses
  BY ClassOfStatus DEF GateClasses, AutoReject

-----------------------------------------------------------------------------
(* Type correctness and what the runs know *)

LEMMA RunOf ==
    ASSUME TypeOK, NEW r \in Runs
    PROVE  /\ Started(r) <=> run[r] \in Run
           /\ ~Started(r) <=> run[r] = NoRun
<1>1. run[r] \in Run \/ run[r] = NoRun
  BY DEF TypeOK
<1>2. run[r] = NoRun => run[r].status = "none"
  BY DEF NoRun
<1>3. run[r] \in Run => run[r].status # "none"
  BY DEF Run
<1>4. QED
  BY <1>1, <1>2, <1>3 DEF Started

LEMMA PrOf ==
    ASSUME TypeOK, NEW p \in PRs
    PROVE  pr[p] \in PullRequest \/ pr[p] = NoPR
  BY DEF TypeOK

LEMMA OpenPr ==
    ASSUME TypeOK, NEW p \in PRs, pr[p].state \in {"open", "closed", "merged"}
    PROVE  pr[p] \in PullRequest
<1>1. pr[p] = NoPR => pr[p].state = "none"
  BY DEF NoPR
<1>2. QED
  BY <1>1, PrOf

\* A new run for a push that is the newest, cancelling what runs.
LEMMA StartKeeps ==
    ASSUME Inv, NEW p \in PRs, NEW content \in PullRequest, StartRun(p, content),
           pr[p] \in PullRequest => pr[p].sha <= content.sha,
           pr[p] \in PullRequest /\ pr[p].sha = content.sha => content.head = pr[p].head
    PROVE  Inv'
<1>1. PICK r \in Runs :
        /\ run[r] = NoRun
        /\ pr' = [pr EXCEPT ![p] = content]
        /\ run' = [q \in Runs |->
             CASE q = r -> [status |-> "running", pr |-> p, sha |-> content.sha,
                            head |-> content.head, champion |-> champion,
                            suite |-> suite, class |-> "error"]
               [] q # r /\ run[q].status = "running" /\ run[q].pr = p ->
                    [run[q] EXCEPT !.status = "cancelled"]
               [] OTHER -> run[q]]
        /\ UNCHANGED <<champion, suite, bot, marks, double, closed, late>>
  BY DEF StartRun, main
<1>2. run'[r] = [status |-> "running", pr |-> p, sha |-> content.sha,
                 head |-> content.head, champion |-> champion,
                 suite |-> suite, class |-> "error"]
  BY <1>1
<1>3. \A q \in Runs : q # r =>
          \/ run'[q] = run[q]
          \/ run[q].status = "running" /\ run'[q] = [run[q] EXCEPT !.status = "cancelled"]
  BY <1>1
<1>4. pr'[p] = content /\ \A o \in PRs : o # p => pr'[o] = pr[o]
  BY <1>1 DEF Inv, TypeOK
<1>5. run'[r] \in Run
  BY <1>2 DEF Inv, TypeOK, PullRequest, Run, Classes
<1>6. ASSUME NEW q \in Runs, q # r
      PROVE  \/ run'[q] = run[q]
             \/ /\ run[q].status = "running" /\ run'[q] \in Run /\ run'[q].status = "cancelled"
                /\ run'[q].pr = run[q].pr /\ run'[q].sha = run[q].sha /\ run'[q].head = run[q].head
  <2>1. CASE run'[q] = run[q]
    BY <2>1
  <2>2. CASE run[q].status = "running" /\ run'[q] = [run[q] EXCEPT !.status = "cancelled"]
    <3>1. run[q] \in Run
      BY <2>2, RunOf DEF Inv, Started
    <3>2. QED
      BY <2>2, <3>1 DEF Run
  <2>3. QED
    BY <1>3, <1>6, <2>1, <2>2
<1>7. TypeOK'
  <2>1. run' \in [Runs -> Run \cup {NoRun}]
    <3>1. \A q \in Runs : run'[q] \in Run \cup {NoRun}
      BY <1>5, <1>6 DEF Inv, TypeOK
    <3>2. QED
      BY <1>1, <3>1
  <2>2. pr' \in [PRs -> PullRequest \cup {NoPR}]
    BY <1>1 DEF Inv, TypeOK
  <2>3. QED
    BY <1>1, <2>1, <2>2 DEF Inv, TypeOK
<1>8. Payloads'
  <2> SUFFICES ASSUME NEW q \in Runs, run'[q].status # "none"
               PROVE  /\ pr'[run'[q].pr] \in PullRequest
                      /\ run'[q].sha <= pr'[run'[q].pr].sha
                      /\ pr'[run'[q].pr].sha = run'[q].sha => run'[q].head = pr'[run'[q].pr].head
    BY DEF Payloads, Started, IsHead
  <2>1. CASE q = r
    <3>1. content.sha \in Int /\ content.sha <= content.sha
      BY DEF PullRequest, Shas
    <3>2. QED
      BY <1>2, <1>4, <2>1, <3>1
  <2>2. CASE q # r
    <3>1. /\ run[q].status # "none" /\ run'[q].pr = run[q].pr
          /\ run'[q].sha = run[q].sha /\ run'[q].head = run[q].head
      BY <1>6, <2>2
    <3>2. /\ pr[run[q].pr] \in PullRequest /\ run[q].sha <= pr[run[q].pr].sha
          /\ pr[run[q].pr].sha = run[q].sha => run[q].head = pr[run[q].pr].head
      BY <3>1 DEF Inv, Payloads, Started, IsHead
    <3>3. run[q] \in Run
      BY <3>1, RunOf DEF Inv, Started
    <3>4. CASE run[q].pr = p
      <4>1. run[q].sha \in Int /\ pr[p].sha \in Int /\ content.sha \in Int
        BY <3>2, <3>3, <3>4 DEF Run, PullRequest, Shas
      <4>2. QED
        BY <1>4, <3>1, <3>2, <3>4, <4>1
    <3>5. CASE run[q].pr # p
      BY <1>4, <3>1, <3>2, <3>3, <3>5 DEF Run
    <3>6. QED
      BY <3>4, <3>5
  <2>3. QED
    BY <2>1, <2>2
<1>9. \A q \in Runs : run[q].status = "done" \/ run'[q].status = "done" => run'[q] = run[q]
  <2>1. run[r].status = "none"
    BY <1>1 DEF NoRun
  <2>2. QED
    BY <1>2, <1>6, <2>1
<1>10. Verdict'
  BY <1>1, <1>9, ZenonT(30) DEF Inv, Verdict
<1>11. Closings'
  <2>1. \A c \in closed : c.run \in Runs
    BY DEF Inv, TypeOK
  <2>2. \A c \in closed : run'[c.run] = run[c.run]
    BY <1>9, <2>1 DEF Inv, Closings
  <2>3. QED
    BY <1>1, <2>2 DEF Inv, Closings
<1>12. QED
  BY <1>7, <1>8, <1>10, <1>11 DEF Inv

LEMMA OpenKeeps == ASSUME Inv, NEW p \in PRs, NEW h \in Heads, Open(p, h) PROVE Inv'
<1>1. pr[p] \notin PullRequest
  BY DEF Open, NoPR, PullRequest
<1>2. [state |-> "open", sha |-> 1, head |-> h, origin |-> TRUE] \in PullRequest
  BY ArenaAssumption DEF PullRequest, Shas
<1>3. QED
  BY <1>1, <1>2, StartKeeps DEF Open

LEMMA PushKeeps == ASSUME Inv, NEW p \in PRs, NEW h \in Heads, Push(p, h) PROVE Inv'
<1>1. pr[p] \in PullRequest
  BY OpenPr DEF Push, Inv
<1>2. pr[p].sha \in Nat /\ pr[p].sha + 1 \in Shas
  BY <1>1, ArenaAssumption DEF Push, PullRequest, Shas
<1>3. [state |-> "open", sha |-> pr[p].sha + 1, head |-> h, origin |-> TRUE] \in PullRequest
  BY <1>2 DEF PullRequest
<1>4. QED
  BY <1>2, <1>3, StartKeeps DEF Push

LEMMA ReopenKeeps == ASSUME Inv, NEW p \in PRs, Reopen(p) PROVE Inv'
<1> DEFINE content == [pr[p] EXCEPT !.state = "open"]
<1>1. pr[p] \in PullRequest
  BY OpenPr DEF Reopen, Inv
<1>2. content \in PullRequest /\ content.sha = pr[p].sha /\ content.head = pr[p].head
      /\ pr[p].sha \in Int
  BY <1>1 DEF PullRequest, Shas
<1>3. StartRun(p, content)
  BY DEF Reopen
<1> HIDE DEF content
<1>4. QED
  BY <1>2, <1>3, StartKeeps

\* Closing, merging and losing its repository leave a pull request its head.
LEMMA HeadKeepsPayloads ==
    ASSUME Inv, NEW p \in PRs, NEW new \in PullRequest, pr[p] \in PullRequest,
           new.sha = pr[p].sha, new.head = pr[p].head,
           pr' = [pr EXCEPT ![p] = new], UNCHANGED run
    PROVE  pr' \in [PRs -> PullRequest \cup {NoPR}] /\ Payloads'
<1>1. /\ pr'[p] \in PullRequest /\ pr'[p].sha = pr[p].sha /\ pr'[p].head = pr[p].head
      /\ \A o \in PRs : o # p => pr'[o] = pr[o]
  BY DEF Inv, TypeOK
<1>2. pr' \in [PRs -> PullRequest \cup {NoPR}]
  <2>1. \A o \in PRs : pr'[o] \in PullRequest \cup {NoPR}
    BY <1>1 DEF Inv, TypeOK
  <2>2. QED
    BY <2>1 DEF Inv, TypeOK
<1>3. ASSUME NEW r \in Runs, Started(r)
      PROVE  /\ run[r].pr \in PRs
             /\ pr'[run[r].pr] \in PullRequest
             /\ pr'[run[r].pr].sha = pr[run[r].pr].sha /\ pr'[run[r].pr].head = pr[run[r].pr].head
  <2>1. run[r].pr \in PRs
    BY <1>3, RunOf DEF Inv, Run
  <2>2. QED
    BY <1>1, <1>3, <2>1 DEF Inv, Payloads
<1>4. QED
  BY <1>2, <1>3 DEF Inv, Payloads, Started, IsHead

LEMMA StateKeepsPayloads ==
    ASSUME Inv, NEW p \in PRs, NEW state \in {"open", "closed", "merged"}, pr[p] \in PullRequest,
           pr' = [pr EXCEPT ![p].state = state], UNCHANGED run
    PROVE  pr' \in [PRs -> PullRequest \cup {NoPR}] /\ Payloads'
<1> DEFINE new == [pr[p] EXCEPT !.state = state]
<1>1. new \in PullRequest /\ new.sha = pr[p].sha /\ new.head = pr[p].head
  BY DEF PullRequest
<1>2. pr' = [pr EXCEPT ![p] = new]
  OBVIOUS
<1> HIDE DEF new
<1>3. QED
  BY <1>1, <1>2, HeadKeepsPayloads

LEMMA VanishKeeps == ASSUME Inv, NEW p \in PRs, Vanish(p) PROVE Inv'
<1> DEFINE new == [pr[p] EXCEPT !.origin = FALSE]
<1>1. pr[p] \in PullRequest
  BY PrOf DEF Vanish, NoPR, Inv
<1>2. new \in PullRequest /\ new.sha = pr[p].sha /\ new.head = pr[p].head
  BY <1>1 DEF PullRequest
<1>3. pr' = [pr EXCEPT ![p] = new] /\ UNCHANGED <<champion, suite, run, bot, marks, double, closed, late>>
  BY DEF Vanish, main
<1> HIDE DEF new
<1>4. pr' \in [PRs -> PullRequest \cup {NoPR}] /\ Payloads'
  BY <1>1, <1>2, <1>3, HeadKeepsPayloads
<1>5. QED
  BY <1>3, <1>4 DEF Inv, TypeOK, Verdict, Closings

LEMMA CloseKeeps == ASSUME Inv, NEW p \in PRs, Close(p) PROVE Inv'
<1>1. pr[p] \in PullRequest
  BY OpenPr DEF Close, Inv
<1>2. pr' \in [PRs -> PullRequest \cup {NoPR}] /\ Payloads'
  BY <1>1, StateKeepsPayloads DEF Close
<1>3. QED
  BY <1>2 DEF Close, main, Inv, TypeOK, Verdict, Closings

LEMMA MergeKeeps == ASSUME Inv, NEW p \in PRs, Merge(p) PROVE Inv'
<1>1. pr[p] \in PullRequest
  BY OpenPr DEF Merge, Inv
<1>2. pr' \in [PRs -> PullRequest \cup {NoPR}] /\ Payloads'
  BY <1>1, StateKeepsPayloads DEF Merge
<1>3. champion' \in Entries /\ suite' \in 0 .. MaxSuite
  BY <1>1, ArenaAssumption DEF Merge, PullRequest, Inv, TypeOK
<1>4. late' \subseteq Runs
  BY DEF Merge, Inv, TypeOK
<1>5. QED
  BY <1>2, <1>3, <1>4 DEF Merge, Inv, TypeOK, Verdict, Closings

\* A run that ends or is started again keeps its payload.
LEMMA PayloadStays ==
    ASSUME Inv, NEW r \in Runs, Started(r), NEW new \in Run,
           new.pr = run[r].pr, new.sha = run[r].sha, new.head = run[r].head,
           run' = [run EXCEPT ![r] = new], UNCHANGED pr
    PROVE  /\ run' \in [Runs -> Run \cup {NoRun}] /\ Payloads'
           /\ run'[r] = new /\ \A q \in Runs : q # r => run'[q] = run[q]
<1>1. run'[r] = new /\ \A q \in Runs : q # r => run'[q] = run[q]
  BY DEF Inv, TypeOK
<1>2. run' \in [Runs -> Run \cup {NoRun}]
  BY DEF Inv, TypeOK
<1>3. ASSUME NEW q \in Runs, run'[q].status # "none"
      PROVE  /\ Started(q) /\ run'[q].pr = run[q].pr
             /\ run'[q].sha = run[q].sha /\ run'[q].head = run[q].head
  BY <1>1, <1>3 DEF Started
<1>4. Payloads'
  BY <1>3 DEF Inv, Payloads, Started, IsHead
<1>5. QED
  BY <1>1, <1>2, <1>4

LEMMA FinishKeeps == ASSUME Inv, NEW r \in Runs, FinishRun(r) PROVE Inv'
<1>1. run[r] \in Run /\ Started(r)
  BY RunOf DEF FinishRun, Inv, Started
<1>2. PICK class \in GateClasses(run[r].head, run[r].champion, run[r].suite) :
         /\ run' = [run EXCEPT ![r] =
                [status |-> "done", pr |-> run[r].pr, sha |-> run[r].sha, head |-> run[r].head,
                 champion |-> run[r].champion, suite |-> run[r].suite, class |-> class]]
         /\ bot' = [bot EXCEPT ![r] = IF class = "pass" THEN "idle" ELSE "verify"]
  BY DEF FinishRun, Inv, TypeOK
<1> DEFINE new == [status |-> "done", pr |-> run[r].pr, sha |-> run[r].sha, head |-> run[r].head,
                   champion |-> run[r].champion, suite |-> run[r].suite, class |-> class]
<1>3. class \in Classes
  BY ClassOfStatus
<1>4. new \in Run
  BY <1>1, <1>3 DEF Run
<1>5. /\ run' \in [Runs -> Run \cup {NoRun}] /\ Payloads'
      /\ run'[r] = new /\ \A q \in Runs : q # r => run'[q] = run[q]
  BY <1>1, <1>2, <1>4, PayloadStays DEF FinishRun
<1>6. /\ bot' \in [Runs -> BotSteps] /\ bot'[r] \in {"idle", "verify"}
      /\ \A q \in Runs : q # r => bot'[q] = bot[q]
  BY <1>2 DEF Inv, TypeOK, BotSteps
<1>7. run[r].status = "running" /\ UNCHANGED <<champion, suite, pr, marks, double, closed, late>>
  BY DEF FinishRun, main
<1>8. TypeOK'
  BY <1>5, <1>6, <1>7 DEF Inv, TypeOK
<1>9. Verdict'
  BY <1>5, <1>6 DEF Inv, Verdict
<1>10. Closings'
  <2>1. \A c \in closed : c.run \in Runs /\ c.run # r
    BY <1>7 DEF Inv, TypeOK, Closings
  <2>2. QED
    BY <1>5, <1>7, <2>1 DEF Inv, Closings
<1>11. QED
  BY <1>5, <1>8, <1>9, <1>10 DEF Inv

LEMMA RerunKeeps == ASSUME Inv, NEW r \in Runs, Rerun(r) PROVE Inv'
<1>1. run[r] \in Run /\ Started(r)
  BY RunOf DEF Rerun, Inv, Started
<1> DEFINE new == [run[r] EXCEPT !.status = "running"]
<1>2. /\ new \in Run /\ new.status = "running" /\ new.pr = run[r].pr
      /\ new.sha = run[r].sha /\ new.head = run[r].head
  BY <1>1 DEF Run
<1>3. run' = [run EXCEPT ![r] = new]
  BY DEF Rerun
<1> HIDE DEF new
<1>4. /\ run' \in [Runs -> Run \cup {NoRun}] /\ Payloads'
      /\ run'[r] = new /\ \A q \in Runs : q # r => run'[q] = run[q]
  BY <1>1, <1>2, <1>3, PayloadStays DEF Rerun
<1>5. /\ bot' \in [Runs -> BotSteps] /\ bot'[r] = "idle"
      /\ \A q \in Runs : q # r => bot'[q] = bot[q]
  BY DEF Rerun, Inv, TypeOK, BotSteps
<1>6. run[r].class \notin AutoReject /\ UNCHANGED <<champion, suite, pr, marks, double, closed, late>>
  BY DEF Rerun, main, AutoReject
<1>7. TypeOK'
  BY <1>4, <1>5, <1>6 DEF Inv, TypeOK
<1>8. Verdict'
  BY <1>2, <1>4, <1>5 DEF Inv, Verdict
<1>9. Closings'
  <2>1. \A c \in closed : c.run \in Runs /\ c.run # r
    BY <1>6 DEF Inv, TypeOK, Closings
  <2>2. QED
    BY <1>4, <1>6, <2>1 DEF Inv, Closings
<1>10. QED
  BY <1>4, <1>7, <1>8, <1>9 DEF Inv

\* A step of the bot that touches nothing but itself and the comments.
LEMMA BotStepKeeps ==
    ASSUME Inv, NEW r \in Runs, bot[r] # "idle", NEW next \in BotSteps \ {"idle"}, Step(r, next),
           next \in {"list", "comment", "close"} => run[r].class \in AutoReject /\ run[r].head.cases = 0,
           marks' \in [PRs -> SUBSET Shas], double' \in BOOLEAN,
           UNCHANGED <<champion, suite, pr, run, closed, late>>
    PROVE  Inv'
<1>1. /\ bot' \in [Runs -> BotSteps] /\ bot'[r] = next
      /\ \A q \in Runs : q # r => bot'[q] = bot[q]
  BY DEF Step, Inv, TypeOK
<1>2. QED
  BY <1>1 DEF Inv, TypeOK, Payloads, Started, IsHead, Verdict, Closings

LEMMA VerifyKeeps == ASSUME Inv, NEW r \in Runs, Verify(r) PROVE Inv'
<1>1. PICK next \in {"list", "done", "unread"} :
          /\ Step(r, next)
          /\ next = "list" => run[r].class \in AutoReject /\ run[r].head.cases = 0
  BY DEF Verify
<1>2. marks' \in [PRs -> SUBSET Shas] /\ double' \in BOOLEAN
      /\ UNCHANGED <<champion, suite, pr, run, closed, late>> /\ bot[r] # "idle"
  BY DEF Verify, main, Inv, TypeOK
<1>3. QED
  BY <1>1, <1>2, BotStepKeeps DEF BotSteps

LEMMA ListKeeps == ASSUME Inv, NEW r \in Runs, ListComments(r) PROVE Inv'
<1>1. PICK next \in {"handled", "comment"} : Step(r, next)
  BY DEF ListComments
<1>2. run[r].class \in AutoReject /\ run[r].head.cases = 0
  BY DEF ListComments, Inv, Verdict
<1>3. marks' \in [PRs -> SUBSET Shas] /\ double' \in BOOLEAN
      /\ UNCHANGED <<champion, suite, pr, run, closed, late>> /\ bot[r] # "idle"
  BY DEF ListComments, main, Inv, TypeOK
<1>4. QED
  BY <1>1, <1>2, <1>3, BotStepKeeps DEF BotSteps

LEMMA CommentKeeps == ASSUME Inv, NEW r \in Runs, Comment(r) PROVE Inv'
<1>1. run[r].class \in AutoReject /\ run[r].head.cases = 0 /\ run[r] \in Run
  BY RunOf DEF Comment, Inv, Verdict, Started
<1>2. marks' \in [PRs -> SUBSET Shas]
  BY <1>1 DEF Comment, Inv, TypeOK, Run
<1>3. double' \in BOOLEAN /\ UNCHANGED <<champion, suite, pr, run, closed, late>>
      /\ bot[r] # "idle" /\ Step(r, "close")
  BY DEF Comment, main, Inv, TypeOK
<1>4. QED
  BY <1>1, <1>2, <1>3, BotStepKeeps DEF BotSteps

LEMMA CrashKeeps == ASSUME Inv, NEW r \in Runs, Crash(r) \/ RestartBot(r) PROVE Inv'
<1>1. PICK next \in {"crashed", "verify"} : Step(r, next)
  BY DEF Crash, RestartBot
<1>2. marks' \in [PRs -> SUBSET Shas] /\ double' \in BOOLEAN
      /\ UNCHANGED <<champion, suite, pr, run, closed, late>> /\ bot[r] # "idle"
  BY DEF Crash, RestartBot, main, Inv, TypeOK
<1>3. QED
  BY <1>1, <1>2, BotStepKeeps DEF BotSteps

\* What the bot closes has a run behind it that is a rejection.
LEMMA CloseByBotKeeps == ASSUME Inv, NEW r \in Runs, CloseByBot(r) PROVE Inv'
<1>1. /\ bot[r] = "close" /\ run[r].status = "done" /\ run[r].class \in AutoReject
      /\ run[r].head.cases = 0 /\ run[r] \in Run
  BY RunOf DEF CloseByBot, Inv, Verdict, Started
<1>2. /\ bot' \in [Runs -> BotSteps] /\ bot'[r] = "done"
      /\ \A q \in Runs : q # r => bot'[q] = bot[q]
      /\ UNCHANGED <<champion, suite, run, marks, double, late>>
  BY DEF CloseByBot, Step, main, Inv, TypeOK, BotSteps
<1>3. Verdict'
  BY <1>1, <1>2 DEF Inv, Verdict
<1>4. CASE pr[run[r].pr].state = "open"
  <2> DEFINE p == run[r].pr
             c == [run |-> r, sha |-> pr[p].sha, suite |-> suite,
                   won |-> Status(pr[p].head, champion, suite) \in PassStatuses]
  <2>1. p \in PRs
    BY <1>1 DEF Run
  <2>2. pr[p] \in PullRequest
    BY <1>4, <2>1, OpenPr DEF Inv
  <2>3. pr' = [pr EXCEPT ![p].state = "closed"] /\ closed' = closed \cup {c}
    BY <1>4 DEF CloseByBot
  <2>4. pr' \in [PRs -> PullRequest \cup {NoPR}] /\ Payloads'
    BY <1>2, <2>1, <2>2, <2>3, StateKeepsPayloads
  <2>5. c \in [run : Runs, sha : Shas, suite : 0 .. MaxSuite, won : BOOLEAN] /\ c.run = r
    BY <2>2 DEF PullRequest, Inv, TypeOK
  <2>6. TypeOK'
    BY <1>2, <2>3, <2>4, <2>5 DEF Inv, TypeOK
  <2>7. Closings'
    BY <1>1, <1>2, <2>3, <2>5 DEF Inv, Closings
  <2>8. QED
    BY <1>3, <2>4, <2>6, <2>7 DEF Inv
<1>5. CASE pr[run[r].pr].state # "open"
  <2>1. UNCHANGED <<pr, closed>>
    BY <1>5 DEF CloseByBot
  <2>2. QED
    BY <1>2, <1>3, <2>1 DEF Inv, TypeOK, Payloads, Started, IsHead, Closings
<1>6. QED
  BY <1>4, <1>5

LEMMA SharpenKeeps == ASSUME Inv, Sharpen PROVE Inv'
  BY ArenaAssumption DEF Sharpen, Inv, TypeOK, Payloads, Started, IsHead, Verdict, Closings

LEMMA InvStep == Inv /\ [Next]_vars => Inv'
<1> SUFFICES ASSUME Inv, [Next]_vars
             PROVE  Inv'
  OBVIOUS
<1>1. ASSUME NEW p \in PRs, NEW h \in Heads, Open(p, h) \/ Push(p, h) PROVE Inv'
  BY <1>1, OpenKeeps, PushKeeps
<1>2. ASSUME NEW p \in PRs, Reopen(p) \/ Close(p) \/ Vanish(p) \/ Merge(p) PROVE Inv'
  BY <1>2, ReopenKeeps, CloseKeeps, VanishKeeps, MergeKeeps
<1>3. ASSUME NEW r \in Runs, FinishRun(r) \/ Rerun(r) PROVE Inv'
  BY <1>3, FinishKeeps, RerunKeeps
<1>4. ASSUME NEW r \in Runs, Bot(r) \/ Crash(r) \/ RestartBot(r) PROVE Inv'
  BY <1>4, VerifyKeeps, ListKeeps, CommentKeeps, CloseByBotKeeps, CrashKeeps DEF Bot
<1>5. CASE Sharpen
  BY <1>5, SharpenKeeps
<1>6. CASE UNCHANGED vars
  BY <1>6 DEF vars, Inv, TypeOK, Payloads, Started, IsHead, Verdict, Closings
<1>7. QED
  BY <1>1, <1>2, <1>3, <1>4, <1>5, <1>6 DEF Next

LEMMA InitInv == Init => Inv
<1> SUFFICES ASSUME Init
             PROVE  Inv
  OBVIOUS
<1>1. \A r \in Runs : ~Started(r) /\ run[r].status # "done" /\ bot[r] = "idle"
  BY DEF Init, Started, NoRun
<1>2. /\ suite \in 0 .. MaxSuite /\ pr \in [PRs -> PullRequest \cup {NoPR}]
      /\ run \in [Runs -> Run \cup {NoRun}] /\ bot \in [Runs -> BotSteps]
      /\ marks \in [PRs -> SUBSET Shas]
  BY ArenaAssumption DEF Init, BotSteps
<1>3. TypeOK
  BY <1>2 DEF Init, TypeOK
<1>4. QED
  BY <1>1, <1>3 DEF Init, Inv, Payloads, Verdict, Closings

LEMMA Invariant == Spec => []Inv
  BY InitInv, InvStep, PTL DEF Spec

\* Every variable stays in its range.
THEOREM ArenaTypeCorrect == Spec => []TypeOK
<1>1. Inv => TypeOK
  BY DEF Inv
<1>2. QED
  BY <1>1, Invariant, PTL

\* However the bot crashes, is started again and overtakes pushes and other
\* runs, what it closes was rejected by the rule.
THEOREM ClosedStaysRejected == Spec => []ClosedWasRejected
<1>1. Inv => ClosedWasRejected
  <2> SUFFICES ASSUME Inv, NEW c \in closed
               PROVE  /\ run[c.run].status = "done"
                      /\ Status(run[c.run].head, run[c.run].champion, run[c.run].suite) \in AutoReject
                      /\ run[c.run].head.cases = 0
    BY DEF ClosedWasRejected
  <2>1. c.run \in Runs /\ run[c.run].status = "done" /\ run[c.run].class \in AutoReject
        /\ run[c.run].head.cases = 0
    BY DEF Inv, TypeOK, Closings
  <2>2. run[c.run].class \in GateClasses(run[c.run].head, run[c.run].champion, run[c.run].suite)
    BY <2>1 DEF Inv, Verdict
  <2>3. QED
    BY <2>1, <2>2, RejectedClass
<1>2. QED
  BY <1>1, Invariant, PTL

-----------------------------------------------------------------------------
(* Refinement of the challenger rule *)

\* The mains the runs of the gate judged on: the bases of the abstract rule.
Bases == {Base(r) : r \in {q \in Runs : run[q] # NoRun}}

LEMMA StartedRuns ==
    ASSUME TypeOK, NEW r \in Runs
    PROVE  Started(r) <=> run[r] # NoRun
  BY RunOf DEF NoRun, Started

\* What is merged passed and won on the main its run judged on.
LEMMA MergeWins ==
    ASSUME Inv, NEW p \in PRs, Merge(p)
    PROVE  LET h == pr[p].head IN
           \E r \in Runs :
             /\ Started(r)
             /\ late' = IF Base(r) = Main THEN late ELSE {q \in Runs : run[q] # NoRun}
             /\ h.entry \in Entries /\ h.cases \in {0, 1}
             /\ Conforms(h.entry, run[r].suite + h.cases)
             /\ \/ run[r].champion = None
                \/ Better(h.entry.score, run[r].champion.score)
                \/ ~Conforms(run[r].champion, run[r].suite)
             /\ champion' = h.entry /\ suite' = suite + h.cases
<1> DEFINE h == pr[p].head
<1>1. PICK r \in Runs :
          /\ run[r].status = "done" /\ run[r].class = "pass" /\ run[r].pr = p /\ IsHead(r)
          /\ late' = IF Base(r) = Main THEN late ELSE {q \in Runs : run[q] # NoRun}
  BY DEF Merge, Green
<1> DEFINE c == run[r].champion
           s == run[r].suite
<1>2. Started(r)
  BY <1>1 DEF Started
<1>3. pr[p] \in PullRequest /\ run[r].head = h
  BY <1>1, <1>2 DEF Inv, Payloads
<1>4. h.entry \in Entries /\ h.cases \in {0, 1}
  BY <1>3, ArenaAssumption DEF PullRequest
<1>5. Status(h, c, s) \in PassStatuses
  BY <1>1, <1>3, RejectedClass DEF Inv, Verdict
<1>6. Conforms(h.entry, s + h.cases)
  BY <1>5 DEF Status, PassStatuses
<1>7. NicheStatus(c = None, c # None /\ Better(h.entry.score, c.score),
                  c # None /\ Conforms(c, s)) # "not-improving"
  BY <1>5, <1>6 DEF Status, PassStatuses
<1>8. c = None \/ Better(h.entry.score, c.score) \/ ~Conforms(c, s)
  BY <1>7 DEF NicheStatus
<1>9. champion' = h.entry /\ suite' = suite + h.cases
  BY DEF Merge
<1>10. QED
  BY <1>1, <1>2, <1>4, <1>6, <1>8, <1>9

LEMMA MergeIsCrown ==
    ASSUME Inv, NEW p \in PRs, Merge(p)
    PROVE  Rule!Crown
<1> DEFINE h == pr[p].head
<1>1. PICK r \in Runs :
          /\ Started(r)
          /\ late' = IF Base(r) = Main THEN late ELSE {q \in Runs : run[q] # NoRun}
          /\ h.entry \in Entries /\ h.cases \in {0, 1}
          /\ Conforms(h.entry, run[r].suite + h.cases)
          /\ \/ run[r].champion = None
             \/ Better(h.entry.score, run[r].champion.score)
             \/ ~Conforms(run[r].champion, run[r].suite)
          /\ champion' = h.entry /\ suite' = suite + h.cases
  BY MergeWins
<1>2. run[r] # NoRun
  BY <1>1 DEF Started, NoRun
<1>3. Base(r) \in Bases /\ Base(r).champion = run[r].champion /\ Base(r).suite = run[r].suite
  BY <1>2 DEF Bases, Base
<1>4. /\ Rule!Conforms(h.entry, Base(r).suite + h.cases)
      /\ Rule!Beats(h.entry, Base(r).champion, Base(r).suite)
  BY <1>1, <1>3 DEF Conforms, Better, Rule!Conforms, Rule!Beats, Rule!Better
<1>5. (late' # {}) = (late # {} \/ Base(r) # Rule!Main)
  BY <1>1, <1>2 DEF Main, Rule!Main
<1>6. UNCHANGED Bases
  BY DEF Merge, Bases, Base
<1> HIDE DEF h
<1>7. \E e \in Entries, k \in {0, 1}, b \in Bases :
          /\ Rule!Conforms(e, b.suite + k)
          /\ Rule!Beats(e, b.champion, b.suite)
          /\ champion' = e
          /\ suite' = suite + k
          /\ (late' # {}) = (late # {} \/ b # Rule!Main)
          /\ UNCHANGED Bases
  BY <1>1, <1>3, <1>4, <1>5, <1>6
<1>8. QED
  BY <1>7 DEF Rule!Crown, Bases

\* A step leaves a run as it is, leaves it its base, or starts it on the main
\* of the moment, which stays.
LEMMA RunsStep ==
    ASSUME Inv, [Next]_vars, NEW r \in Runs
    PROVE  \/ run'[r] = run[r]
           \/ /\ Started(r) /\ run'[r].status # "none"
              /\ run'[r].champion = run[r].champion /\ run'[r].suite = run[r].suite
           \/ /\ run[r] = NoRun /\ run'[r].status # "none"
              /\ run'[r].champion = champion /\ run'[r].suite = suite
              /\ UNCHANGED <<champion, suite, late>>
<1> DEFINE Kept == /\ Started(r) /\ run'[r].status # "none"
                   /\ run'[r].champion = run[r].champion /\ run'[r].suite = run[r].suite
           Fresh == /\ run[r] = NoRun /\ run'[r].status # "none"
                    /\ run'[r].champion = champion /\ run'[r].suite = suite
                    /\ UNCHANGED <<champion, suite, late>>
           Same == run'[r] = run[r]
<1>1. ASSUME NEW p \in PRs, NEW content, StartRun(p, content)
      PROVE  Same \/ Kept \/ Fresh
  <2>1. PICK q \in Runs :
          /\ run[q] = NoRun
          /\ run' = [o \in Runs |->
               CASE o = q -> [status |-> "running", pr |-> p, sha |-> content.sha,
                              head |-> content.head, champion |-> champion,
                              suite |-> suite, class |-> "error"]
                 [] o # q /\ run[o].status = "running" /\ run[o].pr = p ->
                      [run[o] EXCEPT !.status = "cancelled"]
                 [] OTHER -> run[o]]
          /\ UNCHANGED <<champion, suite, late>>
    BY <1>1 DEF StartRun, main
  <2>2. CASE r = q
    BY <2>1, <2>2
  <2>3. CASE r # q /\ run[r].status = "running" /\ run'[r] = [run[r] EXCEPT !.status = "cancelled"]
    <3>1. run[r] \in Run
      BY <2>3, RunOf DEF Inv, Started
    <3>2. QED
      BY <2>3, <3>1 DEF Run, Started
  <2>4. QED
    BY <2>1, <2>2, <2>3
<1>2. ASSUME NEW p \in PRs, NEW h \in Heads, Open(p, h) \/ Push(p, h) PROVE Same \/ Kept \/ Fresh
  BY <1>1, <1>2 DEF Open, Push
<1>3. ASSUME NEW p \in PRs, Reopen(p) PROVE Same \/ Kept \/ Fresh
  BY <1>1, <1>3 DEF Reopen
<1>4. ASSUME NEW q \in Runs, FinishRun(q) \/ Rerun(q) PROVE Same \/ Kept
  <2>1. run[q] \in Run /\ Started(q)
    BY <1>4, RunOf DEF FinishRun, Rerun, Inv, Started
  <2>2. CASE q = r
    <3>1. /\ run'[r].champion = run[r].champion /\ run'[r].suite = run[r].suite
          /\ run'[r].status # "none"
      BY <1>4, <2>1, <2>2 DEF FinishRun, Rerun, Inv, TypeOK, Run
    <3>2. QED
      BY <2>1, <2>2, <3>1
  <2>3. CASE q # r
    BY <1>4, <2>3 DEF FinishRun, Rerun, Inv, TypeOK
  <2>4. QED
    BY <2>2, <2>3
<1>5. ASSUME UNCHANGED run PROVE Same
  BY <1>5
<1>6. ASSUME NEW p \in PRs, Close(p) \/ Vanish(p) \/ Merge(p) PROVE UNCHANGED run
  BY <1>6 DEF Close, Vanish, Merge
<1>7. ASSUME NEW q \in Runs, Bot(q) \/ Crash(q) \/ RestartBot(q) PROVE UNCHANGED run
  BY <1>7 DEF Bot, Verify, ListComments, Comment, CloseByBot, Crash, RestartBot
<1>8. Sharpen \/ UNCHANGED vars => UNCHANGED run
  BY DEF Sharpen, vars
<1> HIDE DEF Same, Kept, Fresh
<1>9. Same \/ Kept \/ Fresh
  BY <1>2, <1>3, <1>4, <1>5, <1>6, <1>7, <1>8 DEF Next
<1>10. QED
  BY <1>9 DEF Same, Kept, Fresh

\* A step that leaves main and the late merges alone measures at most.
LEMMA QuietStep ==
    ASSUME Inv, [Next]_vars
    PROVE  Bases' = Bases \/ Bases' = Bases \cup {Main}
<1>1. ASSUME NEW r \in Runs, run'[r] # NoRun
      PROVE  Base(r)' \in Bases \cup {Main}
  <2>1. CASE run'[r] = run[r]
    BY <1>1, <2>1 DEF Bases, Base
  <2>2. CASE Started(r) /\ run'[r].champion = run[r].champion /\ run'[r].suite = run[r].suite
    BY <2>2, StartedRuns DEF Inv, Bases, Base
  <2>3. CASE run'[r].champion = champion /\ run'[r].suite = suite
    BY <2>3 DEF Base, Main
  <2>4. QED
    BY <2>1, <2>2, <2>3, RunsStep
<1>2. ASSUME NEW r \in Runs, run[r] # NoRun
      PROVE  run'[r] # NoRun /\ Base(r)' = Base(r)
  BY <1>2, RunsStep DEF Base, NoRun
<1>3. Bases \subseteq Bases' /\ Bases' \subseteq Bases \cup {Main}
  BY <1>1, <1>2 DEF Bases
<1>4. QED
  BY <1>3

\* Nothing else touches the niche but a merged case.
LEMMA OtherSteps ==
    ASSUME [Next]_vars, ~(\E p \in PRs : Merge(p)), ~Sharpen
    PROVE  UNCHANGED <<champion, suite, late>>
<1>1. ASSUME NEW p \in PRs, NEW h \in Heads, Open(p, h) \/ Push(p, h)
      PROVE  UNCHANGED <<champion, suite, late>>
  BY <1>1 DEF Open, Push, StartRun, main
<1>2. ASSUME NEW p \in PRs, Reopen(p) \/ Close(p) \/ Vanish(p)
      PROVE  UNCHANGED <<champion, suite, late>>
  BY <1>2 DEF Reopen, Close, Vanish, StartRun, main
<1>3. ASSUME NEW r \in Runs, FinishRun(r) \/ Rerun(r) \/ Bot(r) \/ Crash(r) \/ RestartBot(r)
      PROVE  UNCHANGED <<champion, suite, late>>
  BY <1>3 DEF FinishRun, Rerun, Bot, Verify, ListComments, Comment, CloseByBot, Crash,
              RestartBot, main
<1>4. QED
  BY <1>1, <1>2, <1>3 DEF Next, vars

LEMMA StepFollows ==
    ASSUME Inv, [Next]_vars
    PROVE  [Rule!Next]_<<champion, suite, Bases, late # {}>>
<1>1. CASE \E p \in PRs : Merge(p)
  BY <1>1, MergeIsCrown DEF Rule!Next
<1>2. CASE Sharpen
  BY <1>2 DEF Sharpen, Rule!Next, Rule!Sharpen, Bases, Base
<1>3. CASE ~(\E p \in PRs : Merge(p)) /\ ~Sharpen
  <2>1. UNCHANGED <<champion, suite, late>>
    BY <1>3, OtherSteps
  <2>2. CASE Bases' = Bases
    BY <2>1, <2>2
  <2>3. CASE Bases' = Bases \cup {Main}
    BY <2>1, <2>3 DEF Rule!Next, Rule!Measure, Rule!Main, Main, Bases
  <2>4. QED
    BY <2>2, <2>3, QuietStep
<1>4. QED
  BY <1>1, <1>2, <1>3

\* The whole pipeline, its stale events, late merges, crashes and re-runs
\* included, implements the challenger rule: main only changes hands to an
\* entry that passed and won the niche of a main the gate judged it on, which
\* is the main it is merged to until the first late merge.
THEOREM PipelineFollowsTheRule == Spec => FollowsTheRule
<1>1. Init => Rule!Init
  <2>1. Init => Bases = {} /\ late = {}
    BY DEF Init, Bases
  <2>2. QED
    BY <2>1 DEF Init, Rule!Init, Bases
<1>2. Inv /\ [Next]_vars => [Rule!Next]_<<champion, suite, Bases, late # {}>>
  BY StepFollows
<1>3. QED
  BY <1>1, <1>2, Invariant, PTL DEF Spec, FollowsTheRule, Rule!Spec, Bases

-----------------------------------------------------------------------------
(* A stale base *)

\* While the suite is the one a run was started on and no merge was late, a
\* champion that defended its niche then has only been beaten since.
Since ==
    \A r \in Runs : Started(r) =>
        /\ run[r].suite <= suite
        /\ run[r].suite = suite /\ Holds(run[r].champion, suite) /\ r \notin late =>
               /\ Holds(champion, suite)
               /\ champion = run[r].champion \/ Better(champion.score, run[r].champion.score)

LEMMA StillRejected ==
    ASSUME NEW h \in Heads, NEW s \in Nat, NEW old \in Entries \cup {None},
           NEW new \in Entries \cup {None}, Status(h, old, s) \in AutoReject,
           Holds(old, s) =>
               Holds(new, s) /\ (new = old \/ Better(new.score, old.score))
    PROVE  Status(h, new, s) \notin PassStatuses
<1>1. CASE ~Conforms(h.entry, s + h.cases)
  BY <1>1 DEF Status, PassStatuses
<1>2. CASE Conforms(h.entry, s + h.cases)
  <2>1. NicheStatus(old = None, old # None /\ Better(h.entry.score, old.score),
                    old # None /\ Conforms(old, s)) \in AutoReject
    BY <1>2 DEF Status
  <2>2. Holds(old, s) /\ ~Better(h.entry.score, old.score)
    BY <2>1 DEF NicheStatus, AutoReject, Holds
  <2>3. /\ Holds(new, s) /\ new \in Entries /\ old \in Entries
        /\ new.score = old.score \/ Better(new.score, old.score)
    BY <2>2 DEF Holds
  <2>4. h.entry.score \in Score /\ old.score \in Score /\ new.score \in Score
    BY <2>3, ArenaAssumption
  <2>5. ~Better(h.entry.score, new.score)
    BY <2>2, <2>3, <2>4, StaleComparisonIsSafe
  <2>6. Status(h, new, s) = "not-improving"
    BY <1>2, <2>3, <2>5 DEF Status, NicheStatus, Holds
  <2>7. QED
    BY <2>6 DEF PassStatuses
<1>3. QED
  BY <1>1, <1>2

\* The suite only grows, and a step that is no late merge lets a champion that
\* defends an unchanged suite only be beaten, by one that defends.
LEMMA NicheStep ==
    ASSUME Inv, [Next]_vars
    PROVE  /\ suite' \in Nat /\ suite \in Nat /\ suite <= suite'
           /\ champion \in Entries \cup {None} /\ champion' \in Entries \cup {None}
           /\ \/ late' = {q \in Runs : run[q] # NoRun}
              \/ /\ late' = late
                 /\ suite' = suite /\ Holds(champion, suite) =>
                      /\ Holds(champion', suite)
                      /\ champion' = champion \/ Better(champion'.score, champion.score)
<1>1. /\ suite' \in Nat /\ suite \in Nat
      /\ champion \in Entries \cup {None} /\ champion' \in Entries \cup {None}
  BY InvStep, ArenaAssumption DEF Inv, TypeOK
<1>2. ASSUME NEW p \in PRs, Merge(p)
      PROVE  /\ suite <= suite'
             /\ \/ late' = {q \in Runs : run[q] # NoRun}
                \/ /\ late' = late
                   /\ suite' = suite /\ Holds(champion, suite) =>
                        /\ Holds(champion', suite)
                        /\ champion' = champion \/ Better(champion'.score, champion.score)
  <2> DEFINE h == pr[p].head
  <2>1. PICK r \in Runs :
          /\ late' = IF Base(r) = Main THEN late ELSE {q \in Runs : run[q] # NoRun}
          /\ h.entry \in Entries /\ h.cases \in {0, 1}
          /\ Conforms(h.entry, run[r].suite + h.cases)
          /\ \/ run[r].champion = None
             \/ Better(h.entry.score, run[r].champion.score)
             \/ ~Conforms(run[r].champion, run[r].suite)
          /\ champion' = h.entry /\ suite' = suite + h.cases
    BY <1>2, MergeWins
  <2> HIDE DEF h
  <2>2. CASE Base(r) # Main
    BY <1>1, <2>1, <2>2
  <2>3. CASE Base(r) = Main
    <3>1. run[r].champion = champion /\ run[r].suite = suite
      BY <2>3 DEF Base, Main
    <3>2. late' = late
      BY <2>1, <2>3
    <3>3. suite' = suite => h.cases = 0
      BY <1>1, <2>1
    <3>4. suite' = suite => Conforms(champion', suite)
      BY <1>1, <2>1, <3>1, <3>3 DEF Conforms
    <3>5. champion' # None
      BY <2>1, ArenaAssumption
    <3>6. Holds(champion, suite) => Better(champion'.score, champion.score)
      BY <2>1, <3>1 DEF Holds
    <3>7. suite <= suite'
      BY <1>1, <2>1
    <3>8. QED
      BY <3>2, <3>4, <3>5, <3>6, <3>7 DEF Holds
  <2>4. QED
    BY <2>2, <2>3
<1>3. CASE \E p \in PRs : Merge(p)
  BY <1>1, <1>2, <1>3
<1>4. CASE Sharpen
  BY <1>1, <1>4 DEF Sharpen
<1>5. CASE UNCHANGED <<champion, suite, late>>
  BY <1>1, <1>5
<1>6. QED
  BY <1>3, <1>4, <1>5, OtherSteps

LEMMA SinceStep ==
    ASSUME Inv, Since, [Next]_vars
    PROVE  Since'
<1> SUFFICES ASSUME NEW r \in Runs, run'[r].status # "none"
             PROVE  /\ run'[r].suite <= suite'
                    /\ run'[r].suite = suite' /\ Holds(run'[r].champion, suite') /\ r \notin late' =>
                         /\ Holds(champion', suite')
                         /\ \/ champion' = run'[r].champion
                            \/ Better(champion'.score, run'[r].champion.score)
  BY DEF Since, Started, Holds, Conforms
<1>1. CASE /\ run'[r].champion = champion /\ run'[r].suite = suite
           /\ UNCHANGED <<champion, suite, late>>
  BY <1>1, NicheStep
<1>2. CASE Started(r) /\ run'[r].champion = run[r].champion /\ run'[r].suite = run[r].suite
  <2> DEFINE c == run[r].champion
  <2>1. /\ run[r].suite <= suite
        /\ run[r].suite = suite /\ Holds(c, suite) /\ r \notin late =>
               Holds(champion, suite) /\ (champion = c \/ Better(champion.score, c.score))
    BY <1>2 DEF Since
  <2>2. run[r] \in Run /\ run[r] # NoRun
    BY <1>2, RunOf, StartedRuns DEF Inv
  <2>3. run[r].suite \in Nat /\ c \in Entries \cup {None}
    BY <2>2, ArenaAssumption DEF Run
  <2>4. run[r].suite <= suite'
    BY <2>1, <2>3, NicheStep
  <2>5. ASSUME run[r].suite = suite', Holds(c, suite'), r \notin late'
        PROVE  Holds(champion', suite') /\ (champion' = c \/ Better(champion'.score, c.score))
    <3>1. suite' = suite
      BY <2>1, <2>3, <2>5, NicheStep
    <3>2. /\ late' = late
          /\ Holds(champion, suite) =>
               /\ Holds(champion', suite)
               /\ champion' = champion \/ Better(champion'.score, champion.score)
      BY <2>2, <2>5, <3>1, NicheStep
    <3>3. Holds(champion, suite) /\ (champion = c \/ Better(champion.score, c.score))
      BY <2>1, <2>5, <3>1, <3>2
    <3>4. c \in Entries /\ champion \in Entries /\ champion' \in Entries
      BY <2>3, <2>5, <3>2, <3>3, NicheStep DEF Holds
    <3>5. c.score \in Score /\ champion.score \in Score /\ champion'.score \in Score
      BY <3>4, ArenaAssumption
    <3>6. champion' = c \/ Better(champion'.score, c.score)
      BY <3>2, <3>3, <3>5, BetterIsTransitive
    <3>7. QED
      BY <3>1, <3>2, <3>3, <3>6
  <2>6. QED
    BY <1>2, <2>4, <2>5
<1>3. CASE run'[r] = run[r]
  BY <1>2, <1>3 DEF Started
<1>4. QED
  BY <1>1, <1>2, <1>3, RunsStep

\* A rejection is final: no later event, cancellation or re-run touches it.
LEMMA RejectedStays ==
    ASSUME Inv, [Next]_vars, NEW r \in Runs, run[r].status = "done", run[r].class \in AutoReject
    PROVE  run'[r] = run[r]
<1>1. ASSUME NEW p \in PRs, NEW content, StartRun(p, content)
      PROVE  run'[r] = run[r]
  <2>1. PICK q \in Runs :
          /\ run[q] = NoRun
          /\ run' = [o \in Runs |->
               CASE o = q -> [status |-> "running", pr |-> p, sha |-> content.sha,
                              head |-> content.head, champion |-> champion,
                              suite |-> suite, class |-> "error"]
                 [] o # q /\ run[o].status = "running" /\ run[o].pr = p ->
                      [run[o] EXCEPT !.status = "cancelled"]
                 [] OTHER -> run[o]]
    BY <1>1 DEF StartRun
  <2>2. r # q /\ run[r].status # "running"
    BY <2>1 DEF NoRun
  <2>3. QED
    BY <2>1, <2>2
<1>2. ASSUME NEW p \in PRs, NEW h \in Heads, Open(p, h) \/ Push(p, h) PROVE run'[r] = run[r]
  BY <1>1, <1>2 DEF Open, Push
<1>3. ASSUME NEW p \in PRs, Reopen(p) PROVE run'[r] = run[r]
  BY <1>1, <1>3 DEF Reopen
<1>4. ASSUME NEW q \in Runs, FinishRun(q) \/ Rerun(q) PROVE run'[r] = run[r]
  <2>1. q # r
    BY <1>4 DEF FinishRun, Rerun, AutoReject
  <2>2. QED
    BY <1>4, <2>1 DEF FinishRun, Rerun, Inv, TypeOK
<1>5. ASSUME NEW p \in PRs, Close(p) \/ Vanish(p) \/ Merge(p) PROVE UNCHANGED run
  BY <1>5 DEF Close, Vanish, Merge
<1>6. ASSUME NEW q \in Runs, Bot(q) \/ Crash(q) \/ RestartBot(q) PROVE UNCHANGED run
  BY <1>6 DEF Bot, Verify, ListComments, Comment, CloseByBot, Crash, RestartBot
<1>7. Sharpen \/ UNCHANGED vars => UNCHANGED run
  BY DEF Sharpen, vars
<1>8. QED
  BY <1>2, <1>3, <1>4, <1>5, <1>6, <1>7 DEF Next

\* Only CloseByBot closes for the bot.
LEMMA NewClosing ==
    ASSUME [Next]_vars, NEW c \in closed', c \notin closed
    PROVE  \E r \in Runs : CloseByBot(r)
<1>1. ASSUME NEW p \in PRs, NEW h \in Heads, Open(p, h) \/ Push(p, h) PROVE UNCHANGED closed
  BY <1>1 DEF Open, Push, StartRun
<1>2. ASSUME NEW p \in PRs, Reopen(p) \/ Close(p) \/ Vanish(p) \/ Merge(p) PROVE UNCHANGED closed
  BY <1>2 DEF Reopen, StartRun, Close, Vanish, Merge
<1>3. ASSUME NEW r \in Runs,
             \/ FinishRun(r) \/ Rerun(r) \/ Verify(r) \/ ListComments(r)
             \/ Comment(r) \/ Crash(r) \/ RestartBot(r)
      PROVE  UNCHANGED closed
  BY <1>3 DEF FinishRun, Rerun, Verify, ListComments, Comment, Crash, RestartBot
<1>4. Sharpen \/ UNCHANGED vars => UNCHANGED closed
  BY DEF Sharpen, vars
<1>5. QED
  BY <1>1, <1>2, <1>3, <1>4 DEF Next, Bot

LEMMA StaleStep ==
    ASSUME Inv, Since, StaleRejectIsSafe, [Next]_vars
    PROVE  StaleRejectIsSafe'
<1> SUFFICES ASSUME NEW c \in closed', c.sha = run'[c.run].sha, c.suite = run'[c.run].suite,
                    c.run \notin late'
             PROVE  ~c.won
  BY DEF StaleRejectIsSafe
<1>1. CASE c \in closed
  <2>1. /\ c.run \in Runs /\ run[c.run].status = "done" /\ run[c.run].class \in AutoReject
    BY <1>1 DEF Inv, TypeOK, Closings
  <2>2. run'[c.run] = run[c.run]
    BY <2>1, RejectedStays
  <2>3. run[c.run] # NoRun
    BY <2>1 DEF NoRun
  <2>4. c.run \notin late
    BY <2>1, <2>3, NicheStep
  <2>5. QED
    BY <1>1, <2>2, <2>4 DEF StaleRejectIsSafe
<1>2. CASE c \notin closed
  <2>1. PICK r \in Runs : CloseByBot(r)
    BY <1>2, NewClosing
  <2> DEFINE p == run[r].pr
  <2>2. /\ c = [run |-> r, sha |-> pr[p].sha, suite |-> suite,
                won |-> Status(pr[p].head, champion, suite) \in PassStatuses]
        /\ run' = run /\ late' = late
    BY <1>2, <2>1 DEF CloseByBot
  <2>3. /\ run[r] \in Run /\ run[r].status = "done" /\ Started(r)
        /\ run[r].class \in AutoReject
    BY <2>1, RunOf DEF CloseByBot, Inv, Verdict, Started
  <2>4. Status(run[r].head, run[r].champion, run[r].suite) \in AutoReject
    BY <2>3, RejectedClass DEF Inv, Verdict
  <2>5. pr[p].sha = run[r].sha /\ suite = run[r].suite
    BY <2>2
  <2>6. run[r].head = pr[p].head
    BY <2>3, <2>5 DEF Inv, Payloads, IsHead
  <2>7. Holds(run[r].champion, suite) =>
            Holds(champion, suite)
            /\ (champion = run[r].champion \/ Better(champion.score, run[r].champion.score))
    BY <2>2, <2>3, <2>5 DEF Since
  <2>8. /\ pr[p].head \in Heads /\ suite \in Nat
        /\ run[r].champion \in Entries \cup {None} /\ champion \in Entries \cup {None}
    BY <2>3, <2>6, ArenaAssumption DEF Run, Inv, TypeOK
  <2>9. Status(pr[p].head, champion, suite) \notin PassStatuses
    BY <2>4, <2>5, <2>6, <2>7, <2>8, StillRejected
  <2>10. QED
    BY <2>2, <2>9
<1>3. QED
  BY <1>1, <1>2

\* entry-check.yml:57-61, with the premises it needs: while the suite is the one
\* a rejection was measured on, and main took no verdict on an older main since,
\* what the bot closes at the judged head would not win today.
THEOREM StaleRejectStaysSafe == Spec => []StaleRejectIsSafe
<1>1. Init => Inv /\ Since /\ StaleRejectIsSafe
  <2>1. ASSUME Init, NEW r \in Runs PROVE ~Started(r)
    BY <2>1 DEF Init, Started, NoRun
  <2>2. QED
    BY <2>1, InitInv DEF Init, Since, StaleRejectIsSafe
<1>2. Inv /\ Since /\ StaleRejectIsSafe /\ [Next]_vars => (Inv /\ Since /\ StaleRejectIsSafe)'
  BY InvStep, SinceStep, StaleStep
<1>3. QED
  BY <1>1, <1>2, PTL DEF Spec

-----------------------------------------------------------------------------
(* One comment per commit *)

\* Without reopening, a commit has one run, so one bot; and a bot that is about
\* to comment has found no comment, in this or in any earlier life.
Once ==
    /\ \A r, q \in Runs :
           Started(r) /\ Started(q) /\ r # q /\ run[r].pr = run[q].pr => run[r].sha # run[q].sha
    /\ \A r \in Runs : bot[r] = "comment" => run[r].sha \notin marks[run[r].pr]
    /\ ~double

LEMMA StartOnce ==
    ASSUME Inv, Once, [Next]_vars, NEW p \in PRs, NEW content, StartRun(p, content),
           \A q \in Runs : Started(q) /\ run[q].pr = p => run[q].sha # content.sha
    PROVE  Once'
<1>1. PICK r \in Runs :
        /\ run[r] = NoRun
        /\ run' = [q \in Runs |->
             CASE q = r -> [status |-> "running", pr |-> p, sha |-> content.sha,
                            head |-> content.head, champion |-> champion,
                            suite |-> suite, class |-> "error"]
               [] q # r /\ run[q].status = "running" /\ run[q].pr = p ->
                    [run[q] EXCEPT !.status = "cancelled"]
               [] OTHER -> run[q]]
        /\ UNCHANGED <<bot, marks, double>>
  BY DEF StartRun
<1>2. run'[r].pr = p /\ run'[r].sha = content.sha
  BY <1>1
<1>3. ASSUME NEW q \in Runs, q # r, run'[q].status # "none"
      PROVE  Started(q) /\ run'[q].pr = run[q].pr /\ run'[q].sha = run[q].sha
  <2>1. CASE run'[q] = run[q]
    BY <1>3, <2>1 DEF Started
  <2>2. CASE run[q].status = "running" /\ run'[q] = [run[q] EXCEPT !.status = "cancelled"]
    <3>1. run[q] \in Run /\ Started(q)
      BY <2>2, RunOf DEF Inv, Started
    <3>2. QED
      BY <2>2, <3>1 DEF Run
  <2>3. QED
    BY <1>1, <1>3, <2>1, <2>2
<1>4. ASSUME NEW o \in Runs, NEW q \in Runs, run'[o].status # "none", run'[q].status # "none",
             o # q, run'[o].pr = run'[q].pr
      PROVE  run'[o].sha # run'[q].sha
  <2>1. CASE o = r
    BY <1>2, <1>3, <1>4, <2>1
  <2>2. CASE q = r
    BY <1>2, <1>3, <1>4, <2>2
  <2>3. CASE o # r /\ q # r
    BY <1>3, <1>4, <2>3 DEF Once
  <2>4. QED
    BY <2>1, <2>2, <2>3
<1>5. ASSUME NEW q \in Runs, bot[q] = "comment"
      PROVE  run'[q] = run[q]
  BY <1>5, RejectedStays DEF Inv, Verdict
<1>6. QED
  BY <1>1, <1>4, <1>5, ZenonT(30) DEF Once, Started

\* A step that keeps the payloads of the runs, the comments, and every bot
\* that is about to comment.
LEMMA SameOnce ==
    ASSUME Once, UNCHANGED <<marks, double>>,
           \A q \in Runs : run'[q].status # "none" =>
               Started(q) /\ run'[q].pr = run[q].pr /\ run'[q].sha = run[q].sha,
           \A q \in Runs : bot'[q] = "comment" =>
               run'[q] = run[q] /\ (bot[q] = "comment" \/ run[q].sha \notin marks[run[q].pr])
    PROVE  Once'
  BY DEF Once, Started

LEMMA OnceStep ==
    ASSUME "reopen" \notin Moves, Inv, Once, [Next]_vars
    PROVE  Once'
<1>1. ASSUME NEW p \in PRs, NEW h \in Heads, Open(p, h) PROVE Once'
  <2>1. pr[p] \notin PullRequest
    BY <1>1 DEF Open, NoPR, PullRequest
  <2>2. \A q \in Runs : Started(q) => run[q].pr # p
    BY <2>1 DEF Inv, Payloads
  <2>3. QED
    BY <1>1, <2>2, StartOnce DEF Open
<1>2. ASSUME NEW p \in PRs, NEW h \in Heads, Push(p, h) PROVE Once'
  <2> DEFINE content == [state |-> "open", sha |-> pr[p].sha + 1, head |-> h, origin |-> TRUE]
  <2>1. StartRun(p, content) /\ content.sha = pr[p].sha + 1
    BY <1>2 DEF Push
  <2>2. ASSUME NEW q \in Runs, Started(q), run[q].pr = p
        PROVE  run[q].sha # pr[p].sha + 1
    <3>1. /\ run[q] \in Run /\ pr[p] \in PullRequest
          /\ run[q].sha <= pr[p].sha
      BY <2>2, RunOf DEF Inv, Payloads
    <3>2. run[q].sha \in Int /\ pr[p].sha \in Int
      BY <3>1 DEF Run, PullRequest, Shas
    <3>3. QED
      BY <3>1, <3>2
  <2> HIDE DEF content
  <2>3. QED
    BY <2>1, <2>2, StartOnce
<1>3. ASSUME NEW p \in PRs, Reopen(p) PROVE FALSE
  BY <1>3 DEF Reopen
<1>4. ASSUME NEW r \in Runs, FinishRun(r) \/ Rerun(r) PROVE Once'
  <2>1. run[r] \in Run /\ Started(r)
    BY <1>4, RunOf DEF FinishRun, Rerun, Inv, Started
  <2>2. run'[r].pr = run[r].pr /\ run'[r].sha = run[r].sha
        /\ \A q \in Runs : q # r => run'[q] = run[q]
    BY <1>4, <2>1 DEF FinishRun, Rerun, Inv, TypeOK, Run
  <2>3. bot'[r] \in {"idle", "verify"} /\ \A q \in Runs : q # r => bot'[q] = bot[q]
    BY <1>4 DEF FinishRun, Rerun, Inv, TypeOK
  <2>4. UNCHANGED <<marks, double>>
    BY <1>4 DEF FinishRun, Rerun
  <2>5. \A q \in Runs : run'[q].status # "none" =>
            Started(q) /\ run'[q].pr = run[q].pr /\ run'[q].sha = run[q].sha
    BY <2>1, <2>2 DEF Started
  <2>6. \A q \in Runs : bot'[q] = "comment" => q # r
    BY <2>3
  <2>7. QED
    BY <2>2, <2>3, <2>4, <2>5, <2>6, SameOnce
<1>5. ASSUME NEW r \in Runs, Comment(r) PROVE Once'
  <2>1. /\ bot[r] = "comment" /\ run' = run
        /\ bot' = [bot EXCEPT ![r] = "close"]
        /\ marks' = [marks EXCEPT ![run[r].pr] = @ \cup {run[r].sha}]
        /\ double' = (double \/ run[r].sha \in marks[run[r].pr])
    BY <1>5 DEF Comment, Step
  <2>2. run[r].pr \in PRs /\ Started(r)
    BY <2>1, RunOf DEF Inv, Verdict, Started, Run
  <2>3. ~double'
    BY <2>1 DEF Once
  <2>4. bot'[r] = "close" /\ \A q \in Runs : q # r => bot'[q] = bot[q]
    BY <2>1 DEF Inv, TypeOK
  <2>5. ASSUME NEW q \in Runs, bot'[q] = "comment"
        PROVE  run[q].sha \notin marks'[run[q].pr]
    <3>1. q # r /\ bot[q] = "comment"
      BY <2>4, <2>5
    <3>2. run[q].pr \in PRs /\ Started(q) /\ run[q].sha \notin marks[run[q].pr]
      BY <3>1, RunOf DEF Inv, Verdict, Started, Run, Once
    <3>3. CASE run[q].pr = run[r].pr
      <4>1. run[q].sha # run[r].sha
        BY <2>2, <3>1, <3>2, <3>3 DEF Once
      <4>2. QED
        BY <2>1, <2>2, <3>2, <3>3, <4>1 DEF Inv, TypeOK
    <3>4. CASE run[q].pr # run[r].pr
      BY <2>1, <3>2, <3>4 DEF Inv, TypeOK
    <3>5. QED
      BY <3>3, <3>4
  <2>6. QED
    BY <2>1, <2>3, <2>5 DEF Once, Started
<1>6. ASSUME NEW r \in Runs,
             \/ Verify(r) \/ ListComments(r) \/ CloseByBot(r) \/ Crash(r) \/ RestartBot(r)
      PROVE  Once'
  <2>1. UNCHANGED <<run, marks, double>>
    BY <1>6 DEF Verify, ListComments, CloseByBot, Crash, RestartBot
  <2>2. /\ \A q \in Runs : q # r => bot'[q] = bot[q]
        /\ bot'[r] = "comment" => run[r].sha \notin marks[run[r].pr]
    BY <1>6 DEF Verify, ListComments, CloseByBot, Crash, RestartBot, Step, Inv, TypeOK
  <2>3. QED
    BY <2>1, <2>2 DEF Once, Started
<1>7. ASSUME NEW p \in PRs, Close(p) \/ Vanish(p) \/ Merge(p) PROVE Once'
  BY <1>7 DEF Close, Vanish, Merge, Once, Started
<1>8. Sharpen \/ UNCHANGED vars => Once'
  BY DEF Sharpen, vars, Once, Started
<1>9. QED
  BY <1>1, <1>2, <1>3, <1>4, <1>5, <1>6, <1>7, <1>8 DEF Next, Bot

\* Over crashes at any point and restarts of the bot, and with any number of
\* pushes, a judged commit gets one comment, as long as nobody reopens a pull
\* request on a commit that was judged before (then two bots work at once).
THEOREM OneCommentStays ==
    ASSUME "reopen" \notin Moves
    PROVE  Spec => []OneCommentPerHead
<1>1. Init => Inv /\ Once
  <2>1. ASSUME Init, NEW r \in Runs PROVE ~Started(r) /\ bot[r] = "idle"
    BY <2>1 DEF Init, Started, NoRun
  <2>2. QED
    BY <2>1, InitInv DEF Init, Once
<1>2. Inv /\ Once /\ [Next]_vars => (Inv /\ Once)'
  BY InvStep, OnceStep
<1>3. Inv /\ Once => OneCommentPerHead
  BY DEF Once, OneCommentPerHead
<1>4. QED
  BY <1>1, <1>2, <1>3, PTL DEF Spec
=============================================================================
