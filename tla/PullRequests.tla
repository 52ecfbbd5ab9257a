---------------------------- MODULE PullRequests ----------------------------
(***************************************************************************)
(* One niche and everybody who acts on it: authors opening, pushing to,    *)
(* closing and reopening pull requests; the entry-check runs GitHub starts *)
(* for them (entry-check.yml, judged here by the rule EntryCheck is shown  *)
(* to follow); the close bot (entry-close.yml), step by step, with its     *)
(* crashes and re-runs; and the maintainer merging entries and cases.      *)
(*                                                                         *)
(* A run keeps the head and the base it was started with; the head commit  *)
(* of a pull request is the number of its push.  main is the champion and  *)
(* the suite; a head is an entry and the number of cases it adds.          *)
(* Nothing makes the maintainer wait for a verdict on the present main:    *)
(* which merges were late is kept in a history variable.                   *)
(***************************************************************************)
EXTENDS TrustScore, Verdicts

CONSTANTS
    PRs, Runs,      \* pull requests; ids of entry-check runs
    Heads,          \* what may be pushed: [entry, cases, listed]
    Entries, None,  \* as in ChallengerRule
    MaxSuite,       \* bound on the sharpenings of the suite
    MaxSha,         \* bound on the pushes to one pull request
    MaxCount,       \* the largest number the bot accepts in a result
    Moves           \* what the surroundings do: a subset of AllMoves

AllMoves ==
    {"push", "close", "reopen", "vanish", "sharpen", "infra", "lose", "crash"}

ASSUME ArenaAssumption ==
    /\ Entries \subseteq [score : Score, level : Nat]
    /\ None \notin Entries
    /\ Heads \subseteq [entry : Entries, cases : {0, 1}, listed : BOOLEAN]
    /\ MaxSuite \in Nat
    /\ MaxSha \in Nat \ {0}
    /\ MaxCount \in Nat
    /\ Moves \subseteq AllMoves

VARIABLES
    champion, suite,    \* main
    pr,                 \* per pull request: state, head commit, its content
    run,                \* per run: its event payload, status and class
    bot,                \* per run: the step of the close bot it triggered
    marks,              \* per pull request: the commits it has comments for
    double,             \* history: a commit got a second comment
    closed,             \* history: the closings of the bot
    late                \* history: the runs that were started before a merge
                        \* on the verdict of a main that had changed

main == <<champion, suite>>
vars == <<champion, suite, pr, run, bot, marks, double, closed, late>>

Shas    == 1 .. MaxSha
NoHead  == [entry |-> None, cases |-> 0, listed |-> FALSE]
NoPR    == [state |-> "none", sha |-> 0, head |-> NoHead, origin |-> FALSE]
NoRun   == [status |-> "none"]

\* origin: the repository and the branch of the head are still there.
PullRequest ==
    [state : {"open", "closed", "merged"}, sha : Shas, head : Heads,
     origin : BOOLEAN]

Run ==
    [status : {"running", "done", "cancelled"}, pr : PRs, sha : Shas,
     head : Heads, champion : Entries \cup {None}, suite : 0 .. MaxSuite,
     class : Classes]

BotSteps ==
    {"idle", "verify", "list", "comment", "close", "crashed", "unread",
     "handled", "done"}

TypeOK ==
    /\ champion \in Entries \cup {None}
    /\ suite \in 0 .. MaxSuite
    /\ pr \in [PRs -> PullRequest \cup {NoPR}]
    /\ run \in [Runs -> Run \cup {NoRun}]
    /\ bot \in [Runs -> BotSteps]
    /\ marks \in [PRs -> SUBSET Shas]
    /\ double \in BOOLEAN
    /\ closed \subseteq [run : Runs, sha : Shas, suite : 0 .. MaxSuite, won : BOOLEAN]
    /\ late \subseteq Runs

-----------------------------------------------------------------------------
Conforms(e, s) == e.level >= s

\* Mutation: the challenger is checked on the base's suite, without the cases
\* it brings along.
StatusOnBase(h, c, s) ==
    IF ~Conforms(h.entry, s) THEN "conformance-fail"
    ELSE NicheStatus(c = None,
                     c # None /\ Better(h.entry.score, c.score),
                     c # None /\ Conforms(c, s))

\* The class of a run of the gate over this head and base; "infra" is a
\* sandbox that broke in any of its three measurements.
Status(h, c, s) ==
    IF ~Conforms(h.entry, s + h.cases) THEN "conformance-fail"
    ELSE NicheStatus(c = None,
                     c # None /\ Better(h.entry.score, c.score),
                     c # None /\ Conforms(c, s))

\* Mutation: the status is emitted where the class belongs.
GateStatuses(h, c, s) == {Status(h, c, s)}

\* Mutation: the champion's own check is not run; only the scores decide.
GateForgetsRecheck(h, c, s) ==
    {Class({IF Status(h, c, s) = "open-niche" THEN "not-improving" ELSE Status(h, c, s)})}

GateClasses(h, c, s) ==
    {Class({Status(h, c, s)})}
    \cup (IF "infra" \in Moves THEN {"infra-error", "error"} ELSE {})

Rejected(r) == run[r].status = "done" /\ run[r].class \in AutoReject
Green(r)    == run[r].status = "done" /\ run[r].class = "pass"
IsHead(r)   == pr[run[r].pr].sha = run[r].sha

\* The main a run judged on.
Base(r) == [champion |-> run[r].champion, suite |-> run[r].suite]
Main    == [champion |-> champion, suite |-> suite]

\* The bot can cite the result: at most fifty entries, each under a name it
\* knows, and with a lost comparison four numbers within its bound.
Cited(r) ==
    /\ run[r].head.listed
    /\ run[r].class = "not-improving" =>
         \A s \in {run[r].head.entry.score, run[r].champion.score} :
             s.vendored <= MaxCount /\ s.hazards <= MaxCount

-----------------------------------------------------------------------------
Init ==
    /\ champion \in Entries \cup {None}
    /\ suite = 0
    /\ pr = [p \in PRs |-> NoPR]
    /\ run = [r \in Runs |-> NoRun]
    /\ bot = [r \in Runs |-> "idle"]
    /\ marks = [p \in PRs |-> {}]
    /\ double = FALSE
    /\ closed = {}
    /\ late = {}

(* Authors and GitHub *)

\* A pull_request event: the new run cancels the one in progress in its
\* group and works on the head and the base of the event.
StartRun(p, content) ==
    \E r \in Runs :
        /\ run[r] = NoRun
        /\ pr' = [pr EXCEPT ![p] = content]
        /\ run' = [q \in Runs |->
             CASE q = r -> [status |-> "running", pr |-> p, sha |-> content.sha,
                            head |-> content.head, champion |-> champion,
                            suite |-> suite, class |-> "error"]
               [] q # r /\ run[q].status = "running" /\ run[q].pr = p ->
                    [run[q] EXCEPT !.status = "cancelled"]
               [] OTHER -> run[q]]
        /\ UNCHANGED <<main, bot, marks, double, closed, late>>

Open(p, h) ==
    /\ pr[p] = NoPR
    /\ StartRun(p, [state |-> "open", sha |-> 1, head |-> h, origin |-> TRUE])

Push(p, h) ==
    /\ "push" \in Moves
    /\ pr[p].state = "open"
    /\ pr[p].origin
    /\ pr[p].sha < MaxSha
    /\ StartRun(p, [state |-> "open", sha |-> pr[p].sha + 1, head |-> h,
                    origin |-> TRUE])

Reopen(p) ==
    /\ "reopen" \in Moves
    /\ pr[p].state = "closed"
    /\ pr[p].origin
    /\ StartRun(p, [pr[p] EXCEPT !.state = "open"])

Close(p) ==
    /\ "close" \in Moves
    /\ pr[p].state = "open"
    /\ pr' = [pr EXCEPT ![p].state = "closed"]
    /\ UNCHANGED <<main, run, bot, marks, double, closed, late>>

\* The author deletes the branch or the fork.
Vanish(p) ==
    /\ "vanish" \in Moves
    /\ pr[p].origin
    /\ pr' = [pr EXCEPT ![p].origin = FALSE]
    /\ UNCHANGED <<main, run, bot, marks, double, closed, late>>

\* entry-check ends.  A failed run of a pull request triggers the bot.
FinishRun(r) ==
    /\ run[r].status = "running"
    /\ \E class \in GateClasses(run[r].head, run[r].champion, run[r].suite) :
         /\ run' = [run EXCEPT ![r] =
                [status |-> "done", pr |-> @.pr, sha |-> @.sha, head |-> @.head,
                 champion |-> @.champion, suite |-> @.suite, class |-> class]]
         /\ bot' = [bot EXCEPT ![r] = IF class = "pass" THEN "idle" ELSE "verify"]
    /\ UNCHANGED <<main, pr, marks, double, closed, late>>

\* "the sandbox broke, not the entry; re-run this job": the same event
\* payload once more, after the bot has looked at the first attempt.
Rerun(r) ==
    /\ run[r].status = "done"
    /\ run[r].class \in {"infra-error", "error"}
    /\ bot[r] = "done"
    /\ run' = [run EXCEPT ![r].status = "running"]
    /\ bot' = [bot EXCEPT ![r] = "idle"]
    /\ UNCHANGED <<main, pr, marks, double, closed, late>>

(* The close bot *)

Step(r, next) == bot' = [bot EXCEPT ![r] = next]

\* Mutation: any failed run is acted on.
VerifyAnyClass(r) ==
    /\ bot[r] = "verify"
    /\ Step(r, IF /\ Cited(r)
                  /\ run[r].head.cases = 0
                  /\ pr[run[r].pr].state = "open"
                  /\ IsHead(r)
               THEN "list" ELSE "done")
    /\ UNCHANGED <<main, pr, run, marks, double, closed, late>>

\* The artifact and pulls.get: the result can be cited, the class is on the
\* list, the pull request touches nothing but entries, is open, and still has
\* the judged head in the repository and on the branch the run was of.  An
\* artifact that is missing, expired, too large or cannot be unpacked and a
\* pull request that cannot be read end the job.
Verify(r) ==
    /\ bot[r] = "verify"
    /\ \/ "lose" \in Moves /\ Step(r, "unread")
       \/ Step(r, IF /\ Cited(r)
                     /\ run[r].class \in AutoReject
                     /\ run[r].head.cases = 0
                     /\ pr[run[r].pr].state = "open"
                     /\ IsHead(r)
                     /\ pr[run[r].pr].origin
                  THEN "list" ELSE "done")
    /\ UNCHANGED <<main, pr, run, marks, double, closed, late>>

\* Mutation: the comments are not searched for the marker.
ListNothing(r) ==
    /\ bot[r] = "list"
    /\ Step(r, "comment")
    /\ UNCHANGED <<main, pr, run, marks, double, closed, late>>

\* listComments: a marker for the judged commit ends the run.
ListComments(r) ==
    /\ bot[r] = "list"
    /\ Step(r, IF run[r].sha \in marks[run[r].pr] THEN "handled" ELSE "comment")
    /\ UNCHANGED <<main, pr, run, marks, double, closed, late>>

\* Mutation: the comment is the last thing the bot does.
CommentOnly(r) ==
    /\ bot[r] = "comment"
    /\ double' = (double \/ run[r].sha \in marks[run[r].pr])
    /\ marks' = [marks EXCEPT ![run[r].pr] = @ \cup {run[r].sha}]
    /\ Step(r, "done")
    /\ UNCHANGED <<main, pr, run, closed, late>>

Comment(r) ==
    /\ bot[r] = "comment"
    /\ double' = (double \/ run[r].sha \in marks[run[r].pr])
    /\ marks' = [marks EXCEPT ![run[r].pr] = @ \cup {run[r].sha}]
    /\ Step(r, "close")
    /\ UNCHANGED <<main, pr, run, closed, late>>

\* pulls.update by number; closing what is closed or merged changes nothing.
CloseByBot(r) ==
    LET p == run[r].pr IN
    /\ bot[r] = "close"
    /\ IF pr[p].state = "open"
       THEN /\ pr' = [pr EXCEPT ![p].state = "closed"]
            /\ closed' = closed \cup
                 {[run |-> r, sha |-> pr[p].sha, suite |-> suite,
                   won |-> Status(pr[p].head, champion, suite) \in PassStatuses]}
       ELSE UNCHANGED <<pr, closed>>
    /\ Step(r, "done")
    /\ UNCHANGED <<main, run, marks, double, late>>

\* An API error, the five minutes, a lost runner; and the job started again.
Crash(r) ==
    /\ "crash" \in Moves
    /\ bot[r] \in {"verify", "list", "comment", "close"}
    /\ Step(r, "crashed")
    /\ UNCHANGED <<main, pr, run, marks, double, closed, late>>

RestartBot(r) ==
    /\ bot[r] \in {"crashed", "unread"}
    /\ Step(r, "verify")
    /\ UNCHANGED <<main, pr, run, marks, double, closed, late>>

(* The maintainer *)

\* A green head is merged, on the verdict of a run whose base may be old.
Merge(p) ==
    /\ pr[p].state = "open"
    /\ \E r \in Runs :
         /\ Green(r)
         /\ run[r].pr = p
         /\ IsHead(r)
         /\ late' = IF Base(r) = Main THEN late ELSE {q \in Runs : run[q] # NoRun}
    /\ suite + pr[p].head.cases <= MaxSuite
    /\ champion' = pr[p].head.entry
    /\ suite' = suite + pr[p].head.cases
    /\ pr' = [pr EXCEPT ![p].state = "merged"]
    /\ UNCHANGED <<run, bot, marks, double, closed>>

\* A case pull request is merged.
Sharpen ==
    /\ "sharpen" \in Moves
    /\ suite < MaxSuite
    /\ suite' = suite + 1
    /\ UNCHANGED <<champion, pr, run, bot, marks, double, closed, late>>

Bot(r) == Verify(r) \/ ListComments(r) \/ Comment(r) \/ CloseByBot(r)

Next ==
    \/ \E p \in PRs, h \in Heads : Open(p, h) \/ Push(p, h)
    \/ \E p \in PRs : Reopen(p) \/ Close(p) \/ Vanish(p) \/ Merge(p)
    \/ \E r \in Runs : FinishRun(r) \/ Rerun(r)
    \/ \E r \in Runs : Bot(r) \/ Crash(r) \/ RestartBot(r)
    \/ Sharpen

\* GitHub runs what was triggered; nobody has to push, merge or re-run.
Fairness == \A r \in Runs : WF_vars(FinishRun(r)) /\ WF_vars(Bot(r))

Spec == Init /\ [][Next]_vars /\ Fairness

-----------------------------------------------------------------------------
(* What holds *)

\* Whatever is merged, in whatever order and however late, one niche is held
\* by the challenger rule: who takes it passed and won on a main it was
\* measured on, and as long as no merge was late, on the main it was merged to.
Rule ==
    INSTANCE ChallengerRule WITH
        bases <- {Base(r) : r \in {q \in Runs : run[q] # NoRun}},
        late <- late # {}
FollowsTheRule == Rule!Spec

\* The bot closes only on a verdict: the run that made it act was rejected by
\* the rule on the head and the base it judged, never a run without a
\* verdict, and the pull request adds nothing outside entries/
\* (entry-close.yml:190-203).
ClosedWasRejected ==
    \A c \in closed :
        LET r == c.run IN
        /\ run[r].status = "done"
        /\ Status(run[r].head, run[r].champion, run[r].suite) \in AutoReject
        /\ run[r].head.cases = 0

\* One comment per judged commit, over crashes at any point and restarts of
\* the bot (entry-close.yml:233-239).
OneCommentPerHead == ~double

\* A verdict on a base that is old by now is safe to act on
\* (entry-check.yml:57-61), as long as the suite is the one it was measured on
\* and main only took verdicts on itself since: whatever was merged in
\* between, what the bot closes would not win today.
StaleRejectIsSafe ==
    \A c \in closed :
        c.sha = run[c.run].sha /\ c.suite = run[c.run].suite /\ c.run \notin late
            => ~c.won

\* An entry that is rejected with a result the bot can cite is closed
\* automatically (README.md:67-68), unless its author or the maintainer moves
\* first, or the bot crashes or cannot read the result; what it finds after a
\* crash is HandledWasClosed below.  The README says it of every rejected
\* entry: one whose name has other characters than a-z, 0-9 and -, or that
\* comes with fifty others, stays open.
RejectedIsClosed ==
    \A r \in Runs :
        (Rejected(r) /\ run[r].head.cases = 0 /\ Cited(r)) ~>
            \/ bot[r] \in {"crashed", "handled", "unread"}
            \/ run[r] # NoRun =>
                   LET p == run[r].pr IN
                   pr[p].state # "open" \/ ~pr[p].origin \/ ~IsHead(r)

-----------------------------------------------------------------------------
(* What the documents say and the code does not do *)

\* 'this head SHA was already handled' (entry-close.yml:237-239): the commit
\* was commented on and the pull request closed.
HandledWasClosed ==
    \A r \in Runs : bot[r] = "handled" =>
        \E c \in closed : run[c.run].pr = run[r].pr /\ c.sha = run[r].sha

=============================================================================
