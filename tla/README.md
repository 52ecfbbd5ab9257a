# A verification project for *how-small-can-we-go*

The repository is a competition ("arena") around small programs. A **niche** is
a task with a suite of cases; it is held by one **entry** (the champion), a
directory `entries/<task>/`. A challenger takes the niche by a pull request
whose entry passes the suite and has a strictly better **trust score**
(vendored bytes first, hazards second), by finding the niche empty, or by
finding a champion that no longer passes. Nobody does this by hand: a Go
binary (`tool/`) measures, a GitHub workflow (`entry-check.yml`) judges, a
second one (`entry-close.yml`) closes what lost, a third (`board.yml`)
publishes. The hard part of the program is what lies between these: four
programs in three languages that hand each other exit codes, files, artifacts
and labels, each of which can fail, be killed or come late, and one action
(closing somebody's pull request) that must never be taken on a failure of
the machinery.

All paths below are relative to the repository.

## 1. Inventory

| Component | State it keeps | Operations | Status |
|---|---|---|---|
| trust score order (`tool/internal/arena/score.go:142-162`, `entry-check.yml:77-79`) | none | `Score.Better`; its second copy in shell, `better` | modelled: `TrustScore` |
| trust score measurement (`score.go:165-453`, `files.go`) | the walk's position, the score so far; per file the scanner's position, line and output | `ScoreDir`, `walkEntryFiles`, `isVendored`, `collapseSplices`, `stripComments`, `stringEnd`, `scan` | modelled: `CommentStrip`, `ScoreDir` |
| process execution (`runner.go:186-240`) | the child process, its pipes, the deadline; behind them the container and the daemon | `execute` | modelled: `Execute`; what it promises: `Execution` |
| `arena check` (`tool/check.go`, `tool/main.go`, `runner.go`) | per entry: `Result`; per call: failed count, infra flag; the scratch build and case directories | `cmdCheck`, `CheckEntry`, `runCase` | modelled: `ArenaCheck` |
| gate (`.github/workflows/entry-check.yml`) | the loop over changed entries, `entries.tsv`, the `fail` flag, the `check-complete` marker, `result.json` | gate step, case impact step, result step, upload | modelled: `EntryCheck` |
| close bot (`.github/workflows/entry-close.yml`) and the pull requests | pull request state and head, runs and their payloads, comments with a marker | verify, list comments, comment, close; triggers and concurrency groups of both workflows | modelled: `PullRequests`, `ChallengerRule` |
| board (`tool/board.go`, `internal/arena/board.go`, `board.yml`) | `board.json`, `index.html`, the published pages; the build in progress and the one waiting | `cmdBoard`, `WriteBoard`, build and deploy jobs | modelled: `Board` |
| manifest and languages (`arena.go`) | none | `LoadManifest`, `LoadLanguages`, `Discover*`, `compile` | partly: "valid or not" in `ArenaCheck`, discovery in `Board`, the order of string openers in `CommentStrip` |
| entries in Go: `semver-range-check`, `cron-next-run`, `url-parse`, `base58check-decode` | none but cron's search position | one function each | modelled: `SemverRange`, `CronNextRun`, `UrlParse`, `Base58Check`, run by `EntryPrograms` |
| entries: `jwt-hs256-verify`, the Python parsers | none | one function each | not modelled, see section 8 |
| issue intake (`intake-check.yml`), CI (`ci.yml`), `scripts/`, tasks and `languages.json` | none | advisory comments, test drivers, data | not modelled, see section 8 |

### How they interact

    author --push--> GitHub --pull_request event {head, base}--> entry-check run
       entry-check --exit code 0/1/3--< arena check (challenger, then champion)
          arena check --cmd.Run--> docker CLI --> daemon --> container
       entry-check --score--< arena score (challenger, then champion)
       entry-check --result.json {class, entries, sha}--> artifact
       entry-check ends red --workflow_run--> entry-close
       entry-close --pulls.get, listComments, createComment, pulls.update--> GitHub
    maintainer --merge--> main --push, or the weekly cron--> board.yml
       board.yml --exit code 0/1/3--< arena's check of every entry --> pages

* `execute` -> `arena check`: output, exit code and an error that is or is not
  "infrastructure". Docker and the program share the exit codes.
* `arena check` -> gate and board: an exit code. 0 passes, 1 is a verdict, 3 is
  the absence of one. Only 0 and 1 may be judged or published.
* gate -> bot: a **class** in an artifact, computed from the list of statuses
  by a different step than the one that decides the job's exit code.
* GitHub -> gate: an event payload that is a snapshot. The head and the base
  it names are old when the run ends, older when the bot acts.
* bot -> GitHub: four API calls with nothing atomic between them.
* main -> board: triggers of three kinds, one concurrency group, one slot to
  wait in.

### What is hard, and what makes each part correct

* **`execute`.** The timer kills the child only: the docker CLI or the host
  program, not the container and not a helper that holds the output. Correct:
  an exit code is that of a program which ended by itself, what is left behind
  cannot touch a judged run, every call returns.
* **`arena check`.** docker reports its own failures through exit codes a
  program may use (125, 1) and through stderr text; several entries and cases
  share one exit code. Correct: exit 0 and exit 1 are earned, a container that
  did not run is never a verdict, a program that imitates docker only defers.
* **Measurement.** The strip must not blank code, in any language, around
  strings, escapes, guards, nested markers and joined lines; its line counter
  must not slip, the guards are looked up by it. The hazard patterns look at the
  bytes around a name, which a joined line or a comment left in place changes; a
  literal the configuration does not name may hold a mark. Correct: no hazard is
  hidden, every hit is real, the vendored bytes are those committed.
* **Gate.** Several entries in one run, each of up to four measurements that
  may fail; the step may die anywhere; the reporting step runs anyway. Correct:
  a recorded status is what the challenger rule says of the two trees or says
  there is none; green is earned; a class the bot acts on is earned; the two
  accounts of the same loop agree.
* **Bot and pull requests.** Push, close, reopen, merge, re-run and restart
  interleave with the API calls; a verdict may be merged on a main it was not
  measured on. Correct: only rejections are acted on, all that the bot can cite
  are, one comment per judged commit, and main only ever changes by the
  challenger rule, on a main the challenger was measured on.
* **Board.** Builds wait, replace each other, fail and crash between the two
  files. Correct: what is published is one true account of one commit, never of
  an older one than before, in the end of the newest.
* **Score order.** It exists twice; a tie is not better; it is total, which is
  what makes an old comparison safe.
* **Entry programs.** Boundaries: the largest component, the last minute of the
  search, a delimiter inside another component, zero bytes in front.

The full list of hazards, each at its line and with the properties that catch
it, is `hazards` in `PROJECT.json`.

## 2. Plan

Done, in this order: the vocabulary (`TrustScore`, `Verdicts`), one run of the
gate (`EntryCheck`), the harness (`ArenaCheck`), the abstract rule of a niche
(`ChallengerRule`) and the pipeline that implements it (`PullRequests`); the
processes behind a call (`Execute`) and their promise (`Execution`); the
measurement (`CommentStrip`, `ScoreDir`); the board (`Board`); four entry
programs (`EntryPrograms` and the modules it extends); and the proofs, eight
modules of them (section 5).

The modules are tied together by what each assumes of the next:

    Execute  --keeps-->  Execution   --assumed by-->  ArenaCheck
    ArenaCheck --keeps--> Verdicts!CheckExits --assumed by--> EntryCheck, Board
    EntryCheck --follows--> NicheStatus, Class --used by--> PullRequests
    PullRequests --implements--> ChallengerRule

Left: a model of reopening with the bot's race (section 7), should the workflow
come to guard against it.

## 3. Modules and the code

### TrustScore
`Better` is `Score.Better`, `ShellBetter` is the `better` function of the gate
with its four columns. A score keeps the two numbers that are compared; the hit
list, file count and notes are reporting.

### Verdicts
Exit codes, statuses, classes, the order in which the result step looks for
them (`Class`), the classes the bot acts on (`AutoReject`), and
`CheckExits(right, faults)`: what may be read as the exit code of a check.

### Execution and Execute
`Execution` is the promise of one call of `execute`: `Executions(sandbox, b)` is
what `cmd.Run` may come back with when a program of behaviour `b` is run,
together with the fault that really happened; `Classify` is the branch after it
(`runner.go:212-237`). `Execute` is what lies behind: the caller (`phase`,
`call`), the context's `timer`, the `child` it starts, the program (`job`: the
container, or the child itself), a `helper` that inherited the output, and
docker's faults.

| Action | Code or process |
|---|---|
| `Start`, `StartFails` | `cmd.Run` starts the child or cannot (`runner.go:193-212`, 230-238) |
| `Expire`, `Kill` | the context's deadline, and `exec.CommandContext` killing the child (192-206) |
| `RunReturns` | `Run` comes back: the child was waited for and, on the host, the pipes were read to their end (212-240) |
| `NextCall` | `CheckEntry`: cases only after a build that exited 0, then all of them (109-132) |
| `ContainerStarts`, `ProgramEnds`, `CliExits`, `DaemonFails`, `HelperLeaves`, `OrphanEnds` | docker, the daemon and the program: external |

`KeepsExecutions` states that what a call returns, in whatever order these
processes moved, is one of `Executions`: the step from the processes to the one
choice `ArenaCheck` makes.

### ArenaCheck
`cmdCheck`'s loop: `Open` the next directory (its content is chosen here),
`Load` (manifest, language, cases, score; any error fails the entry),
`Prepare` (scratch copy), `Build`, `RunCase` in any order without stopping at a
failure, `FinishEntry`, `Exit`. Two history variables hold the truth: `wrong`,
the entries that deserve to fail, and `events`, the faults that occurred (with
`imitated` for a program whose own exit reads like docker's).

### CommentStrip and ScoreDir
`CommentStrip` is `stripComments`, one action per branch of its loop:
`Newline`, `GuardedByte`, `LineComment`, `BlockComment` (nested where the
language nests them), `String` (with `StringEnd`, escapes and multi-line
literals), `CodeByte`, `Stripped`; each may give up (`Doubt`). A byte is a
string, a marker a sequence of bytes; the guards and directives of a language
are sets of markers. `ScoreDir` is the walk: `Visit` a file (admission, vendored
bytes, splices, strip or not), `Strip` it, `Count` its hazards, `Finish` with the
manifest's commands.

A hazard pattern is a name with what may stand neither right before nor right
behind it (`\b`, `[^.\w]`), what must follow it behind any white space (`\s*`),
and whether it takes the byte before the name into its match. `MatchesAt` is the
pattern at a position; `LineOf` the line of the match's first byte. These are
the forms of `languages.json`: `\bunsafe\b`, `\bprocess\s*::`,
`(^|[^.\w])eval\b`, `//go:linkname`. An alternative is a pattern of its own.

`Token` and `Tokens` are the reference: how the language itself reads the text,
written without the scanner's state. It knows more than the scanner's
configuration: the *foreign* literals of which that says nothing, which are
Rust's raw strings (`rawStrings`) and characters between quotes (`charQuotes`,
`CharEnd`), an escaped quote among them. `Code` is the text without its comments
and `Runs` the matches in it: what the language would run.

`FollowedHazardsSurvive` says that each of these is a hit, and names what it
excepts:

* a file whose lines are joined although its reader keeps them apart (Python:
  `collapses` without `joins`);
* a stripped file the scanner cannot follow. `Lexable` is: no opener of a nesting
  comment in which its closer begins; no joint left in a language that guards
  lines; no mark of the configuration inside a foreign literal;
* a match in which a comment stands that the scan sees, since the file is
  scanned raw or has guarded lines (`Interrupted`).

All three are what the code does; section 7 has an example of each. The
sentence of `score.go:26-28` without them is `HazardsSurvive`, which two runs
refute.

### EntryCheck
One run on a pull request. State: the two trees (`head`, `base`), the listing
`git diff --name-only | cut | sort -u` would print, the position in the loop
(`pc`, `todo`, `cur`), `entries.tsv` (`verdict`), the `fail` flag, the
`check-complete` marker (`complete`), the artifact, the conclusion (`outcome`).

| Action | Code (`entry-check.yml`) |
|---|---|
| `ListChanges` | the `mapfile` and the early exit on an empty list, 80-91 |
| `NextPath` | the loop head and the `-d` test, 92-99 |
| `CheckChallenger` | `arena check` on the head and its three-way branch, 100-117 |
| `ScoreChallenger` | `arena score` and its guard, 118-127 |
| `ScoreChampion` | worktree entry absent / unscorable / better, 128-140 |
| `RecheckChampion` | the champion on its own suite, 141-160 |
| `FinishGate` | the marker and `exit "$fail"`, 161-163 |
| `CaseImpact` | the informational step, 165-192 |
| `Die` | a failed `git worktree add`, the 20 minutes, a cancellation, a lost runner |
| `Emit` | the `always()` steps that compute the class and upload it, 194-271 |

An entry is reduced to its score, whether it conforms to the suite of its own
checkout, and whether it can be scored at all. A path is printed plainly or
quoted (git quotes non-ASCII names, `cut` keeps the opening quote). The loop
visits paths in any order, the code in sorted order: the properties do not
depend on it. The case impact step always exits 0 and writes nothing the other
steps read, so it is one step. Faults are a constant set: `sandbox` (exit 3),
`host` and `stall` (exit 1 although nothing was judged), `score`, `diff`,
`kill`, `emit`.

### ChallengerRule
One niche without any machinery. `Measure` remembers the main a challenge is
measured on (`bases`); `Crown` gives the niche to an entry that, on a main it was
measured on, passes and finds the niche empty, beats the champion or finds it
failing; `late` says whether that main was ever another than the one it was
crowned on. `Sharpen` is a merged case.

### PullRequests
Pull requests (state, head commit, content), runs (the payload of the event,
status, class), the bot's step per run, the comments' markers, main (champion
and suite). A run is judged by `Status`, the rule `EntryCheck` is shown to
follow, or ends without a verdict. `StartRun` is GitHub's event with the
cancelling concurrency group; `Rerun` keeps the old payload. `Verify`,
`ListComments`, `Comment` and `CloseByBot` are the bot's API calls; `Crash` and
`RestartBot` a job that fails between them and is started again. `Merge` and
`Sharpen` are the maintainer. Conformance is a level: an entry passes the suites
up to it, so a sharpened suite makes champions fail.

`Verify` has every way the bot ends without acting: the artifact is missing,
expired or too large, cannot be unpacked or parsed, or the pull request cannot
be read (`unread`; the move `lose`); the result cannot be cited (`Cited`: more
than fifty entries or a name outside `ENTRY_PATH`, which is the head's `listed`,
or a score beyond `MaxCount`); the class is not on the list; the pull request
touches other files; it is not open; its head has moved; its branch or repository
is gone (`origin`, taken away by `Vanish`).

A merge asks for a green run on the head and for nothing else, so its base may
be old. The history variable `late` keeps the runs that existed when such a
merge happened.

`Rule` is the refinement: main is main, `bases` are the bases of the runs, the
abstract `late` is that of any run. Starting a run is a `Measure`, a merge of an
entry a `Crown`, a merge that brings a case along is checked against the new
suite, and all other steps stutter.

GitHub itself and the people are modelled from how the workflows use them and
marked external in `PROJECT.json`.

### Board
Commits are numbers with fixed contents (per task: no entry, a right one or a
wrong one). `Push` and `Rebuild` (the weekly cron, a dispatch) are the triggers;
`Trigger`, `Release` and `Abort` the concurrency group: one build runs, one
waits, a newer one replaces the one that waits. `CheckEntry` is the loop of
`cmdBoard` (an entry without a verdict ends the build), `WriteJson` and
`WriteHtml` the two files of `WriteBoard`, `Deploy` the upload and the second
job. `Crash` may end the build between any two of these. `Calm` ends the faults
at a moment nobody chooses.

### The entry programs
`SemverRange`, `CronNextRun`, `UrlParse` and `Base58Check` hold the programs'
parsers and algorithms as operators and recursive functions, each next to a
reference definition made another way: `Means` (an operator as an interval of
versions), `Fires` (a minute matches an expression as its task describes),
`IsURL` and `Recompose` (a grammar over texts of any length, and putting the
pieces together), `Encode`.
`EntryPrograms` runs them: one step each, and for cron one step per minute it
looks at. What the code fixes is a constant where the size matters: 2^63 - 1
(`MaxComponent`, with the wrap of uint64 above it), 58, 256 and 4
(`Base`, `ByteBase`, `ChecksumLen`), the lengths of minutes, hours, days,
weeks and months. Leap years come every `LeapEvery` years, two to four, without
exception, and no month is shorter than a week (`CalendarAssumption`); in the
code's calendar they come every four, and a month has 28 days at least. Both
matter to the search, which has to meet every date, and every day of the week
in every month, within four years.

## 4. Runs

| Run | Question | Result |
|---|---|---|
| `gate` | do status, class and exit status follow the rule, and does the run end, under sandbox, score, diff, kill and emit faults? | holds |
| `gate_unscorable_champion` | does a failing champion always leave its niche open? | no |
| `execute` | does a call report what the harness assumes, leave nothing that could meddle with a judged run, and return? | holds |
| `harness` | is the exit code of `arena check` one the gate may rely on, in both modes and under all faults? | holds |
| `score` | are comments and only comments blanked, every hazard counted on its line (but for the exceptions of section 3), every vendored byte counted? | holds |
| `score_joined_comment` | is a hazard never hidden, where a comment ends in a backslash? | no |
| `score_nested_comment` | and where comments nest? | no |
| `arena` | does the pipeline, late merges included, implement the challenger rule; is a rejection on an old champion still true unless a merge was late? | holds |
| `bot` | does the bot act on rejections only, on all it can cite, and comment once? | holds |
| `bot_crash_between` | was a pull request called "handled" closed? | no |
| `board` | is the published board true, never older than before, and in the end the newest? | holds |
| `entry_programs` | do the four Go entries answer what their tasks mean? | holds |

The runs that answer "no" each check one sentence of the documents or comments
against the model; the counterexamples are `findings` in `PROJECT.json`.

**Bounds.**

* `gate`: two niches, so that one entry's verdict meets another's; entries
  `(0,1)`, `(1,0)` and a failing `(0,0)`, which give every outcome of the
  lexicographic comparison against each other, a tie included, and a failing
  champion with the best score; both forms of each path.
* `execute`: a build and two cases (`Calls`), so that what one case leaves
  behind meets the next; five programs (right, wrong, endless, and two that
  imitate docker), each without a helper, with one that leaves and with one that
  stays; both modes, every fault.
* `harness`: two entries of two cases, so that a later case or entry can hide
  an earlier one; six program behaviours, all exits the classification tells
  apart.
* `score` (251,932 states): every text of up to five bytes over the alphabet of
  one shape of a language at a time (seven for Rust's comments, four for names
  and for what follows an escape in a Go string), behind a prefix where a string,
  a comment, a character or a pattern has to be
  open first: the longest interplay of two markers of two bytes and a byte
  between them. Go, Rust, C and Python differ in what they nest, join, guard,
  keep and quote, and the shapes cover each difference: `quotes` has the texts
  behind `'\`, `paths` the comments inside `process ::`, `names` the words that a
  C splice joins, `builtins` the bytes before a Python builtin. Entries of up to
  two files from a few, for the walk and the raw scans. The texts of Python have
  a backslash only in the run `score_joined_comment`; `score_nested_comment` has
  Rust texts of up to thirteen bytes that begin with an overlapping opener.
* `arena`: two pull requests and three runs, so that one of them can be
  reopened and judged twice while the other is merged, or both be judged on one
  main and merged one after the other; one sharpening
  (`MaxSuite`), one commit each (279,768 states). Pull requests and runs are interchangeable, so
  this run and `bot_crash_between` use symmetry.
* `bot`: one pull request, two commits (`MaxSha`), two runs, an unbounded
  number of bot crashes, lost artifacts and re-runs; heads with a score beyond
  `MaxCount` and with a name the bot does not know (486,744 states). It checks liveness and uses no symmetry.
* `board`: two tasks, three commits (`MaxCommit`): one published, one being
  built, one waiting.
* `entry_programs`: a calendar of two months (four days and two) with a leap day,
  weeks of two days, and every minute of one whole cycle of dates and days of the
  week as an instant, so that there is a date that only the leap year has and one
  that no month has; all versions with components up to 2 (with every operator
  on every pair) and clauses of two; all words of up to four characters
  (`WordLen`) from thirteen classes behind a scheme; all codes of up to six digits in base 3, against
  bytes of base 4.

Deadlock checking is off where the program ends by itself: the job is done, the
program has answered, or the bounds on runs and pushes are used up. `board` and
`score` keep it on: the board's triggers never end, and a scored entry has a
stuttering step after the return.

**Fairness.** `EntryCheck` assumes weak fairness of its steps: the runner gives
every job a time limit and either lets a step finish or kills the job.
`PullRequests` assumes that GitHub finishes runs and executes the bot steps it
has started. Nobody has to push, close, merge, re-run or restart, so nothing
that depends on a person is assumed; in particular `RejectedIsClosed` promises
nothing after a crash of the bot (`bot_crash_between` shows why it cannot) or an
artifact it could not read, as nobody has to start it again.
`Execute` assumes the Go program and the kernel: calls are made, an expired
timer fires, a killed child dies, a program that ends does end. Nothing is
assumed of docker and its daemon, and `CallsReturn` still holds: the timer ends
the call. `Board` assumes that the cron comes back and that a job with a
runner goes on; faults may go on for ever, then nothing is promised
(`CatchesUp` starts from `<>[]calm`). `ScoreDir` and `EntryPrograms` claim no
liveness and assume no fairness.

## 5. What is proved

Eight modules of proofs; TLAPS checks every obligation for all values of the
constants. Each invariant's proof has a lemma per action.

* **`Induction`**: what the proofs below need about data of any size. The
  induction theorems of the library take a predicate as a parameter, which the
  provers cannot instantiate; here they are stated for sets, a set of numbers or
  of sequences that holds what it has to hold all of them (`Climb`, `Complete`,
  `Lists`), and recursion for functions (`Recursion`: the function a recursive
  definition defines exists, so its equation may be used). They rest on one fact
  of the library, that the natural numbers are well-founded.

* **`EntryCheckProofs`**, for every set of niches, every set of entries, every
  pair of trees and every subset of the faults: `TypeCorrect`;
  `ControlCorrect`, whose `Control` is the inductive invariant.
  `ClassMirrorsGate` alone is not inductive: it speaks of an artifact at the end
  of a run, so the proof needs that the path being judged is open
  (`CurrentIsOpen`), that every listed path is done, waiting or current
  (`NothingSkipped`), that the flag is the disjunction of the recorded statuses
  (`FlagMirrorsVerdicts`), what each stage implies for marker and outcome
  (`OutcomeFollows`), and that the artifact is the result of the state it was
  made in (`ArtifactIsResult`). From it `ClassMirrors`, `CompleteStaysFinal`,
  `OutcomeStaysTheGates`. Under `HonestHarness` (no `host` and no `stall` fault:
  the two kinds of failure the harness reports as exit 1) also `TruthInvariant`:
  `Control` with `VerdictIsTheRule` and `Measured`, which records what the run
  already knows about the current path; from it `VerdictsAreTheRule`,
  `GreenStaysEarned` and `RejectStaysEarned`. The shell copy of the score order
  agrees with the Go one on all scores (`ShellAgreesWithGo`).

* **`ExecuteProofs`**, for every set of programs, any number of calls and every
  subset of the faults: `ExecuteTypeCorrect`, `CodeMeansEndedAlways`,
  `BuildAlwaysOver`, `NothingJudgedIsLeft` and `ExecutionsAreKept`. The inductive invariant is `Shape`, `Processes` (which
  process can be alive at which phase), `Ends` (who made the child exit, and
  that the timer expires for a reason), `Reported` (what a returned call rests
  on) and `Past` (what earlier calls reported and left).

* **`ArenaCheckProofs`**, for every command line, suite, set of behaviours and
  subset of the faults: `CheckTypeCorrect`, `CheckKeepsContract`,
  `SandboxFaultStaysNoVerdict`, `ImitationStaysDeferral`,
  `HostModeStaysJudge`, `UncountedStaysRight`. The inductive invariant adds to
  the types that every entry is counted at most once (`Shape`, by cardinality),
  that the infra flags say exactly whether an infrastructure event was met
  (`Flags`), what the position says of the current entry (`Known`) and the
  count against the truth (`Truth`). The program's part is `Execution`, the
  promise `ExecuteProofs` proves kept.

* **`PullRequestsProofs`**: for all scores in `Nat x Nat` the order is strict,
  transitive and total, and the argument of `entry-check.yml:57-61` holds with
  its premise made explicit (`StaleComparisonIsSafe`): if the champion has only
  been beaten since, an old "not better" is still true. For any number of pull requests, runs, commits and
  sharpenings: `ArenaTypeCorrect` and `ClosedStaysRejected`, from `Payloads` (a
  run judges what was pushed), `Verdict` (the class of a finished run is one the
  gate gives its payload) and `Closings` (a closing names a run that stays
  what it was). With nothing assumed of the maintainer: `PipelineFollowsTheRule`,
  the refinement (initial states map to initial states, the start of a run is a
  `Measure`, a merge a `Crown` on the base of its run, anything else a `Sharpen`
  or a stutter), and `StaleRejectStaysSafe`, whose strengthening is
  `Since`: while the suite is the one a run was started on and no merge since was
  late, a champion that defended its niche then has only been beaten since.
  Without reopening:
  `OneCommentStays`, by `Once` (a commit has one run; a bot about to comment has
  found no comment).

* **`BoardProofs`**, for any tasks and number of commits: `BoardTypeCorrect`
  (`Shape`); `BoardNeverGoesBack` by `Order`: published, in progress, waiting and
  pushed are four commits in this order; with `HonestHosts` (as above)
  `BoardStaysTrue` by `Truth`: what a build has is true of its commit row by row
  while it checks, file by file once it writes.

* **`ScoreDirProofs`**, for every language of the assumed shape, every entry and
  every file: `ScoreTypeCorrect`, `LineAlwaysTracked`, `HitsAlwaysReal`,
  `ScoreAlwaysWhole`, `StripAlwaysExact`, `HazardsAlwaysSurvive`. The inductive
  invariant of the first four is `Base`: what the scanner has
  blanked and where it stands (`Scanner`), which file the walk is at (`Walk`),
  what the score so far counts of the files before it (`Measured`) and where its
  hits are in them (`Located`). `LineIsTracked` is the part that looks
  strongest: it needs that a literal read byte by byte, in which an escape may
  skip a newline, ends behind as many newlines as were counted, which is an
  induction over the text from its end (`StringRest`).

  `StripAlwaysExact` adds `Exact`: the scanner stands where a token of the
  language starts, or in the rest of a guarded line on which one started
  (`OnTrack`); what it has blanked is comments (`OnlyComments`), and before its
  position all of them, unless a line is guarded (`AllComments`). A step from one
  token to the next is one lemma per kind of token. `LiteralIsRead`: the
  scanner ends a literal where the language does, at the first closing mark
  behind an even number of escapes. `BlockIsRead`: it ends a comment at the
  closer the language takes, or says that it is in doubt. `GuardedLine`: from a
  guarded line both go on at the next one. `ForeignPassed`: inside a literal the
  configuration does not name the scanner takes byte after byte for code, and
  leaves it where the language does. The premise, `Lexable`, excludes what
  the scanner does not tell apart: in a language that nests, an opener in which
  a closer begins (`/*/`); in a language that guards lines, an escaped newline
  still in the text after lines were joined, in which a literal could go on; a
  mark of the configuration in a foreign literal.

  `HazardsAlwaysSurvive` carries this through the walk, for patterns of every
  form of section 3. A match in the text without its comments is a match in what
  is scanned (`MatchSurvives`): the bytes of the name and of what follows it are
  no comment's, so they are the same in every copy; the bytes next to the name
  are the same or belong to a comment that ends or begins there, whose marks part
  words (`CommentEnds`, `CommentStarts`); between the name and what follows it
  every comment is blank, or none stands there, or the match is `Interrupted`.
  The files counted so far keep their hits (`Survived`). The exceptions in
  `FollowedHazardsSurvive` are needed: `score_nested_comment` and the escaped
  character of section 7 are what happens without `Lexable`,
  `score_joined_comment` without the condition on joined lines, `process/**/::`
  without `Interrupted`.

* **`EntryProgramsProofs`**: `ComparatorsMeanWhatTheySay`, every operator on
  every two accepted versions; the bounds above a caret or a tilde never wrap.
  From it `SemverAlwaysMeansIntervals`, for every range and version.
  `Base58AlwaysInverts`, for all texts in any two bases: the digits of a number
  determine it and are determined by it (`ValueOfDigits`, `DigitsOfValue`, by
  induction over the digits), zeros in front are carried over one by one, and
  the loop that converts from one base to the other returns the digits of the
  same number (`ConversionReturns`).

  `UrlAlwaysRoundTrips`, for every text of any length. The parser cuts
  what is left of the text where a delimiter first stands, from both ends in
  turn; the grammar concatenates from left to right. In between stands the `Anatomy` of a URL, its
  components with their delimiters given or absent. A text is what the parser
  accepts exactly if it is `Whole(a)` for a `Sound` anatomy a
  (`ParseOfWhole`, `ParsedIsWhole`), since no sound component holds a delimiter
  that a later cut looks for (`SoundApart`); and exactly if the grammar derives
  it (`DerivedIsWhole`), where a class of characters and triples is a repetition
  of pieces by induction over where the pieces end (`StarSays`). An anatomy is
  put together again to its text (`RecomposeSays`).

  `CronAlwaysNext`, for every expression, instant and calendar. What the loop of
  `parseField` sets in a mask is what the item names, for a clamped step as well
  (`ItemSays`), and the day rule over the masks is the rule of the task
  (`MatchesSays`), as a bare star holds at every time. The inductive invariant
  `Searched` says that no minute passed over is a fire time. It gives the answer
  at once, but an error is only true if the search is long enough, which is
  `SearchIsEnough`: the calendar repeats after `CycleDays`, no more than four of
  its longest years (`CycleInYears`); among as many days from any day on, there
  is every date of the cycle (`Residue`), and for every month of the year a whole
  week in it (`WeekOfMonth`). An expression asks of a day either its date or its
  day of the week (`DayAlone`), so that one of them is a day it allows.

The premises cannot be dropped. Without `HonestHarness` and `HonestHosts` a host
failure is an exit 1 that judges nobody; with reopening two bots may
comment on one commit (all in section 7); with leap years that can be missed
out, as 2100 is, four years are too short a search (section 7 as well).
Assumptions on constants
(`EntriesAssumption`, `FaultsAssumption`, `ArenaAssumption`, `BoardAssumption`,
`ExecuteAssumption`, `LanguagesAssumption`, `BasesAssumption`,
`CalendarAssumption`, ...) are
evaluated by TLC in the runs. `LanguagesAssumption` is what `languages.json` and
`compile` guarantee of a language: markers are not empty and hold no newline, an
escape is the backslash or none and is no part of a closing mark, the longest
opener comes first, only a language without block comments guards lines, and
what keeps a comment begins like one. Of the hazard patterns (`HazardShape`) it
is what those of the file have in common: a name holds no white space and does
not overlap itself, what follows it does not begin like it or with a space, and
the marks of comments are no bytes of words. Of the languages themselves: one
with foreign literals guards no lines.

## 6. What is only model-checked

* Liveness is outside what the proof system handles: `Terminates`,
  `RejectedIsClosed`, `CallsReturn`, `CatchesUp`.

## 7. Known behaviour of the code, seen in the models

Kept as runs: a champion that cannot be scored blocks its niche; in Python a
comment that ends in a backslash hides the next line's hazard; in Rust a nested
comment whose opener shares a byte with the first closer (`/*/*/`) hides code
behind it; a crash between comment and close leaves a rejected pull request
open.

Seen and not kept as runs of their own:

* A path that git quotes is taken for a removal: `git diff --name-only` prints a
  non-ASCII name in quotes, `cut` keeps the first of them, and `-d` at
  `entry-check.yml:94` then finds no directory. The entry is recorded `removed`
  and nothing is measured. `GreenIsEarned` and `VerdictIsTheRule` except it.
* A `git diff` that fails in the process substitution (`entry-check.yml:84`) is
  an empty list: "No entry changes." and a green run. Its class is none the bot
  acts on.
* A host error while a scratch directory is made (`runner.go:137`) carries no
  infra flag: an exit 1 that judges nobody. The gate would reject, and the board
  would show a healthy entry as failing.
* The per-program timeout also covers docker's own work. A pull or daemon that
  stalls until the cap is reported as an endless program, at the gate and on
  the board; `CheckExits` names this (`stall`), `HonestHarness` and
  `HonestHosts` exclude it.
* On a timeout the container goes on beside the later cases, with the entry's
  limits of CPU and memory: `LeftoverWasNoCode` says it had no exit code to
  report, nothing says that a later case is not slower for it.
* With `--no-sandbox` a helper that holds the output for ever holds `arena
  check` for ever: `CallsReturn` excepts it.
* Lines joined where the language keeps them apart join words: of Python's
  `return`, a backslash, a newline and `eval(s)` the scan sees `returneval(s)`,
  in which `(^|[^.\w])eval\b` does not match (`score.go:180-182`). "A hit is
  never lost" is not true of it.
* A file scanned raw keeps its comments: `process/**/::` in a Rust file with a
  guard, or of another extension, is not matched by `\bprocess\s*::`, which
  knows white space only, although blanking the comment would have made it
  match. `Interrupted` names it.
* The guard `'"` of Rust (`languages.json:99`) stops the strip for a character
  that is a quote, but not for the escaped one: `'\"'` opens a string for the
  scanner. With `let q='\"'; let u="/*"; unsafe{f()}; let v="*/"; // "` the
  scanner is inside out from there on and blanks `unsafe` as a comment.
  `Lexable` names it: a mark in a literal the configuration does not know.
* `(^|[^.\w])eval` takes the byte before the name into its match. If that is a
  newline, the line reported is that of the newline, one too small
  (`score.go:220`). `Stands` names it.
* An entry under a name with other characters than `a-z`, `0-9` and `-`
  (`entries/Foo_Bar`), one of more than fifty, or one with a score above
  10^9 is rejected by the gate, but the bot does not act on a result it cannot
  cite (`entry-close.yml:163-184`): the pull request stays open, as it does if the
  author deletes the branch or fork, or the artifact is lost. README.md:67-68 says
  an entry that beats nothing "is closed automatically". `RejectedIsClosed` is
  what is left of it.
* A push between the bot's `pulls.get` and its `pulls.update` is closed
  unjudged: the close is by number. `StaleRejectIsSafe` therefore speaks of
  closings whose head is the judged one.
* The winner of an open niche may score worse than the champion it replaces,
  so "a champion's score only ever improves" is not true by itself; it is true
  between sharpenings, which is what `StaleRejectIsSafe` needs.
* A sharpened suite falsifies an old rejection: a challenger judged against a
  champion that still passed is closed although a case merged since makes that
  champion fail and the niche open to the challenger. `entry-check.yml:57-61`
  does not consider it; `StaleRejectIsSafe` excepts it.
* Two runs on the same commit (a reopened pull request) have bots in different
  concurrency groups; both may search for the marker before either comments.
  `bot` has no reopening.
* Nothing in the repository forces a merge to be on a verdict for the current
  main: two green challengers can be merged one after the other, if git sees no
  conflict, and the worse one stays. In the model such merges happen; the rule
  then holds of the main the challenger was measured on, and a rejection made on
  a champion that the late merge replaced by a worse one need not be true any
  more (`late` in `StaleRejectIsSafe`). The argument of `entry-check.yml:57-61`,
  that a champion's score only ever improves, has this premise.
* Re-running an old board build by hand publishes its old commit; `Board` leaves
  this out.
* An entry whose manifest cannot be read has no task on the board, so its task
  is shown as open beside its failing row. `Board`'s wrong entries have a
  manifest.
* The cron search ends after 4 * 366 days. A 29th of February on the far side of
  a year like 2100 is further away: "unsatisfiable" although it is not.
  `CronIsNext` speaks of a calendar without such exceptions.

## 8. Not modelled

* `jwt-hs256-verify`: a chain of library calls (base64, JSON, HMAC), each
  followed by an early return. A model would only repeat the guards.
* The Python entries (csv, glob, dotenv, toml subset): character scanners of
  small formats on which nothing else depends.
* In the modelled entries: argument counts, diagnostics, the splitting at
  blanks.
* In the measurement: carriage returns, the notes that explain a doubt, guards
  and directives beyond sets of markers. Hazard patterns of other forms than those
  of section 3: classes of characters (non-ASCII runs, Go's `import "C"` with
  what may stand around it) and names that overlap themselves (`##`,
  `__import__`), of which the scan counts the matches that do not overlap.
* Of the languages: what a preprocessor skips, C's digit separators (a quote
  inside a number). A quote that opens no character (Rust's lifetimes) is a byte
  of code.
* A head branch that is renamed while the bot looks at it is a branch that is
  gone.
* JSON decoding and the validation details of manifests and languages.
* The issue intake check comments on issue forms; it shares no state with the
  rest.
* `ci.yml`, `smoke-test.sh` and the identity script drive tests or set up a
  clone once; they have no state of their own.
* Tasks, cases and the hazard lists are data.
* Branch pushes and manual dispatches run the gate without emitting a result;
  the bot ignores them, and their verdict concerns nobody else.
* Formatting: summaries, comments' wording, the HTML of the board.

## 9. Running it

    tlc -config EntryCheck.cfg MCEntryCheck.tla
    tlc -config Execute.cfg MCExecute.tla
    tlc -config ArenaCheck.cfg MCArenaCheck.tla
    tlc -config ScoreDir.cfg MCScoreDir.tla
    tlc -config PullRequests.cfg MCPullRequests.tla
    tlc -config PullRequestsBot.cfg MCPullRequests.tla
    tlc -config Board.cfg Board.tla
    tlc -config EntryPrograms.cfg MCEntryPrograms.tla
    for m in Induction.tla *Proofs.tla; do tlapm $m; done

The definitions marked "Mutation:" are plausible mistakes in the code.
`PROJECT.json` (`mutants`) names the definition each of them replaces and the
property that is violated when it does.
