---------------------------- MODULE EntryPrograms ----------------------------
(***************************************************************************)
(* One run of one of the Go entries: it is started on its arguments,       *)
(* parses them and prints an answer, or exits 1 with nothing on stdout.    *)
(* cron-next-run takes a step per minute it looks at, the others answer at *)
(* once.                                                                   *)
(***************************************************************************)
EXTENDS CronNextRun, SemverRange, UrlParse, Base58Check

CONSTANTS
    CronRuns,       \* pairs of an expression and an instant, in seconds
    SemverRuns,     \* pairs of a range and a version
    Urls,           \* texts
    Codes,          \* sequences of alphabet indices
    Payloads        \* sequences of bytes

ASSUME RunsAssumption ==
    /\ CronRuns \subseteq Seq(Seq([kind : STRING, from : Int, to : Int, step : Int]))
                          \X (Nat \cup {NoInstant})
    /\ SemverRuns \subseteq Seq(Seq([marks : Seq(STRING), version : Seq(Int)])) \X Seq(Int)
    /\ Urls \subseteq Texts
    /\ Codes \subseteq Seq(-1..Base - 1)
    /\ Payloads \subseteq Seq(0..ByteBase - 1)
    /\ \A p \in Payloads : Checksum(p) \in [1..ChecksumLen -> 0..ByteBase - 1]

VARIABLES
    program, args,
    pc,             \* "start", "search" (cron only) or "done"
    now, looked,   \* cron's now, and how many were looked at before it
    out             \* the answer

vars == <<program, args, pc, now, looked, out>>

\* Nothing on stdout.
Error == [ok |-> FALSE, value |-> <<>>]
Answer(value) == [ok |-> TRUE, value |-> value]

Init ==
    /\ \/ program = "cron" /\ args \in CronRuns
       \/ program = "semver" /\ args \in SemverRuns
       \/ program = "url" /\ args \in Urls
       \/ program = "base58" /\ args \in Codes
    /\ pc = "start" /\ now = 0 /\ looked = 0 /\ out = Error

Finish(result) == pc' = "done" /\ out' = result /\ UNCHANGED <<program, args, now, looked>>

\* The search starts at the first now after the instant.
CronParse ==
    /\ program = "cron" /\ pc = "start"
    /\ IF ~ExprOK(args[1]) \/ args[2] = NoInstant THEN Finish(Error)
       ELSE /\ pc' = "search" /\ now' = FirstMinute(args[2])
            /\ UNCHANGED <<program, args, looked, out>>

CronSearch ==
    /\ program = "cron" /\ pc = "search"
    /\ IF looked = SearchMinutes THEN Finish(Error)
       ELSE IF ScheduleMatches(ParseExpr(args[1]), now) THEN Finish(Answer(now))
       ELSE now' = now + 1 /\ looked' = looked + 1 /\ UNCHANGED <<program, args, pc, out>>

SemverAnswer ==
    /\ program = "semver" /\ pc = "start"
    /\ LET answer == InRange(args[1], args[2])
       IN  Finish(IF answer = "error" THEN Error ELSE Answer(answer))

UrlAnswer ==
    /\ program = "url" /\ pc = "start"
    /\ LET parsed == ParseURL(args) IN Finish(IF parsed.ok THEN Answer(parsed.url) ELSE Error)

Base58Answer ==
    /\ program = "base58" /\ pc = "start"
    /\ LET decoded == Decode(args)
       IN  Finish(IF decoded.ok THEN Answer(decoded.payload) ELSE Error)

Next == CronParse \/ CronSearch \/ SemverAnswer \/ UrlAnswer \/ Base58Answer

Spec == Init /\ [][Next]_vars

-----------------------------------------------------------------------------
Answered(p) == program = p /\ pc = "done"

\* cron-next-run answers with the first fire time strictly after the instant,
\* and with an error only if the expression is none or there is no fire time
\* after the instant at all, however far one looks (main.go:33-35: a schedule
\* that misses the search is unsatisfiable), in a calendar without exceptions
\* to the leap years.
CronIsNext ==
    Answered("cron") =>
        LET expr == args[1]
            FiresAfter(last) ==
                \E m \in FirstMinute(args[2])..last : Fires(expr, m)
        IN  IF out.ok
            THEN /\ ExprOK(expr) /\ args[2] # NoInstant /\ Fires(expr, out.value)
                 /\ out.value * SecondsPerMinute > args[2]
                 /\ ~FiresAfter(out.value - 1)
            ELSE ExprOK(expr) /\ args[2] # NoInstant
                 => ~FiresAfter(FirstMinute(args[2]) + Forever)

\* The answer to a range is what its operators mean for the version, no bound
\* wraps around at the largest component, and whatever is no range or no
\* version is an error.
SemverMeansIntervals ==
    Answered("semver") =>
        LET range == args[1]
            v == args[2]
            wellFormed ==
                /\ IsVersion(v)
                /\ \A k \in DOMAIN range :
                      /\ range[k] # <<>>
                      /\ \A j \in DOMAIN range[k] :
                            range[k][j].marks \in Operators /\ IsVersion(range[k][j].version)
        IN  /\ out.ok <=> wellFormed
            /\ out.ok => (out.value = "yes" <=>
                    \E k \in DOMAIN range : \A j \in DOMAIN range[k] :
                        Means(range[k][j].marks, range[k][j].version, v))

\* A text is parsed exactly if the grammar derives it, and the components put
\* together again are the text, up to the case of the scheme: nothing is lost,
\* moved into another component or taken for a delimiter.
UrlRoundTrips ==
    Answered("url") =>
        /\ out.ok <=> IsURL(args)
        /\ out.ok => LET n == Len(out.value.scheme)
                     IN  Recompose(out.value) = ToLower(SubSeq(args, 1, n))
                                                \o SubSeq(args, n + 1, Len(args))

\* A string is decoded exactly if it is how some payload is written, to that
\* payload: the zero bytes in front survive both ways.
Base58Inverts ==
    Answered("base58") =>
        /\ out.ok => Encode(out.value) = args
        /\ \A p \in Payloads : Encode(p) = args => out = Answer(p)
=============================================================================
