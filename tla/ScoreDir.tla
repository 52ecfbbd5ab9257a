------------------------------- MODULE ScoreDir -------------------------------
(***************************************************************************)
(* ScoreDir (tool/internal/arena/score.go): the walk over the files of an  *)
(* entry that measures its trust score.  Every file is visited once; the   *)
(* bytes of vendored files are summed; hazards are counted in every file,  *)
(* in the source files after their comments are blanked (CommentStrip), or *)
(* as committed where the strip is not possible or not safe; at last in    *)
(* the two commands of the manifest.                                       *)
(***************************************************************************)
EXTENDS CommentStrip, SequencesExt

CONSTANTS
    FileLists(_),   \* what an entry in a language may ship, in the walk's order
    Commands(_),    \* what its manifest may run
    Folded(_)       \* a path segment in lower case

\* An entry is files of bytes and commands of bytes.
Kinds == {"text", "binary", "symlink"}

ASSUME EntriesAssumption ==
    \A l \in DOMAIN Languages :
        /\ \A fs \in FileLists(l) : fs \in Seq([path : Seq(STRING), ext : STRING,
                                               kind : Kinds, text : Seq(STRING)])
        /\ \A cs \in Commands(l) : cs \in Seq(Seq(STRING))

VARIABLES
    files,      \* the files of the entry: [path, ext, kind, text]
    commands,   \* the manifest's build and run commands
    next,       \* the file to visit next
    score,      \* [vendored, files, hits, notes]: the notes name the files scanned raw
    pc          \* "walk" | "count" | "scored" | "failed"

entryVars == <<language, files, commands>>
vars == <<entryVars, stripVars, next, score, pc>>

NoScore == [vendored |-> 0, files |-> 0, hits |-> {}, notes |-> {}]

-----------------------------------------------------------------------------
(* The pieces of a file's visit *)

\* Joins the lines a backslash continues.
CollapseSplices(t) ==
    LET spliced == {i \in 1..Len(t) - 1 : t[i] = "b" /\ t[i + 1] = "n"}
    IN  FlattenSeq([i \in DOMAIN t |->
            IF i \in spliced \/ i - 1 \in spliced THEN <<>> ELSE <<t[i]>>])

\* A path is the sequence of its segments; these name third-party freight.
VendorDirs ==
    {"vendor", "vendored", "third_party", "thirdparty", "third-party", "deps",
     "extern", "external"}

IsVendored(path) == \E i \in DOMAIN path : Folded(path[i]) \in VendorDirs

\* Only the manifest of the entry itself is not shipped.
IsManifest(f) == f.path = <<"entry.json">>

\* What the walk does with a file before its bytes are looked at.
Admission(f) ==
    IF f.kind = "symlink" THEN "refused"
    ELSE IF IsManifest(f) THEN "skipped"
    ELSE IF f.kind = "binary" THEN "refused"
    ELSE "visited"

Bytes(f) == IF lang.collapses THEN CollapseSplices(f.text) ELSE f.text

\* Mutation: the bytes are measured in the form that is scanned.
VendoredAsScanned(f) == IF IsVendored(f.path) THEN Len(Bytes(f)) ELSE 0

\* What the file adds to the vendored bytes: its size as committed.
Vendored(f) == IF IsVendored(f.path) THEN Len(f.text) ELSE 0

SourceFile(f) == f.ext \in lang.extensions

Strippable(f) ==
    /\ SourceFile(f)
    /\ lang.strips
    /\ \A g \in lang.guardFile : ~Within(Bytes(f), 1, Len(Bytes(f)), g)

\* Behind the name at i, where what must follow it stands: behind white space.
Followers(t, i, h) ==
    LET end == i + Len(h.name)
    IN  {j \in end..Len(t) + 1 : At(t, j, h.then) /\ \A k \in end..j - 1 : t[k] \in {" ", "n"}}

\* The pattern of hazard h matches with its name at position i.
MatchesAt(t, i, h) ==
    LET end == i + Len(h.name)
    IN  /\ At(t, i, h.name)
        /\ i > 1 => t[i - 1] \notin h.notAfter
        /\ end <= Len(t) => t[end] \notin h.notBefore
        /\ Followers(t, i, h) # {}

\* The line of a match is that of its first byte.
LineOf(t, i, h) ==
    1 + Newlines(t, 1, (IF h.takes /\ i > 1 THEN i - 1 ELSE i) - 1)

\* The hits of a scan of t; the commands are named by the numbers after the last
\* file's.
Hits(name, t) ==
    {[file |-> name, hazard |-> r[2], line |-> LineOf(t, r[1], r[2]), at |-> r[1]] :
        r \in {m \in (DOMAIN t) \X lang.hazards : MatchesAt(t, m[1], m[2])}}

-----------------------------------------------------------------------------
Init ==
    /\ language \in DOMAIN Languages
    /\ files \in FileLists(language) /\ commands \in Commands(language)
    /\ StripInit
    /\ next = 1 /\ score = NoScore /\ pc = "walk"

\* walkEntryFiles and the callback of ScoreDir, up to the scan.
Visit ==
    /\ pc = "walk" /\ next <= Len(files)
    /\ LET f == files[next]
       IN  IF Admission(f) = "skipped"
           THEN next' = next + 1 /\ UNCHANGED <<stripVars, score, pc>>
           ELSE IF Admission(f) = "refused"
           THEN /\ score' = NoScore /\ pc' = "failed"
                /\ UNCHANGED <<stripVars, next>>
           ELSE /\ score' = [score EXCEPT !.vendored = @ + Vendored(f), !.files = @ + 1]
                /\ pc' = "count" /\ UNCHANGED next
                /\ IF Strippable(f) THEN Begin(Bytes(f))
                   ELSE /\ text' = Bytes(f) /\ out' = Bytes(f) /\ pos' = 1 /\ line' = 0
                        /\ scan' = "doubt"
    /\ UNCHANGED entryVars

Strip == pc = "count" /\ StripStep /\ UNCHANGED <<entryVars, next, score, pc>>

\* What scan is given: the stripped text, or the committed one in doubt.
Scanned == IF scan = "stripped" THEN out ELSE text

Count ==
    /\ pc = "count" /\ scan \in {"stripped", "doubt"}
    /\ score' = [score EXCEPT !.hits = @ \cup Hits(next, Scanned),
                              !.notes = IF scan = "doubt" THEN @ \cup {next} ELSE @]
    /\ next' = next + 1 /\ pc' = "walk"
    /\ UNCHANGED entryVars /\ UNCHANGED stripVars

\* The manifest's build and run commands are scanned too.
Finish ==
    /\ pc = "walk" /\ next > Len(files)
    /\ IF score.files = 0
       THEN score' = NoScore /\ pc' = "failed"
       ELSE /\ score' = [score EXCEPT !.hits =
                    @ \cup UNION {Hits(Len(files) + c, commands[c]) : c \in DOMAIN commands}]
            /\ pc' = "scored"
    /\ UNCHANGED <<entryVars, next>> /\ UNCHANGED stripVars

\* ScoreDir has returned; in every other state one of its steps is enabled.
Returned == pc \in {"scored", "failed"} /\ UNCHANGED vars

Next == Visit \/ Strip \/ Count \/ Finish \/ Returned

Spec == Init /\ [][Next]_vars

-----------------------------------------------------------------------------
(* Properties *)

\* Every variable stays in its range; the position never leaves the file by
\* more than one byte and the copy has the size of the original.
TypeOK ==
    /\ text \in Seq(STRING) /\ out \in Seq(STRING \cup {" "}) /\ Len(out) = Len(text)
    /\ pos \in 1..Len(text) + 1 /\ line \in Nat
    /\ scan \in {"idle", "scanning", "stripped", "doubt"}
    /\ next \in 1..Len(files) + 1
    /\ score.files \in 0..Len(files) /\ score.vendored \in Nat
    /\ score.notes \subseteq 1..Len(files)
    /\ \A h \in score.hits :
           /\ h.file \in 1..Len(files) + Len(commands) /\ h.hazard \in lang.hazards
           /\ h.line \in Nat \ {0} /\ h.at \in Nat \ {0}
    /\ pc \in {"walk", "count", "scored", "failed"}

\* The scanner's line number is the number of newlines it has passed, however
\* it passed them (comments, literals, escapes): the guards of the lines are
\* looked up by it, and past the last line the lookup would crash.
LineIsTracked == pc = "count" => line = Newlines(text, 1, pos - 1) \/ scan = "doubt"

AtCount == pc = "count" /\ scan = "stripped"
Blanked == {i \in DOMAIN out : out[i] # text[i]}

\* In a program that the scanner can follow (Lexable names what it cannot), the
\* strip blanks nothing but comments, none of them one that carries semantics
\* ("fail-suspicious"), and, wherever no line is guarded and the strip is not
\* given up, every comment it may ("documentation must never cost a hazard").
StripIsExact ==
    AtCount =>
        LET tokens == Tokens(text)
            comments == {i \in CommentBytes(text, tokens) : text[i] \notin {"n", " "}}
        IN  IsProgram(tokens) /\ Lexable(text) =>
                Blanked \subseteq comments /\ (~Guarded(text) => comments \subseteq Blanked)

Shipped == {k \in DOMAIN files : ~IsManifest(files[k])}

\* A file as the language's own reader sees it, and that text without comments.
Reader(f) == IF lang.joins THEN CollapseSplices(f.text) ELSE f.text
Code(t) ==
    LET comments == CommentBytes(t, Tokens(t))
    IN  [i \in DOMAIN t |-> IF i \in comments /\ t[i] # "n" THEN " " ELSE t[i]]

\* The hazards that the language would run, in the text without its comments:
\* the positions of their names.
Runs(f) ==
    LET t == Reader(f)
        code == Code(t)
    IN  IF IsProgram(Tokens(t))
        THEN {r \in (DOMAIN t) \X lang.hazards : MatchesAt(code, r[1], r[2])}
        ELSE {}

HitsIn(k) == {h \in score.hits : h.file = k}

\* "A mistake can only ever overcount hazards, never hide one": a scored entry
\* has at least as many hits in each file as the language runs hazards there.
HazardsSurvive ==
    pc = "scored" => \A k \in Shipped : Cardinality(HitsIn(k)) >= Cardinality(Runs(files[k]))

\* A comment stands inside the match at i in the text t of file k, and the scan
\* sees it: the file is scanned raw, or its guarded lines are.
Interrupted(k, t, i, h) ==
    /\ k \in score.notes \/ Guarded(t)
    /\ \E j \in Followers(Code(t), i, h) :
           \E c \in i + Len(h.name)..j - 1 : c \in CommentBytes(t, Tokens(t))

\* No hazard that the language runs is hidden.  The exceptions: a file whose
\* lines are joined where its reader keeps them apart, a stripped file that the
\* scanner cannot follow (Lexable), and, where comments are not stripped, one
\* that stands inside a match.  Of the commands, every match is a hit.
FollowedHazardsSurvive ==
    pc = "scored" =>
        /\ \A k \in Shipped :
              LET t == Reader(files[k])
              IN  Bytes(files[k]) = t /\ (k \in score.notes \/ Lexable(t)) =>
                      \A r \in Runs(files[k]) :
                          \/ \E h \in HitsIn(k) : h.at = r[1] /\ h.hazard = r[2]
                          \/ Interrupted(k, t, r[1], r[2])
        /\ \A c \in DOMAIN commands : \A i \in DOMAIN commands[c], hazard \in lang.hazards :
              MatchesAt(commands[c], i, hazard) =>
                  \E h \in HitsIn(Len(files) + c) : h.at = i /\ h.hazard = hazard

\* The name of the pattern of hit h stands in t on the line of the hit.  The
\* exception: a pattern that takes the byte before the name is reported one line
\* early where that byte is a newline.
Stands(h, t) ==
    LET lineOfName == 1 + Newlines(t, 1, h.at - 1)
    IN  /\ At(t, h.at, h.hazard.name)
        /\ h.line = lineOfName \/ (h.hazard.takes /\ t[h.at - 1] = "n" /\ h.line = lineOfName - 1)

\* In a file whose lines are not joined, every hit names a line on which its
\* hazard stands as committed, or the one before it where Stands says so.
HitsAreReal ==
    \A h \in score.hits :
        h.file \in DOMAIN files /\ Bytes(files[h.file]) = files[h.file].text =>
            Stands(h, files[h.file].text)

\* The size as committed of the vendored ones among the first files.
VendoredUpTo ==
    LET UpTo[k \in 0..Len(files)] ==
            IF k = 0 THEN 0
            ELSE UpTo[k - 1] + IF k \in Shipped /\ IsVendored(files[k].path)
                               THEN Len(files[k].text) ELSE 0
    IN  UpTo

\* A scored entry is scored whole: all its files are text, all but its manifest
\* are counted, and the vendored bytes are those of the files as committed,
\* stripped, spliced or not.  An entry that is refused has no part of a score.
ScoreIsWhole ==
    /\ pc = "scored" =>
        /\ \A k \in Shipped : files[k].kind = "text"
        /\ score.files = Cardinality(Shipped)
        /\ score.vendored = VendoredUpTo[Len(files)]
    /\ pc = "failed" => score = NoScore
=============================================================================
