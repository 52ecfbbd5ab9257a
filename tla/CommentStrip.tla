----------------------------- MODULE CommentStrip -----------------------------
(***************************************************************************)
(* stripComments (tool/internal/arena/score.go): the scanner that blanks   *)
(* the comments of one source file before its hazards are counted, or      *)
(* gives up with a reason so that the file is counted as committed.  One   *)
(* action per branch of its loop.                                          *)
(*                                                                         *)
(* A byte is a string, a text and a marker are sequences of bytes.  "n" is *)
(* the newline, "b" the backslash and " " what a comment is blanked with.  *)
(* The patterns of a language that guard files and lines or keep comments  *)
(* are sets of markers.  Carriage returns are left out.                    *)
(***************************************************************************)
EXTENDS Integers, Sequences, FiniteSets

CONSTANTS
    Languages   \* the lexical shape of each language, as compile leaves it

VARIABLES
    language,   \* the entry's language
    text,   \* the bytes of the file, splices joined
    pos,    \* the next byte to look at, from 1
    line,   \* the number of the line the scanner believes it is on, from 0
    out,    \* the copy in which comments are blanked
    scan    \* "idle" | "scanning" | "stripped" | "doubt"

lang == Languages[language]

\* What languages.json holds: markers are not empty and stay on their line, an
\* escape is one byte and no part of a closing mark, the strings are sorted as
\* compile leaves them, only a language without block comments guards lines, and
\* a kept comment is told by its line-comment marker.  Of the language itself,
\* the literals the configuration does not name: those of rawStrings and the
\* characters between charQuotes, which only a language without guarded lines
\* has.
Marker(m) == m \in Seq(STRING) /\ m # <<>> /\ \A i \in DOMAIN m : m[i] # "n"

StringSyntax == [open : Seq(STRING), close : Seq(STRING), escape : Seq(STRING), multiline : BOOLEAN]

\* A hazard pattern: a name, what must stand neither right before nor right
\* behind it (\b, [^.\w]) and what must follow it after any white space (\s*).
\* Whether the pattern takes the byte before the name into its match.
HazardSyntax ==
    [name : Seq(STRING), notAfter : SUBSET STRING, notBefore : SUBSET STRING,
     then : Seq(STRING), takes : BOOLEAN]

\* A comment's marks part words, and no match of a pattern overlaps another one.
HazardShape(l, h) ==
    /\ h \in HazardSyntax /\ Marker(h.name) /\ (h.then = <<>> \/ Marker(h.then))
    /\ \A i \in DOMAIN h.name : h.name[i] # " "
    /\ \A i \in DOMAIN h.then : h.then[i] \notin {" ", h.name[1]}
    /\ \A d \in 1..Len(h.name) - 1 : \E i \in 1..Len(h.name) - d : h.name[i] # h.name[i + d]
    /\ h.takes => h.name[Len(h.name)] \in h.notAfter
    /\ \A i \in DOMAIN l.lineComments : l.lineComments[i][1] \notin h.notBefore
    /\ \A i \in DOMAIN l.blockComments :
           LET open == l.blockComments[i][1]
               cl == l.blockComments[i][2]
           IN  open[1] \notin h.notBefore /\ cl[Len(cl)] \notin h.notAfter

LanguageShape(l) ==
    /\ {l.strips, l.nests, l.collapses, l.joins} \subseteq BOOLEAN
    /\ l.lineComments \in Seq(Seq(STRING)) /\ l.blockComments \in Seq(Seq(STRING) \X Seq(STRING))
    /\ \A i \in DOMAIN l.lineComments : Marker(l.lineComments[i])
    /\ \A i \in DOMAIN l.blockComments :
           Marker(l.blockComments[i][1]) /\ Marker(l.blockComments[i][2])
    /\ l.strings \in Seq(StringSyntax)
    /\ \A i \in DOMAIN l.strings :
           /\ Marker(l.strings[i].open) /\ Marker(l.strings[i].close)
           /\ l.strings[i].escape \in {<<>>, <<"b">>}
           /\ \A k \in DOMAIN l.strings[i].close : l.strings[i].close[k] # "b"
    /\ \A i, j \in DOMAIN l.strings :
           i < j => Len(l.strings[i].open) >= Len(l.strings[j].open)
    /\ \A g \in l.guardLine : Marker(g) /\ l.blockComments = <<>>
    /\ \A m \in l.keep : Marker(m) /\ \E i \in DOMAIN l.lineComments :
           Len(l.lineComments[i]) <= Len(m)
           /\ \A j \in DOMAIN l.lineComments[i] : m[j] = l.lineComments[i][j]
    /\ l.rawStrings \in Seq(StringSyntax)
    /\ \A i \in DOMAIN l.rawStrings :
           /\ Marker(l.rawStrings[i].open) /\ Marker(l.rawStrings[i].close)
           /\ l.rawStrings[i].escape = <<>>
    /\ l.rawStrings # <<>> \/ l.charQuotes # {} => l.guardLine = {}
    /\ \A h \in l.hazards : HazardShape(l, h)

ASSUME LanguagesAssumption == \A l \in DOMAIN Languages : LanguageShape(Languages[l])

stripVars == <<text, pos, line, out, scan>>

\* Marker m stands at position p of t.
At(t, p, m) ==
    /\ p + Len(m) <= Len(t) + 1
    /\ \A i \in 1..Len(m) : t[p + i - 1] = m[i]

\* Marker m stands in t[from..to].
Within(t, from, to, m) ==
    \E p \in from..to : At(t, p, m) /\ p + Len(m) <= to + 1

Newlines(t, from, to) == Cardinality({i \in from..to : t[i] = "n"})

\* The first position from p on at which m stands, or 0.
Find(t, p, m) ==
    LET found == {i \in p..Len(t) : At(t, i, m)}
    IN  IF found = {} THEN 0 ELSE CHOOSE i \in found : \A j \in found : i <= j

LineEnd(t, p) == IF Find(t, p, <<"n">>) = 0 THEN Len(t) + 1 ELSE Find(t, p, <<"n">>)

\* Mutation: the comment is cut out instead of blanked.
BlankByCutting(t, from, to) == SubSeq(t, 1, from - 1) \o SubSeq(t, to + 1, Len(t))

\* Mutation: the newlines of a comment are blanked, too.
BlankNewlines(t, from, to) == [i \in DOMAIN t |-> IF i \in from..to THEN " " ELSE t[i]]

\* Every byte of from..to but the newlines becomes a space.
Blank(t, from, to) ==
    [i \in DOMAIN t |-> IF i \in from..to /\ t[i] # "n" THEN " " ELSE t[i]]

\* The first marker of a list that stands at p: 0 if none does.
FirstAt(p, markers) ==
    LET hit == {k \in DOMAIN markers : At(text, p, markers[k])}
    IN  IF hit = {} THEN 0 ELSE CHOOSE k \in hit : \A j \in hit : k <= j

\* A guard pattern matches line k.
OnLine(t, k, m) == \E p \in DOMAIN t : At(t, p, m) /\ Newlines(t, 1, p - 1) = k
Triggered(t, k) == \E g \in lang.guardLine : OnLine(t, k, g)
Guarded(t) == \E k \in 0..Newlines(t, 1, Len(t)) : Triggered(t, k)

\* A string of any length may be opened on a guarded line.
OpensOnGuarded(t) ==
    \E k \in 0..Newlines(t, 1, Len(t)), s \in DOMAIN lang.strings :
        /\ Triggered(t, k)
        /\ lang.strings[s].multiline
        /\ OnLine(t, k, lang.strings[s].open)

\* Mutation: a directive may stand anywhere in the comment.
KeepsAnywhere(from, to) == \E m \in lang.keep : Within(text, from, to, m)

\* A comment that carries semantics.
Keeps(from, to) == \E m \in lang.keep : At(text, from, m) /\ from + Len(m) <= to + 1

\* The string syntax that opens at p, the longest opener first (compile
\* sorts them): 0 if none does.
StringAt(p) ==
    LET hit == {k \in DOMAIN lang.strings : At(text, p, lang.strings[k].open)}
        Longer(j, k) == Len(lang.strings[j].open) > Len(lang.strings[k].open)
    IN  IF hit = {} THEN 0
        ELSE CHOOSE k \in hit : \A j \in hit : Longer(k, j) \/ (k <= j /\ ~Longer(j, k))

\* Mutation: an escape skips its byte without looking at it.
EscapedLineUncounted(i) == 0

\* What an escaped byte adds to the line number.
EscapedLine(i) == IF text[i] = "n" THEN 1 ELSE 0

\* Mutation: a backslash is a byte like any other.
IsEscapeNever(i, s) == FALSE

\* The byte after i belongs to an escape of the string s.
IsEscape(i, s) == s.escape # <<>> /\ At(text, i, s.escape) /\ i + Len(s.escape) <= Len(text)

\* From each position in the body of the string s: where its literal ends and
\* the newlines up to there; end 0 is a literal that is never closed.
StringRest(s) ==
    LET n == Len(text)
        Passing(rest, newlines) == [rest EXCEPT !.newlines = @ + newlines]
        Rest[i \in 1..n + 1] ==
            IF i > n THEN [end |-> IF s.multiline THEN 0 ELSE i, newlines |-> 0]
            ELSE IF At(text, i, s.close)
            THEN [end |-> i + Len(s.close), newlines |-> 0]
            ELSE IF IsEscape(i, s)
            THEN Passing(Rest[i + Len(s.escape) + 1], EscapedLine(i + Len(s.escape)))
            ELSE IF text[i] = "n" /\ ~s.multiline THEN [end |-> i, newlines |-> 0]
            ELSE Passing(Rest[i + 1], IF text[i] = "n" THEN 1 ELSE 0)
    IN  Rest

StringEnd(p, s) == StringRest(s)[p + Len(s.open)]

-----------------------------------------------------------------------------
StripInit == text = <<>> /\ pos = 1 /\ line = 0 /\ out = <<>> /\ scan = "idle"

Doubt == scan' = "doubt" /\ UNCHANGED <<text, pos, line, out>>

\* Mutation: the lines are guarded, but nothing asks what opens on them.
BeginAnyway(b) ==
    text' = b /\ out' = b /\ pos' = 1 /\ line' = 0 /\ scan' = "scanning"

\* The scanner is called with the bytes b.
Begin(b) ==
    /\ text' = b /\ out' = b /\ pos' = 1 /\ line' = 0
    /\ scan' = IF OpensOnGuarded(b) THEN "doubt" ELSE "scanning"

\* What the loop is about to look at.
Looking == scan = "scanning" /\ pos <= Len(text)
OpenLine == Looking /\ text[pos] # "n" /\ ~Triggered(text, line)
AtLineComment == FirstAt(pos, lang.lineComments) # 0
AtBlock == FirstAt(pos, [k \in DOMAIN lang.blockComments |-> lang.blockComments[k][1]])
AtString == StringAt(pos)

Newline ==
    /\ Looking /\ text[pos] = "n"
    /\ line' = line + 1 /\ pos' = pos + 1
    /\ UNCHANGED <<text, out, scan>>

GuardedByte ==
    /\ Looking /\ text[pos] # "n" /\ Triggered(text, line)
    /\ pos' = pos + 1
    /\ UNCHANGED <<text, line, out, scan>>

LineComment ==
    /\ OpenLine /\ AtLineComment
    /\ LET end == LineEnd(text, pos)
       IN  IF text[end - 1] = "b" THEN Doubt
           ELSE /\ out' = IF Keeps(pos, end - 1) THEN out ELSE Blank(out, pos, end - 1)
                /\ pos' = end
                /\ UNCHANGED <<text, line, scan>>

BlockComment ==
    /\ OpenLine /\ ~AtLineComment /\ AtBlock # 0
    /\ LET open == lang.blockComments[AtBlock][1]
           cl == lang.blockComments[AtBlock][2]
           found == Find(text, pos + Len(open), cl)
           last == found + Len(cl) - 1
       IN  IF \/ found = 0
              \/ Within(text, pos, last, <<"b", "n">>)
              \/ Within(text, pos + Len(open), found - 1, open)
           THEN Doubt
           ELSE /\ out' = IF Keeps(pos, last) THEN out ELSE Blank(out, pos, last)
                /\ pos' = last + 1
                /\ line' = line + Newlines(text, pos, last)
                /\ UNCHANGED <<text, scan>>

String ==
    /\ OpenLine /\ ~AtLineComment /\ AtBlock = 0 /\ AtString # 0
    /\ LET r == StringEnd(pos, lang.strings[AtString])
       IN  IF r.end = 0 THEN Doubt
           ELSE /\ pos' = r.end
                /\ line' = line + r.newlines
                /\ UNCHANGED <<text, out, scan>>

CodeByte ==
    /\ OpenLine /\ ~AtLineComment /\ AtBlock = 0 /\ AtString = 0
    /\ pos' = pos + 1
    /\ UNCHANGED <<text, line, out, scan>>

Stripped ==
    /\ scan = "scanning" /\ pos > Len(text)
    /\ scan' = "stripped"
    /\ UNCHANGED <<text, pos, line, out>>

StripStep ==
    Newline \/ GuardedByte \/ LineComment \/ BlockComment \/ String \/ CodeByte \/ Stripped

-----------------------------------------------------------------------------
(***************************************************************************)
(* How the language itself reads a text, stated over whole tokens: from    *)
(* each position a token of some kind reaches up to an end, 0 if the text  *)
(* is not a program.  It has the comments and strings of its configuration *)
(* and literals of which the configuration says nothing ("foreign").       *)
(***************************************************************************)
Least(S) == IF S = {} THEN 0 ELSE CHOOSE i \in S : \A j \in S : i <= j

\* The escapes right before k, inside a literal whose body starts at b.
Escapes(t, b, k, e) ==
    IF e = <<>> THEN 0
    ELSE Cardinality({i \in b..k - 1 : \A j \in i..k - 1 : t[j] = e[1]})

\* A literal ends at the first closing mark behind an even number of escapes.
LiteralEnd(t, p, s) ==
    LET b == p + Len(s.open)
        k == Least({i \in b..Len(t) : At(t, i, s.close) /\ Escapes(t, b, i, s.escape) % 2 = 0})
        raw == {i \in b..k - 1 : t[i] = "n" /\ Escapes(t, b, i, s.escape) % 2 = 0}
    IN  IF k = 0 \/ (~s.multiline /\ raw # {}) THEN 0 ELSE k + Len(s.close) - 1

\* A block comment ends where every opener in it has its closer, if they
\* nest, and at the first closer if they do not.
BlockEnd(t, p, open, cl) ==
    LET Rest[i \in 1..Len(t) + 1] ==
          [depth \in Int |->
            IF i > Len(t) THEN 0
            ELSE IF At(t, i, open) /\ (lang.nests \/ depth = 0)
            THEN Rest[i + Len(open)][depth + 1]
            ELSE IF At(t, i, cl)
            THEN IF depth = 1 THEN i + Len(cl) - 1 ELSE Rest[i + Len(cl)][depth - 1]
            ELSE Rest[i + 1][depth]]
    IN  Rest[p][0]

\* A character between quotes, of one byte or of an escape and what follows it up
\* to the next quote: where it ends, or p if the quote at p opens none (it is
\* part of a lifetime).
CharEnd(t, p) ==
    LET closing == {e \in p + 2..Len(t) :
            /\ t[e] = t[p] /\ \A i \in p + 1..e : t[i] # "n"
            /\ IF t[p + 1] = "b" THEN e > p + 2 ELSE e = p + 2 /\ t[p + 1] # t[p]}
    IN  IF t[p] \in lang.charQuotes /\ closing # {} THEN Least(closing) ELSE p

\* The token that starts at p.  What a guard announces (an f-string) is
\* opaque, to the end of its line or, if it may span lines, of the file.
Token(t, p) ==
    LET lc == {m \in DOMAIN lang.lineComments : At(t, p, lang.lineComments[m])}
        bc == {m \in DOMAIN lang.blockComments : At(t, p, lang.blockComments[m][1])}
        st == {m \in DOMAIN lang.strings : At(t, p, lang.strings[m].open)}
        raw == {m \in DOMAIN lang.rawStrings : At(t, p, lang.rawStrings[m].open)}
        multi == {m \in DOMAIN lang.strings :
                    /\ lang.strings[m].multiline
                    /\ Within(t, p, LineEnd(t, p) - 1, lang.strings[m].open)}
    IN  IF \E g \in lang.guardLine : At(t, p, g)
        THEN [kind |-> "opaque", end |-> IF multi = {} THEN LineEnd(t, p) - 1 ELSE Len(t)]
        ELSE IF lc # {} THEN [kind |-> "comment", end |-> LineEnd(t, p) - 1]
        ELSE IF bc # {}
        THEN LET m == Least(bc)
             IN  [kind |-> "comment",
                  end |-> BlockEnd(t, p, lang.blockComments[m][1], lang.blockComments[m][2])]
        ELSE IF st # {} THEN [kind |-> "string", end |-> LiteralEnd(t, p, lang.strings[Least(st)])]
        ELSE IF raw # {}
        THEN [kind |-> "foreign", end |-> LiteralEnd(t, p, lang.rawStrings[Least(raw)])]
        ELSE [kind |-> IF CharEnd(t, p) = p THEN "code" ELSE "foreign", end |-> CharEnd(t, p)]

\* Where tokens start, if the spans say from where to where one would reach.
TokenStarts(positions, spans) ==
    LET Starts[i \in positions] ==
          i = 1 \/ \E p \in 1..i - 1 : <<p, i - 1>> \in spans /\ Starts[p]
    IN  Starts

\* The tokens of t, from its first byte on.
Tokens(t) ==
    LET at == [p \in DOMAIN t |-> Token(t, p)]
        Starts == TokenStarts(DOMAIN t, {<<p, at[p].end>> : p \in DOMAIN t})
    IN  {[from |-> p, to |-> at[p].end, kind |-> at[p].kind] : p \in {i \in DOMAIN t : Starts[i]}}

IsProgram(tokens) == \A k \in tokens : k.to # 0

\* The bytes of the comments that mean nothing to the language.
CommentBytes(t, tokens) ==
    UNION {k.from..k.to : k \in {c \in tokens :
        c.kind = "comment" /\ ~\E m \in lang.keep : At(t, c.from, m)}}

\* In some opener of a block comment of t begins its closer.
Overlaps(t) ==
    \E b \in DOMAIN lang.blockComments, i \in DOMAIN t :
        /\ At(t, i, lang.blockComments[b][1])
        /\ \E j \in i..i + Len(lang.blockComments[b][1]) - 1 : At(t, j, lang.blockComments[b][2])

Splices(t) == \E i \in 1..Len(t) - 1 : t[i] = "b" /\ t[i + 1] = "n"

\* A comment or a string of the configuration opens at p.
MarkAt(t, p) ==
    \/ \E m \in DOMAIN lang.lineComments : At(t, p, lang.lineComments[m])
    \/ \E m \in DOMAIN lang.blockComments : At(t, p, lang.blockComments[m][1])
    \/ \E m \in DOMAIN lang.strings : At(t, p, lang.strings[m].open)

\* The texts in which the scanner can follow the language.  It does not tell an
\* opener of a nesting comment from the closer that overlaps it, nor a newline
\* that is escaped in a literal on a guarded line, nor a mark inside a literal
\* that is foreign to it.
Lexable(t) ==
    /\ lang.nests => ~Overlaps(t)
    /\ lang.guardLine # {} => ~Splices(t)
    /\ \A k \in Tokens(t) : k.kind = "foreign" => \A p \in k.from..k.to : ~MarkAt(t, p)
=============================================================================
