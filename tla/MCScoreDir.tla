------------------------------ MODULE MCScoreDir ------------------------------
(* Lexical shapes of the languages of languages.json and small entries. *)
EXTENDS ScoreDir

CONSTANTS Size   \* the largest file, in bytes

Literal(open, escape, multiline) ==
    [open |-> open, close |-> open, escape |-> escape, multiline |-> multiline]

Slashes == [lineComments |-> << <<"/", "/">> >>,
            blockComments |-> << << <<"/", "*">>, <<"*", "/">> >> >>]

\* "w", "x", "p" and the letters of the guards are bytes of words.
Word == {"f", "k", "p", "r", "w", "x"}

\* The patterns \bname\b, \bname\s*then, (^|[^.\w])name\b and a plain one.
WholeWord(name) ==
    [name |-> name, notAfter |-> Word, notBefore |-> Word, then |-> <<>>, takes |-> FALSE]
Leading(name, then) == [WholeWord(name) EXCEPT !.notBefore = {}, !.then = then]
Builtin(name) == [WholeWord(name) EXCEPT !.notAfter = Word \cup {"."}, !.takes = TRUE]
Plain(name) == [WholeWord(name) EXCEPT !.notAfter = {}, !.notBefore = {}]

Shape(comments, strings) ==
    [lineComments |-> comments.lineComments, blockComments |-> comments.blockComments,
     strings |-> strings, rawStrings |-> <<>>, charQuotes |-> {},
     strips |-> TRUE, extensions |-> {"src"}, keep |-> {}, guardFile |-> {}, guardLine |-> {},
     nests |-> FALSE, collapses |-> FALSE, joins |-> FALSE,
     hazards |-> {WholeWord(<<"x">>)}, alphabet |-> {}, prefix |-> <<>>, size |-> Size]

\* Go: "g" is the backquote, "k" marks a directive (//go:), which may itself be
\* a hazard.
Go == [Shape(Slashes, << Literal(<<"q">>, <<"b">>, FALSE), Literal(<<"g">>, <<>>, TRUE) >>)
        EXCEPT !.keep = {<<"/", "/", "k">>},
               !.hazards = {WholeWord(<<"x">>), Plain(<<"/", "/", "k">>)},
               !.alphabet = {"/", "q", "g", "n", "x"}]
GoTexts(go) ==
    [go |-> go,
     escapes |-> [go EXCEPT !.size = Size - 1, !.prefix = <<"q", "b">>, !.alphabet = {"/", "q", "b", "n", "x"}],
     directives |-> [go EXCEPT !.alphabet = {"/", "k", "n", "x"}],
     blocks |-> [go EXCEPT !.prefix = <<"/", "*">>, !.alphabet = {"/", "*", "n", "x"}]]

\* Rust: comments nest, strings span lines; "r" is the prefix of a raw string,
\* "'" quotes characters and "p" with ":" is process::.
Rust == [Shape(Slashes, << Literal(<<"q">>, <<"b">>, TRUE) >>)
          EXCEPT !.nests = TRUE, !.guardFile = {<<"r", "q">>, <<"'", "q">>},
                 !.rawStrings = << [Literal(<<"q">>, <<>>, TRUE) EXCEPT !.open = <<"r", "q">>] >>,
                 !.charQuotes = {"'"},
                 !.hazards = @ \cup {Leading(<<"p">>, <<":">>)},
                 !.alphabet = {"/", "q", "b", "r", "x"}]
RustTexts(rust) ==
    [rust |-> rust,
     nested |-> [rust EXCEPT !.size = Size + 2, !.alphabet = {"/", "*", "x"}],
     quotes |-> [rust EXCEPT !.prefix = <<"'", "b">>, !.alphabet = {"/", "q", "'", "x"}],
     paths |-> [rust EXCEPT !.prefix = <<"p">>, !.alphabet = {"/", "*", "n", ":"}],
     several |-> [rust EXCEPT !.alphabet = {}]]

\* C: lines are joined before anything is read.  "raw" has no strip.
C == [Shape(Slashes, << Literal(<<"q">>, <<"b">>, FALSE) >>)
       EXCEPT !.collapses = TRUE, !.joins = TRUE, !.hazards = @ \cup {WholeWord(<<"x", "w">>)},
              !.alphabet = {"/", "*", "b", "n", "x"}]
CTexts(c) ==
    [c |-> c,
     names |-> [c EXCEPT !.size = Size - 1, !.prefix = <<"x">>, !.alphabet = {"/", "b", "n", "w", "x"}],
     joining |-> [c EXCEPT !.alphabet = {}],
     raw |-> [c EXCEPT !.alphabet = {}, !.strips = FALSE]]

\* Python: "fq" opens an f-string, "qq" stands for the triple quote.  The
\* texts of PythonTexts have no backslash; those of PythonSplices do.
Python == [Shape([lineComments |-> << <<"#">> >>, blockComments |-> <<>>],
                 << Literal(<<"q", "q">>, <<"b">>, TRUE), Literal(<<"q">>, <<"b">>, FALSE) >>)
            EXCEPT !.guardLine = {<<"f", "q">>}, !.collapses = TRUE,
                   !.hazards = {Builtin(<<"x">>)},
                   !.alphabet = {"#", "q", "f", "n", "x"}]
PythonTexts(python) ==
    [python |-> python,
     fstrings |-> [python EXCEPT !.prefix = <<"f", "q">>, !.alphabet = {"#", "q", "n", "x"}],
     builtins |-> [python EXCEPT !.size = Size - 1, !.alphabet = {"#", ".", "n", "w", "x"}]]
PythonSplices == [Python EXCEPT !.alphabet = {"#", "b", "n", "x"}]

\* All texts of a shape: what follows its prefix is arbitrary.
Texts(shape) ==
    {shape.prefix \o t : t \in UNION {[1..k -> shape.alphabet] : k \in 0..shape.size}}

MCFolded(segment) == IF segment = "Vendor" THEN "vendor" ELSE segment

FewTexts == {<<"x">>, <<"x", "b", "n", "/", "/", "x">>, <<"/", "*", "x", "n">>,
             <<"p", "/", "*", "*", "/", ":">>, <<"x", "b", "n", "w">>}
FewPaths == {<<"main">>, <<"lib", "Vendor", "entry.json">>}
FewFiles ==
    [path : FewPaths, ext : {"src", "txt"}, kind : {"text"}, text : FewTexts]
        \cup [path : {<<"main">>, <<"entry.json">>}, ext : {"txt"},
              kind : {"symlink", "binary"}, text : {<<"x">>}]

\* One file of every text up to a size, or up to two of a few files.
MCFileLists(l) ==
    IF Languages[l].alphabet = {} THEN UNION {[1..k -> FewFiles] : k \in 0..2}
    ELSE [1..1 -> [path : {<<"main">>}, ext : {"src"}, kind : {"text"},
                   text : Texts(Languages[l])]]

MCCommands(l) ==
    IF Languages[l].alphabet = {} THEN {<< <<"x">>, <<>> >>, << <<>>, <<"x">> >>}
    ELSE {<< <<>>, <<>> >>}

\* "several", "joining" and "raw" are written in entries of several files.
MCLanguages == GoTexts(Go) @@ RustTexts(Rust) @@ CTexts(C) @@ PythonTexts(Python)

SplicedLanguages == [python |-> PythonSplices]

\* Rust comments whose second opener shares a byte with the first closer.
OverlappingComments ==
    [Rust EXCEPT !.prefix = <<"/", "*", "/", "*", "/", "/", "/">>, !.alphabet = {"/", "*", "x"}]
NestedLanguages == [rust |-> OverlappingComments]
=============================================================================
