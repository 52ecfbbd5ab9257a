------------------------------- MODULE UrlParse -------------------------------
(***************************************************************************)
(* entries/url-parse/main.go: a URL split at its delimiters.  A character  *)
(* is a letter "a" (a hexadecimal digit), its capital "A", a letter "z"    *)
(* that is no hexadecimal digit, a digit "1", "-" for the other unreserved *)
(* ones, "!" for the sub-delims, a delimiter, or "[".                      *)
(***************************************************************************)
EXTENDS Integers, Sequences

\* The position of the first c in s, or 0.
IndexByte(s, c) ==
    LET at == {i \in DOMAIN s : s[i] = c}
    IN  IF at = {} THEN 0 ELSE CHOOSE i \in at : \A j \in at : i <= j

Upto(s, i)  == SubSeq(s, 1, i - 1)
After(s, i) == SubSeq(s, i + 1, Len(s))

\* A component and whether its delimiter was there.
Absent == [has |-> FALSE, text |-> <<>>]
Given(s) == [has |-> TRUE, text |-> s]

Letters == {"a", "A", "z"}
HexDigits == {"a", "A", "1"}
Unreserved == Letters \cup {"1", "-"}
SubDelims == {"!"}
Characters == Unreserved \cup SubDelims \cup {"%", "/", ":", "@", "?", "#", "["}
Texts == Seq(Characters)

\* Unreserved characters, percent triples and those in extra: a triple starts
\* where no triple before it reaches.
ValidPctClass(s, extra) ==
    LET Triple(i) == i + 2 <= Len(s) /\ s[i + 1] \in HexDigits /\ s[i + 2] \in HexDigits
    IN  \A i \in DOMAIN s :
            \/ s[i] \in Unreserved \cup SubDelims \cup extra
            \/ s[i] = "%" /\ Triple(i)

ValidScheme(s) ==
    s # <<>> /\ s[1] \in Letters /\ \A i \in DOMAIN s : s[i] \in Letters \cup {"1", "-"}
ValidUserinfo(s) == ValidPctClass(s, {":"})
ValidHost(s) == s # <<>> /\ ValidPctClass(s, {})
ValidPort(s) == \A i \in DOMAIN s : s[i] = "1"
ValidPath(s) == ValidPctClass(s, {"/", ":", "@"})
ValidQueryOrFragment(s) == ValidPctClass(s, {"/", ":", "@", "?"})

ToLower(s) == [i \in DOMAIN s |-> IF s[i] = "A" THEN "a" ELSE s[i]]

\* What the first c splits off the end of s.
SplitOff(s, c) ==
    LET i == IndexByte(s, c)
    IN  IF i = 0 THEN [rest |-> s, tail |-> Absent]
        ELSE [rest |-> Upto(s, i), tail |-> Given(After(s, i))]

\* Mutation: the query is looked for before the fragment.
SplitQueryFirst(s) ==
    LET query == SplitOff(s, "?")
        fragment == SplitOff(query.rest, "#")
    IN  [rest |-> fragment.rest, query |-> query.tail, fragment |-> fragment.tail]

\* The fragment is cut off first, then the query.
SplitTail(s) ==
    LET fragment == SplitOff(s, "#")
        query == SplitOff(fragment.rest, "?")
    IN  [rest |-> query.rest, query |-> query.tail, fragment |-> fragment.tail]

\* userinfo, host and port of an authority.
SplitAuthority(s) ==
    LET i == IndexByte(s, "@")
        hostport == SplitOff(IF i = 0 THEN s ELSE After(s, i), ":")
    IN  [userinfo |-> IF i = 0 THEN Absent ELSE Given(Upto(s, i)),
         host |-> hostport.rest, port |-> hostport.tail]

\* parseURL: the components, or an error.
ParseURL(s) ==
    LET tail == SplitTail(s)
        colon == IndexByte(tail.rest, ":")
        scheme == Upto(tail.rest, colon)
        hier == After(tail.rest, colon)
        slashes == Len(hier) >= 2 /\ hier[1] = "/" /\ hier[2] = "/"
        rest == SubSeq(hier, 3, Len(hier))
        slash == IndexByte(rest, "/")
        auth == SplitAuthority(IF slash = 0 THEN rest ELSE Upto(rest, slash))
        path == IF slash = 0 THEN <<>> ELSE SubSeq(rest, slash, Len(rest))
    IN  IF /\ colon > 0 /\ ValidScheme(scheme) /\ slashes /\ ValidPath(path)
           /\ ValidQueryOrFragment(tail.query.text) /\ ValidQueryOrFragment(tail.fragment.text)
           /\ ValidUserinfo(auth.userinfo.text) /\ ValidHost(auth.host) /\ ValidPort(auth.port.text)
        THEN [ok |-> TRUE,
              url |-> [scheme |-> ToLower(scheme), userinfo |-> auth.userinfo, host |-> auth.host,
                       port |-> auth.port, path |-> path,
                       query |-> tail.query, fragment |-> tail.fragment]]
        ELSE [ok |-> FALSE, url |-> <<>>]

-----------------------------------------------------------------------------
(* The grammar (RFC 3986, as the task pins it), as sets of texts *)

\* Texts of L followed by texts of M.
Cat(L, M) ==
    {w \in Texts : \E i \in 0..Len(w) : SubSeq(w, 1, i) \in L /\ SubSeq(w, i + 1, Len(w)) \in M}

Opt(L) == L \cup {<<>>}

\* Any number of texts of L, none of them empty: they end where w is cut.
Star(L) ==
    {w \in Texts : \E cuts \in SUBSET (0..Len(w)) :
        /\ {0, Len(w)} \subseteq cuts
        /\ \A i \in cuts \ {Len(w)} : \E j \in cuts : i < j /\ SubSeq(w, i + 1, j) \in L}

Char(C) == {<<c>> : c \in C}

PctEncoded == {<<"%", h, k>> : h \in HexDigits, k \in HexDigits}
RegChar == Char(Unreserved \cup SubDelims) \cup PctEncoded
PChar == RegChar \cup Char({":", "@"})

PathAbempty == Opt(Cat(Char({"/"}), Star(PChar \cup Char({"/"}))))
QueryOrFragment == Star(PChar \cup Char({"/", "?"}))
Authority ==
    Cat(Opt(Cat(Star(RegChar \cup Char({":"})), Char({"@"}))),
        Cat(Star(RegChar) \ {<<>>}, Opt(Cat(Char({":"}), Star(Char({"1"}))))))

\* What may follow the two slashes.
AfterSlashes ==
    Cat(Authority, Cat(PathAbempty, Cat(Opt(Cat(Char({"?"}), QueryOrFragment)),
                                        Opt(Cat(Char({"#"}), QueryOrFragment)))))

IsURL(s) ==
    \E i \in 1..(Len(s) - 3) :
        /\ s[1] \in Letters /\ \A j \in 2..i : s[j] \in Letters \cup {"1", "-"}
        /\ SubSeq(s, i + 1, i + 3) = <<":", "/", "/">>
        /\ SubSeq(s, i + 4, Len(s)) \in AfterSlashes

\* How a URL is put together from its components (RFC 3986, 5.3).
Recompose(u) ==
    LET Before(part, c) == IF part.has THEN <<c>> \o part.text ELSE <<>>
    IN  u.scheme \o <<":", "/", "/">>
        \o (IF u.userinfo.has THEN u.userinfo.text \o <<"@">> ELSE <<>>)
        \o u.host \o Before(u.port, ":") \o u.path
        \o Before(u.query, "?") \o Before(u.fragment, "#")
=============================================================================
