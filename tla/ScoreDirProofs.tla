---------------------------- MODULE ScoreDirProofs ----------------------------
(***************************************************************************)
(* Proofs about the measurement of a trust score, for every language of    *)
(* the shape languages.json has, every entry and every file of any length. *)
(***************************************************************************)
EXTENDS ScoreDir, Induction, FiniteSetTheorems, TLAPS

-----------------------------------------------------------------------------
(* The operators of the scanner *)

LEMMA FindSpec ==
    ASSUME NEW t \in Seq(STRING), NEW p \in Nat \ {0}, NEW m
    PROVE  /\ Find(t, p, m) = 0 => \A i \in p..Len(t) : ~At(t, i, m)
           /\ Find(t, p, m) # 0 =>
                /\ Find(t, p, m) \in p..Len(t) /\ At(t, Find(t, p, m), m)
                /\ \A i \in p..Len(t) : At(t, i, m) => Find(t, p, m) <= i
<1> DEFINE found == {i \in p..Len(t) : At(t, i, m)}
<1>1. found \in SUBSET Nat
  OBVIOUS
<1>2. CASE found = {}
  <2>1. Find(t, p, m) = 0
    BY <1>2 DEF Find
  <2>2. QED
    BY <1>2, <2>1
<1>3. CASE found # {}
  <2>1. Find(t, p, m) = CHOOSE i \in found : \A j \in found : i <= j
    BY <1>3 DEF Find
  <2>2. Find(t, p, m) \in found /\ \A j \in found : Find(t, p, m) <= j
    BY <1>1, <1>3, <2>1, ChosenLeast
  <2>3. Find(t, p, m) # 0
    BY <2>2
  <2>4. QED
    BY <2>2, <2>3
<1>4. QED
  BY <1>2, <1>3

\* The end of a line: the first newline from p on, or behind the last byte.
LEMMA LineEndSpec ==
    ASSUME NEW t \in Seq(STRING), NEW p \in 1..Len(t)
    PROVE  /\ LineEnd(t, p) \in p..Len(t) + 1
           /\ LineEnd(t, p) <= Len(t) => t[LineEnd(t, p)] = "n"
           /\ \A i \in p..LineEnd(t, p) - 1 : t[i] # "n"
<1>1. /\ Find(t, p, <<"n">>) = 0 => \A i \in p..Len(t) : ~At(t, i, <<"n">>)
      /\ Find(t, p, <<"n">>) # 0 =>
            /\ Find(t, p, <<"n">>) \in p..Len(t) /\ At(t, Find(t, p, <<"n">>), <<"n">>)
            /\ \A i \in p..Len(t) : At(t, i, <<"n">>) => Find(t, p, <<"n">>) <= i
  <2>1. p \in Nat \ {0}
    <3>1. Len(t) \in Nat
      OBVIOUS
    <3>2. QED
      BY <3>1
  <2>2. QED
    BY <2>1, FindSpec
<1>2. ASSUME NEW i \in p..Len(t) PROVE At(t, i, <<"n">>) <=> t[i] = "n"
  BY DEF At
<1>3. QED
  BY <1>1, <1>2 DEF LineEnd

LEMMA FirstAtSpec ==
    ASSUME NEW p, NEW S, NEW markers \in Seq(S)
    PROVE  /\ FirstAt(p, markers) = 0 => \A k \in DOMAIN markers : ~At(text, p, markers[k])
           /\ FirstAt(p, markers) # 0 =>
                /\ FirstAt(p, markers) \in DOMAIN markers
                /\ At(text, p, markers[FirstAt(p, markers)])
                /\ \A k \in DOMAIN markers :
                      At(text, p, markers[k]) => FirstAt(p, markers) <= k
<1> DEFINE hit == {k \in DOMAIN markers : At(text, p, markers[k])}
<1>1. hit \in SUBSET Nat /\ 0 \notin hit
  OBVIOUS
<1>2. CASE hit = {}
  <2>1. FirstAt(p, markers) = 0
    BY <1>2 DEF FirstAt
  <2>2. QED
    BY <1>2, <2>1
<1>3. CASE hit # {}
  <2>1. FirstAt(p, markers) = CHOOSE k \in hit : \A j \in hit : k <= j
    BY <1>3 DEF FirstAt
  <2>2. FirstAt(p, markers) \in hit /\ \A j \in hit : FirstAt(p, markers) <= j
    BY <1>1, <1>3, <2>1, ChosenLeast
  <2>3. QED
    BY <1>1, <2>2
<1>4. QED
  BY <1>2, <1>3

\* The string syntax found at p is the first listed one that opens there.
LEMMA StringAtSpec ==
    ASSUME NEW p, LanguageShape(lang)
    PROVE  /\ StringAt(p) = 0 => \A k \in DOMAIN lang.strings : ~At(text, p, lang.strings[k].open)
           /\ StringAt(p) # 0 =>
                /\ StringAt(p) \in DOMAIN lang.strings
                /\ At(text, p, lang.strings[StringAt(p)].open)
                /\ \A k \in DOMAIN lang.strings :
                      At(text, p, lang.strings[k].open) => StringAt(p) <= k
<1> DEFINE hit == {k \in DOMAIN lang.strings : At(text, p, lang.strings[k].open)}
           Longer(j, k) == Len(lang.strings[j].open) > Len(lang.strings[k].open)
<1>1. lang.strings \in Seq(StringSyntax)
  BY DEF LanguageShape
<1>2. hit \in SUBSET Nat /\ 0 \notin hit
  BY <1>1
<1>3. \A k \in hit : Len(lang.strings[k].open) \in Nat
  BY <1>1, SMTT(30) DEF StringSyntax
<1>4. CASE hit = {}
  <2>1. StringAt(p) = 0
    BY <1>4 DEF StringAt
  <2>2. QED
    BY <1>4, <2>1
<1>5. CASE hit # {}
  <2>1. PICK m \in hit : \A j \in hit : m <= j
    BY <1>2, <1>5, Smallest
  <2>2. \A j \in hit : Len(lang.strings[m].open) >= Len(lang.strings[j].open)
    <3>1. SUFFICES ASSUME NEW j \in hit, m # j
                   PROVE  Len(lang.strings[m].open) >= Len(lang.strings[j].open)
      BY <1>3
    <3>2. m < j
      BY <1>2, <2>1, <3>1
    <3>3. QED
      BY <3>2 DEF LanguageShape
  <2>3. \A j \in hit : Longer(m, j) \/ (m <= j /\ ~Longer(j, m))
    BY <1>3, <2>1, <2>2, SMTT(30)
  <2>4. StringAt(p) = CHOOSE k \in hit : \A j \in hit : Longer(k, j) \/ (k <= j /\ ~Longer(j, k))
    BY <1>5 DEF StringAt
  <2>5. /\ StringAt(p) \in hit
        /\ \A j \in hit : Longer(StringAt(p), j) \/ (StringAt(p) <= j /\ ~Longer(j, StringAt(p)))
    BY <2>3, <2>4
  <2>6. ~Longer(StringAt(p), m)
    BY <1>3, <2>2, <2>5
  <2>7. StringAt(p) <= m
    BY <2>1, <2>5, <2>6
  <2>8. \A j \in hit : StringAt(p) <= j
    BY <1>2, <2>1, <2>5, <2>7
  <2>9. QED
    BY <1>2, <2>5, <2>8
<1>6. QED
  BY <1>4, <1>5

-----------------------------------------------------------------------------
(* Counting newlines *)

LEMMA NewlinesType ==
    ASSUME NEW t, NEW a \in Int, NEW b \in Int
    PROVE  /\ IsFiniteSet({i \in a..b : t[i] = "n"})
           /\ Newlines(t, a, b) \in Nat
<1>1. IsFiniteSet(a..b)
  BY FS_Interval
<1>2. {i \in a..b : t[i] = "n"} \in SUBSET (a..b)
  OBVIOUS
<1>3. IsFiniteSet({i \in a..b : t[i] = "n"})
  BY <1>1, <1>2, FS_Subset
<1>4. QED
  BY <1>3, FS_CardinalityType DEF Newlines

LEMMA NewlinesEmpty ==
    ASSUME NEW t, NEW a \in Int, NEW b \in Int, \A i \in a..b : t[i] # "n"
    PROVE  Newlines(t, a, b) = 0
<1>1. {i \in a..b : t[i] = "n"} = {}
  OBVIOUS
<1>2. QED
  BY <1>1, FS_EmptySet DEF Newlines

LEMMA NewlinesSplit ==
    ASSUME NEW t, NEW a \in Int, NEW b \in Int, NEW c \in Int, a <= b + 1, b <= c
    PROVE  Newlines(t, a, c) = Newlines(t, a, b) + Newlines(t, b + 1, c)
<1> DEFINE S == {i \in a..b : t[i] = "n"}
           T == {i \in b + 1..c : t[i] = "n"}
<1>1. /\ IsFiniteSet(S) /\ Newlines(t, a, b) \in Nat
      /\ IsFiniteSet(T) /\ Newlines(t, b + 1, c) \in Nat
  <2>1. b + 1 \in Int
    OBVIOUS
  <2>2. QED
    BY <2>1, NewlinesType
<1>2. {i \in a..c : t[i] = "n"} = S \cup T /\ S \cap T = {}
  OBVIOUS
<1>3. Cardinality(S \cup T) = Cardinality(S) + Cardinality(T) - Cardinality(S \cap T)
  BY <1>1, FS_Union
<1>4. Cardinality(S \cap T) = 0
  BY <1>2, FS_EmptySet
<1>5. /\ Newlines(t, a, b) = Cardinality(S) /\ Newlines(t, b + 1, c) = Cardinality(T)
      /\ Newlines(t, a, c) = Cardinality(S \cup T)
  BY <1>2 DEF Newlines
<1>6. QED
  BY <1>1, <1>3, <1>4, <1>5

LEMMA NewlinesOne ==
    ASSUME NEW t, NEW a \in Int
    PROVE  Newlines(t, a, a) = IF t[a] = "n" THEN 1 ELSE 0
<1>1. CASE t[a] = "n"
  <2>1. {i \in a..a : t[i] = "n"} = {a}
    BY <1>1
  <2>2. QED
    BY <1>1, <2>1, FS_Singleton DEF Newlines
<1>2. CASE t[a] # "n"
  BY <1>2, NewlinesEmpty
<1>3. QED
  BY <1>1, <1>2

\* Two texts with the same newlines have the same counts.
LEMMA NewlinesSame ==
    ASSUME NEW t, NEW u, NEW a \in Int, NEW b \in Int,
           \A i \in a..b : t[i] = "n" <=> u[i] = "n"
    PROVE  Newlines(t, a, b) = Newlines(u, a, b)
<1>1. {i \in a..b : t[i] = "n"} = {i \in a..b : u[i] = "n"}
  BY SMTT(30)
<1>2. QED
  BY <1>1 DEF Newlines

-----------------------------------------------------------------------------
(* Where a literal ends *)

\* StringRest is defined by recursion towards the end of the text; such a
\* function exists, so it satisfies its recursion.
LEMMA StringRestExists ==
    ASSUME NEW s \in StringSyntax, Len(text) \in Nat
    PROVE  LET n == Len(text)
               Passing(rest, newlines) == [rest EXCEPT !.newlines = @ + newlines]
               Body(r, i) ==
                 IF i > n THEN [end |-> IF s.multiline THEN 0 ELSE i, newlines |-> 0]
                 ELSE IF At(text, i, s.close) THEN [end |-> i + Len(s.close), newlines |-> 0]
                 ELSE IF IsEscape(i, s)
                 THEN Passing(r[i + Len(s.escape) + 1], EscapedLine(i + Len(s.escape)))
                 ELSE IF text[i] = "n" /\ ~s.multiline THEN [end |-> i, newlines |-> 0]
                 ELSE Passing(r[i + 1], IF text[i] = "n" THEN 1 ELSE 0)
           IN  StringRest(s) = [i \in 1..n + 1 |-> Body(StringRest(s), i)]
<1> DEFINE n == Len(text)
           Passing(rest, newlines) == [rest EXCEPT !.newlines = @ + newlines]
           Body(r, i) ==
                 IF i > n THEN [end |-> IF s.multiline THEN 0 ELSE i, newlines |-> 0]
                 ELSE IF At(text, i, s.close) THEN [end |-> i + Len(s.close), newlines |-> 0]
                 ELSE IF IsEscape(i, s)
                 THEN Passing(r[i + Len(s.escape) + 1], EscapedLine(i + Len(s.escape)))
                 ELSE IF text[i] = "n" /\ ~s.multiline THEN [end |-> i, newlines |-> 0]
                 ELSE Passing(r[i + 1], IF text[i] = "n" THEN 1 ELSE 0)
           Reaches(m) == \E r : r = [i \in n + 1 - m..n + 1 |-> Body(r, i)]
<1>0. n \in Nat
  OBVIOUS
<1>00. StringRest(s) = CHOOSE r : r = [i \in 1..n + 1 |-> Body(r, i)]
  BY DEF StringRest
<1> HIDE DEF n
<1> USE <1>0
<1>1. ASSUME NEW r, NEW u, NEW i \in 1..n + 1, \A j \in i + 1..n + 1 : r[j] = u[j]
      PROVE  Body(r, i) = Body(u, i)
  <2>1. Len(s.escape) \in Nat
    BY DEF StringSyntax
  <2>2. ASSUME i <= n PROVE r[i + 1] = u[i + 1]
    <3>1. i + 1 \in i + 1..n + 1
      BY <2>2
    <3>2. QED
      BY <1>1, <3>1
  <2>3. ASSUME i <= n, IsEscape(i, s)
        PROVE  r[i + Len(s.escape) + 1] = u[i + Len(s.escape) + 1]
    <3>1. i + Len(s.escape) + 1 \in i + 1..n + 1
      BY <2>1, <2>3 DEF IsEscape, n
    <3>2. QED
      BY <1>1, <3>1
  <2>4. CASE i > n
    BY <2>4
  <2>5. CASE ~(i > n)
    <3>1. i <= n
      BY <2>5
    <3>2. QED
      BY <2>2, <2>3, <2>5, <3>1
  <2>6. QED
    BY <2>4, <2>5
<1>2. Reaches(0)
  <2> DEFINE r == [i \in n + 1..n + 1 |-> [end |-> IF s.multiline THEN 0 ELSE i, newlines |-> 0]]
  <2>1. r = [i \in n + 1..n + 1 |-> Body(r, i)]
    OBVIOUS
  <2>2. n + 1 - 0 = n + 1
    OBVIOUS
  <2>3. QED
    BY <2>1, <2>2
<1>3. ASSUME NEW m \in 0..n - 1, Reaches(m) PROVE Reaches(m + 1)
  <2> DEFINE k == n - m
  <2>1. k \in 1..n /\ n + 1 - m = k + 1 /\ n + 1 - (m + 1) = k
    OBVIOUS
  <2>2. PICK h : h = [i \in k + 1..n + 1 |-> Body(h, i)]
    <3> HIDE DEF Body, k
    <3>1. QED
      BY <1>3, <2>1
  <2> DEFINE r == [i \in k..n + 1 |-> IF i = k THEN Body(h, k) ELSE h[i]]
  <2>3. ASSUME NEW i \in k..n + 1 PROVE r[i] = Body(r, i)
    <3> HIDE DEF Body
    <3>1. \A j \in k + 1..n + 1 : r[j] = h[j]
      BY <2>1
    <3>2. i \in 1..n + 1 /\ \A j \in i + 1..n + 1 : j \in k + 1..n + 1
      BY <2>1
    <3>3. Body(r, i) = Body(h, i)
      <4> HIDE DEF r
      <4>1. QED
        BY <1>1, <3>1, <3>2
    <3>4. CASE i = k
      BY <3>3, <3>4
    <3>5. CASE i # k
      <4>1. i \in k + 1..n + 1
        BY <2>1, <3>5
      <4>2. h[i] = Body(h, i)
        BY <2>2, <4>1
      <4>3. QED
        BY <3>1, <3>3, <4>1, <4>2
    <3>6. QED
      BY <3>4, <3>5
  <2>4. r = [i \in k..n + 1 |-> Body(r, i)]
    <3> HIDE DEF Body
    <3>1. r = [i \in k..n + 1 |-> r[i]]
      OBVIOUS
    <3> HIDE DEF r
    <3>2. QED
      BY <2>3, <3>1
  <2>5. QED
    <3> HIDE DEF Body, r, k
    <3>1. QED
      BY <2>1, <2>4
<1>4. \E r : r = [i \in 1..n + 1 |-> Body(r, i)]
  <2> DEFINE S == {m \in 0..n : Reaches(m)}
  <2> HIDE DEF Body, Reaches
  <2>1. 0 \in S /\ \A m \in 0..n - 1 : m \in S => m + 1 \in S
    <3>1. ASSUME NEW m \in 0..n - 1 PROVE m \in 0..n /\ m + 1 \in 0..n
      OBVIOUS
    <3>2. QED
      BY <1>2, <1>3, <3>1
  <2>2. Reaches(n)
    <3> HIDE DEF S
    <3>1. \A k \in 0..n : k \in S
      BY <2>1, Climb
    <3>2. n \in 0..n
      OBVIOUS
    <3>3. QED
      BY <3>1, <3>2 DEF S
  <2>3. n + 1 - n = 1
    OBVIOUS
  <2>4. QED
    BY <2>2, <2>3 DEF Reaches
<1>5. QED
  <2> DEFINE Satisfies(r) == r = [i \in 1..n + 1 |-> Body(r, i)]
  <2> HIDE DEF Body
  <2>1. \E r : Satisfies(r)
    BY <1>4
  <2>2. StringRest(s) = CHOOSE r : Satisfies(r)
    BY <1>00
  <2>3. Satisfies(StringRest(s))
    <3> HIDE DEF Satisfies
    <3>1. QED
      BY <2>1, <2>2
  <2>4. QED
    BY <2>3 DEF Body, n

\* One step of the recursion.
LEMMA StringRestStep ==
    ASSUME NEW s \in StringSyntax, text \in Seq(STRING), NEW i \in 1..Len(text) + 1
    PROVE  LET rest == StringRest(s)
               Passed(j, newlines) == rest[i] = [rest[j] EXCEPT !.newlines = @ + newlines]
           IN  /\ i > Len(text) =>
                     rest[i] = [end |-> IF s.multiline THEN 0 ELSE i, newlines |-> 0]
               /\ i <= Len(text) =>
                     IF At(text, i, s.close)
                     THEN rest[i] = [end |-> i + Len(s.close), newlines |-> 0]
                     ELSE IF IsEscape(i, s)
                     THEN Passed(i + Len(s.escape) + 1, EscapedLine(i + Len(s.escape)))
                     ELSE IF text[i] = "n" /\ ~s.multiline
                     THEN rest[i] = [end |-> i, newlines |-> 0]
                     ELSE Passed(i + 1, IF text[i] = "n" THEN 1 ELSE 0)
<1> DEFINE n == Len(text)
           Passing(rest, newlines) == [rest EXCEPT !.newlines = @ + newlines]
           Body(r, j) ==
                 IF j > n THEN [end |-> IF s.multiline THEN 0 ELSE j, newlines |-> 0]
                 ELSE IF At(text, j, s.close) THEN [end |-> j + Len(s.close), newlines |-> 0]
                 ELSE IF IsEscape(j, s)
                 THEN Passing(r[j + Len(s.escape) + 1], EscapedLine(j + Len(s.escape)))
                 ELSE IF text[j] = "n" /\ ~s.multiline THEN [end |-> j, newlines |-> 0]
                 ELSE Passing(r[j + 1], IF text[j] = "n" THEN 1 ELSE 0)
<1>1. n \in Nat
  OBVIOUS
<1>2. StringRest(s) = [j \in 1..n + 1 |-> Body(StringRest(s), j)]
  BY <1>1, StringRestExists
<1>3. StringRest(s)[i] = Body(StringRest(s), i)
  <2> HIDE DEF Body
  <2>1. QED
    BY <1>2
<1>4. QED
  BY <1>1, <1>3

\* Where a literal ends lies behind the position it is asked for, and the
\* newlines are those passed on the way.
LEMMA StringRestSpec ==
    ASSUME NEW s \in StringSyntax, Marker(s.close), s.escape \in {<<>>, <<"b">>},
           text \in Seq(STRING), NEW p \in 1..Len(text) + 1
    PROVE  LET r == StringRest(s)[p]
           IN  /\ r \in [end : Nat, newlines : Nat]
               /\ r.end # 0 => /\ r.end \in p..Len(text) + 1
                               /\ r.newlines = Newlines(text, p, r.end - 1)
<1> DEFINE n == Len(text)
           R == StringRest(s)
           P(i) == /\ R[i] \in [end : Nat, newlines : Nat]
                   /\ R[i].end # 0 => /\ R[i].end \in i..n + 1
                                      /\ R[i].newlines = Newlines(text, i, R[i].end - 1)
           S == {m \in 0..n : \A i \in n + 1 - m..n + 1 : P(i)}
<1>1. n \in Nat /\ Len(s.close) \in Nat \ {0} /\ Len(s.escape) \in {0, 1}
  BY DEF Marker, StringSyntax
<1>2. P(n + 1)
  <2>1. R[n + 1] = [end |-> IF s.multiline THEN 0 ELSE n + 1, newlines |-> 0]
    <3>1. n + 1 \in 1..n + 1 /\ n + 1 > n
      BY <1>1
    <3>2. QED
      BY <3>1, StringRestStep
  <2>2. Newlines(text, n + 1, n) = 0
    BY <1>1, NewlinesEmpty
  <2>3. QED
    BY <1>1, <2>1, <2>2
<1>3. ASSUME NEW i \in 1..n, \A j \in i + 1..n + 1 : P(j) PROVE P(i)
  <2> DEFINE Passed(j, newlines) == R[i] = [R[j] EXCEPT !.newlines = @ + newlines]
  <2>1. IF At(text, i, s.close)
        THEN R[i] = [end |-> i + Len(s.close), newlines |-> 0]
        ELSE IF IsEscape(i, s)
        THEN Passed(i + Len(s.escape) + 1, EscapedLine(i + Len(s.escape)))
        ELSE IF text[i] = "n" /\ ~s.multiline
        THEN R[i] = [end |-> i, newlines |-> 0]
        ELSE Passed(i + 1, IF text[i] = "n" THEN 1 ELSE 0)
    <3>1. i \in 1..n + 1 /\ i <= n /\ ~(i > n)
      BY <1>1
    <3>2. QED
      BY <3>1, StringRestStep
  <2> HIDE DEF R
  <2>2. ASSUME NEW j \in i + 1..n + 1, NEW k \in Nat, Passed(j, k),
               k = Newlines(text, i, j - 1)
        PROVE  P(i)
    <3>1. P(j)
      BY <1>3
    <3>2. R[i] = [end |-> R[j].end, newlines |-> R[j].newlines + k]
      BY <2>2, <3>1
    <3>3. ASSUME R[j].end # 0
          PROVE  Newlines(text, i, R[j].end - 1) = k + Newlines(text, j, R[j].end - 1)
      <4>1. /\ i \in Int /\ j - 1 \in Int /\ R[j].end - 1 \in Int
            /\ i <= j - 1 + 1 /\ j - 1 <= R[j].end - 1 /\ j - 1 + 1 = j
        BY <1>1, <3>1, <3>3
      <4>2. QED
        BY <2>2, <4>1, NewlinesSplit
    <3>4. /\ R[j].end \in Nat /\ R[j].newlines \in Nat
          /\ R[i].end = R[j].end /\ R[i].newlines = R[j].newlines + k
          /\ R[i] \in [end : Nat, newlines : Nat]
      BY <3>1, <3>2
    <3>5. ASSUME R[i].end # 0
          PROVE  R[i].end \in i..n + 1 /\ R[i].newlines = Newlines(text, i, R[i].end - 1)
      <4>1. R[j].end \in j..n + 1 /\ R[j].newlines = Newlines(text, j, R[j].end - 1)
        BY <3>1, <3>4, <3>5
      <4>2. R[i].end \in i..n + 1
        BY <1>1, <3>4, <4>1
      <4>3. R[i].newlines = Newlines(text, i, R[i].end - 1)
        <5>1. Newlines(text, i, R[j].end - 1) = k + Newlines(text, j, R[j].end - 1)
          BY <3>3, <3>4, <3>5
        <5>2. QED
          BY <3>4, <4>1, <5>1
      <4>4. QED
        BY <4>2, <4>3
    <3>6. QED
      BY <3>4, <3>5
  <2>3. CASE At(text, i, s.close)
    <3>1. R[i] = [end |-> i + Len(s.close), newlines |-> 0] /\ i + Len(s.close) <= n + 1
      BY <2>1, <2>3 DEF At
    <3>2. ASSUME NEW j \in i..i + Len(s.close) - 1 PROVE text[j] # "n"
      <4>1. j - i + 1 \in 1..Len(s.close) /\ i + (j - i + 1) - 1 = j
        BY <1>1
      <4>2. text[j] = s.close[j - i + 1]
        BY <2>3, <4>1 DEF At
      <4>3. QED
        BY <4>1, <4>2 DEF Marker
    <3>3. Newlines(text, i, i + Len(s.close) - 1) = 0
      BY <1>1, <3>2, NewlinesEmpty
    <3>4. QED
      BY <1>1, <3>1, <3>3
  <2>4. CASE ~At(text, i, s.close) /\ IsEscape(i, s)
    <3>1. s.escape = <<"b">> /\ Len(s.escape) = 1 /\ text[i] = "b" /\ i + 2 \in i + 1..n + 1
      BY <1>1, <2>4 DEF IsEscape, At
    <3>2. Passed(i + 2, EscapedLine(i + 1))
      <4>1. i + 1 + 1 = i + 2
        OBVIOUS
      <4>2. QED
        BY <2>1, <2>4, <3>1, <4>1
    <3>3. EscapedLine(i + 1) = Newlines(text, i, i + 2 - 1) /\ EscapedLine(i + 1) \in Nat
      <4>1. Newlines(text, i, i + 1) = Newlines(text, i, i) + Newlines(text, i + 1, i + 1)
        BY NewlinesSplit
      <4>2. Newlines(text, i, i) = 0
        BY <3>1, NewlinesOne
      <4>3. Newlines(text, i + 1, i + 1) = EscapedLine(i + 1) /\ i + 2 - 1 = i + 1
        BY NewlinesOne DEF EscapedLine
      <4>4. QED
        BY <4>1, <4>2, <4>3 DEF EscapedLine
    <3>4. QED
      <4> HIDE DEF P, Passed
      <4>1. QED
        BY <2>2, <3>1, <3>2, <3>3
  <2>5. CASE ~At(text, i, s.close) /\ ~IsEscape(i, s) /\ text[i] = "n" /\ ~s.multiline
    <3>1. R[i] = [end |-> i, newlines |-> 0]
      BY <2>1, <2>5
    <3>2. Newlines(text, i, i - 1) = 0
      BY NewlinesEmpty
    <3>3. QED
      BY <1>1, <3>1, <3>2
  <2>6. CASE ~At(text, i, s.close) /\ ~IsEscape(i, s) /\ ~(text[i] = "n" /\ ~s.multiline)
    <3>1. Passed(i + 1, IF text[i] = "n" THEN 1 ELSE 0)
      BY <2>1, <2>6
    <3>2. (IF text[i] = "n" THEN 1 ELSE 0) = Newlines(text, i, i + 1 - 1) /\ i + 1 \in i + 1..n + 1
      BY <1>1, NewlinesOne
    <3>3. QED
      BY <2>2, <3>1, <3>2, SMTT(30)
  <2>7. QED
    BY <2>3, <2>4, <2>5, <2>6
<1>4. 0 \in S
  <2> HIDE DEF P
  <2>1. QED
    BY <1>1, <1>2
<1>5. ASSUME NEW m \in 0..n - 1, m \in S PROVE m + 1 \in S
  <2> HIDE DEF P
  <2>1. n - m \in 1..n /\ n - m + 1 = n + 1 - m /\ n + 1 - (m + 1) = n - m /\ m + 1 \in 0..n
    BY <1>1
  <2>2. \A j \in n - m + 1..n + 1 : P(j)
    BY <1>5, <2>1
  <2>3. P(n - m)
    BY <1>3, <2>1, <2>2
  <2>4. QED
    BY <1>1, <2>1, <2>2, <2>3
<1>6. \A i \in 1..n + 1 : P(i)
  <2> HIDE DEF P
  <2>1. \A m \in 0..n : m \in S
    <3> HIDE DEF S
    <3>1. QED
      BY <1>1, <1>4, <1>5, Climb
  <2>2. n \in 0..n /\ n + 1 - n = 1
    BY <1>1
  <2>3. QED
    BY <2>1, <2>2
<1>7. QED
  BY <1>6

-----------------------------------------------------------------------------
(* The scanner keeps its copy, its position and its line *)

\* The copy differs from the text in blanks, none of them for a newline.
CopyOf(u, t) ==
    /\ u \in [1..Len(t) -> STRING \cup {" "}]
    /\ \A i \in 1..Len(t) : u[i] = t[i] \/ (u[i] = " " /\ t[i] # "n")

Scanner ==
    /\ text \in Seq(STRING) /\ CopyOf(out, text)
    /\ pos \in 1..Len(text) + 1 /\ line \in Nat
    /\ scan \in {"idle", "scanning", "stripped", "doubt"}
    /\ scan # "doubt" => line = Newlines(text, 1, pos - 1)

LEMMA CopyOfItself == ASSUME NEW t \in Seq(STRING) PROVE CopyOf(t, t)
<1>1. t \in [1..Len(t) -> STRING]
  OBVIOUS
<1>2. QED
  BY <1>1 DEF CopyOf

LEMMA FunctionIsSeq ==
    ASSUME NEW S, NEW n \in Nat, NEW u \in [1..n -> S]
    PROVE  u \in Seq(S) /\ Len(u) = n
  OBVIOUS

LEMMA LenOfSeq == ASSUME NEW S, NEW m \in Seq(S) PROVE Len(m) \in Nat /\ DOMAIN m = 1..Len(m)
  OBVIOUS

LEMMA CopyHasItsSize ==
    ASSUME NEW t \in Seq(STRING), NEW u, CopyOf(u, t)
    PROVE  DOMAIN u = 1..Len(t) /\ Len(t) \in Nat /\ Len(u) = Len(t)
<1> DEFINE n == Len(t)
<1>1. n \in Nat
  OBVIOUS
<1>2. u \in [1..n -> STRING \cup {" "}]
  BY DEF CopyOf
<1> HIDE DEF n
<1>3. DOMAIN u = 1..n
  BY <1>2, Zenon
<1>4. \A S : u \in [1..n -> S] => Len(u) = n
  BY <1>1, FunctionIsSeq
<1>5. Len(u) = n
  BY <1>2, <1>4, Zenon
<1>6. QED
  BY <1>1, <1>3, <1>5 DEF n

LEMMA BlankIsCopy ==
    ASSUME NEW t \in Seq(STRING), NEW u, CopyOf(u, t), NEW a \in Int, NEW b \in Int
    PROVE  CopyOf(Blank(u, a, b), t)
<1>1. DOMAIN u = 1..Len(t)
  BY DEF CopyOf
<1>2. Blank(u, a, b) = [i \in 1..Len(t) |-> IF i \in a..b /\ u[i] # "n" THEN " " ELSE u[i]]
  BY <1>1 DEF Blank
<1>3. ASSUME NEW i \in 1..Len(t)
      PROVE  /\ (IF i \in a..b /\ u[i] # "n" THEN " " ELSE u[i]) \in STRING \cup {" "}
             /\ Blank(u, a, b)[i] = t[i] \/ (Blank(u, a, b)[i] = " " /\ t[i] # "n")
  <2>1. u[i] \in STRING \cup {" "} /\ (u[i] = t[i] \/ (u[i] = " " /\ t[i] # "n"))
    BY DEF CopyOf
  <2>2. QED
    BY <1>2, <2>1
<1>4. QED
  BY <1>2, <1>3 DEF CopyOf

\* No byte under a marker is a newline.
LEMMA MarkerHasNoNewline ==
    ASSUME NEW t, NEW p \in Nat, NEW m, Marker(m), At(t, p, m)
    PROVE  \A i \in p..p + Len(m) - 1 : t[i] # "n"
<1>1. Len(m) \in Nat
  BY DEF Marker
<1>2. ASSUME NEW i \in p..p + Len(m) - 1 PROVE t[i] # "n"
  <2>1. i - p + 1 \in 1..Len(m) /\ p + (i - p + 1) - 1 = i
    BY <1>1
  <2>2. t[i] = m[i - p + 1]
    BY <2>1 DEF At
  <2>3. QED
    BY <2>1, <2>2 DEF Marker
<1>3. QED
  BY <1>2

\* The scanner moves on by one span, and its line by the newlines in it.
LEMMA Advance ==
    ASSUME Scanner, scan = "scanning", NEW q \in pos..Len(text) + 1,
           text' = text, CopyOf(out', text), pos' = q,
           line' = line + Newlines(text, pos, q - 1), scan' = scan
    PROVE  Scanner'
<1>1. /\ pos \in Nat /\ pos >= 1 /\ line = Newlines(text, 1, pos - 1) /\ Len(text) \in Nat
      /\ text \in Seq(STRING)
  BY DEF Scanner
<1>2. q \in Nat /\ pos <= q /\ q <= Len(text) + 1
  BY <1>1
<1>3. Newlines(text, 1, q - 1) = Newlines(text, 1, pos - 1) + Newlines(text, pos, q - 1)
  <2>1. pos - 1 + 1 = pos /\ pos - 1 \in Int /\ q - 1 \in Int
    BY <1>1, <1>2
  <2>2. 1 <= pos - 1 + 1 /\ pos - 1 <= q - 1
    BY <1>1, <1>2
  <2>3. QED
    BY <2>1, <2>2, NewlinesSplit
<1>4. Newlines(text, 1, q - 1) \in Nat
  <2>1. 1 \in Int /\ q - 1 \in Int
    BY <1>2
  <2>2. QED
    BY <2>1, NewlinesType
<1>5. q \in 1..Len(text) + 1
  BY <1>1, <1>2
<1>6. QED
  BY <1>1, <1>3, <1>4, <1>5 DEF Scanner

\* What an open line shows to the scanner.
LEMMA Looks ==
    ASSUME Scanner, Looking
    PROVE  /\ pos \in 1..Len(text) /\ pos \in Nat /\ Len(text) \in Nat /\ scan = "scanning"
           /\ text \in Seq(STRING) /\ CopyOf(out, text)
  BY DEF Scanner, Looking

\* The markers of the block comment and of the string that are found.
LEMMA BlockMarkers ==
    ASSUME LanguageShape(lang), AtBlock # 0
    PROVE  /\ AtBlock \in DOMAIN lang.blockComments
           /\ Marker(lang.blockComments[AtBlock][1]) /\ Marker(lang.blockComments[AtBlock][2])
           /\ Len(lang.blockComments[AtBlock][1]) \in Nat /\ Len(lang.blockComments[AtBlock][2]) \in Nat
           /\ At(text, pos, lang.blockComments[AtBlock][1])
<1> DEFINE opens == [k \in DOMAIN lang.blockComments |-> lang.blockComments[k][1]]
<1>1. lang.blockComments \in Seq(Seq(STRING) \X Seq(STRING))
  BY DEF LanguageShape
<1>2. opens \in Seq(Seq(STRING)) /\ DOMAIN opens = DOMAIN lang.blockComments
  <2>1. \A k \in 1..Len(lang.blockComments) : lang.blockComments[k][1] \in Seq(STRING)
    BY <1>1
  <2>2. /\ Len(lang.blockComments) \in Nat
        /\ opens = [k \in 1..Len(lang.blockComments) |-> lang.blockComments[k][1]]
    BY <1>1
  <2>3. opens \in [1..Len(lang.blockComments) -> Seq(STRING)]
    BY <2>1, <2>2
  <2>4. DOMAIN opens = 1..Len(lang.blockComments) /\ DOMAIN lang.blockComments = 1..Len(lang.blockComments)
    BY <1>1, <2>2
  <2>5. opens \in Seq(Seq(STRING))
    <3> HIDE DEF opens
    <3>1. QED
      BY <2>2, <2>3
  <2>6. QED
    BY <2>4, <2>5
<1>3. AtBlock \in DOMAIN opens /\ At(text, pos, opens[AtBlock])
  BY <1>2, FirstAtSpec DEF AtBlock
<1>4. AtBlock \in DOMAIN lang.blockComments /\ At(text, pos, lang.blockComments[AtBlock][1])
  BY <1>2, <1>3
<1>5. Marker(lang.blockComments[AtBlock][1]) /\ Marker(lang.blockComments[AtBlock][2])
  BY <1>4 DEF LanguageShape
<1>6. QED
  BY <1>4, <1>5 DEF Marker

LEMMA StringFound ==
    ASSUME LanguageShape(lang), StringAt(pos) # 0
    PROVE  LET s == lang.strings[StringAt(pos)]
           IN  /\ s \in StringSyntax /\ Marker(s.open) /\ Marker(s.close)
               /\ s.escape \in {<<>>, <<"b">>} /\ At(text, pos, s.open)
<1>1. StringAt(pos) \in DOMAIN lang.strings /\ At(text, pos, lang.strings[StringAt(pos)].open)
  BY StringAtSpec
<1>2. lang.strings \in Seq(StringSyntax)
  BY DEF LanguageShape
<1>3. QED
  BY <1>1, <1>2 DEF LanguageShape

LEMMA StripKeepsScanner ==
    ASSUME Scanner, LanguageShape(lang), StripStep
    PROVE  Scanner'
<1>1. ASSUME Doubt PROVE Scanner'
  BY <1>1 DEF Doubt, Scanner
<1>2. CASE Newline
  <2>1. /\ pos \in 1..Len(text) /\ pos \in Nat /\ Len(text) \in Nat /\ scan = "scanning"
        /\ text \in Seq(STRING) /\ CopyOf(out, text)
    BY <1>2, Looks DEF Newline
  <2>2. Newlines(text, pos, pos) = 1 /\ pos + 1 - 1 = pos /\ pos + 1 \in pos..Len(text) + 1
    BY <1>2, <2>1, NewlinesOne DEF Newline
  <2>3. QED
    BY <1>2, <2>1, <2>2, Advance DEF Newline
<1>3. CASE GuardedByte \/ CodeByte
  <2>1. Looking /\ text[pos] # "n" /\ text' = text /\ out' = out /\ scan' = scan
        /\ pos' = pos + 1 /\ line' = line
    BY <1>3 DEF GuardedByte, CodeByte, OpenLine
  <2>2. /\ pos \in 1..Len(text) /\ pos \in Nat /\ Len(text) \in Nat /\ scan = "scanning"
        /\ text \in Seq(STRING) /\ CopyOf(out, text)
    BY <2>1, Looks
  <2>3. Newlines(text, pos, pos) = 0 /\ pos + 1 - 1 = pos /\ pos + 1 \in pos..Len(text) + 1
    BY <2>1, <2>2, NewlinesOne
  <2>4. line' = line + Newlines(text, pos, pos + 1 - 1)
    BY <2>1, <2>3 DEF Scanner
  <2>5. QED
    BY <2>1, <2>2, <2>3, <2>4, Advance
<1>4. CASE LineComment
  <2> DEFINE end == LineEnd(text, pos)
  <2>1. /\ pos \in 1..Len(text) /\ pos \in Nat /\ Len(text) \in Nat /\ scan = "scanning"
        /\ text \in Seq(STRING) /\ CopyOf(out, text)
    BY <1>4, Looks DEF LineComment, OpenLine
  <2>2. end \in pos..Len(text) + 1 /\ \A i \in pos..end - 1 : text[i] # "n"
    BY <2>1, LineEndSpec
  <2>3. end - 1 \in Int /\ end \in Int
    BY <2>1, <2>2
  <2>4. Newlines(text, pos, end - 1) = 0
    BY <2>1, <2>2, <2>3, NewlinesEmpty
  <2>5. CopyOf(Blank(out, pos, end - 1), text)
    BY <2>1, <2>3, BlankIsCopy
  <2>6. CASE ~Doubt
    <3>1. /\ out' = out \/ out' = Blank(out, pos, end - 1)
          /\ pos' = end /\ text' = text /\ line' = line /\ scan' = scan
      BY <1>4, <2>6 DEF LineComment
    <3>2. line' = line + Newlines(text, pos, end - 1)
      BY <2>4, <3>1 DEF Scanner
    <3>3. QED
      <4> HIDE DEF end
      <4>1. QED
        BY <2>1, <2>2, <2>5, <3>1, <3>2, Advance
  <2>7. QED
    BY <1>1, <2>6
<1>5. CASE BlockComment
  <2> DEFINE open == lang.blockComments[AtBlock][1]
             cl == lang.blockComments[AtBlock][2]
             found == Find(text, pos + Len(open), cl)
             last == found + Len(cl) - 1
  <2>1. /\ pos \in 1..Len(text) /\ pos \in Nat /\ Len(text) \in Nat /\ scan = "scanning"
        /\ text \in Seq(STRING) /\ CopyOf(out, text)
    BY <1>5, Looks DEF BlockComment, OpenLine
  <2>2. CASE ~Doubt
    <3>1. /\ AtBlock # 0 /\ found # 0
          /\ out' = out \/ out' = Blank(out, pos, last)
          /\ pos' = last + 1 /\ text' = text /\ scan' = scan
          /\ line' = line + Newlines(text, pos, last)
      BY <1>5, <2>2 DEF BlockComment
    <3>2. Len(open) \in Nat /\ Len(cl) \in Nat
      BY BlockMarkers, <3>1
    <3>3. found \in pos + Len(open)..Len(text) /\ At(text, found, cl)
      <4>1. pos + Len(open) \in Nat \ {0}
        BY <2>1, <3>2
      <4> HIDE DEF open, cl
      <4>2. QED
        BY <2>1, <3>1, <4>1, FindSpec
    <3>4. last \in Int /\ last + 1 \in pos..Len(text) + 1 /\ last + 1 - 1 = last
      <4> HIDE DEF open, cl, found
      <4>1. QED
        BY <2>1, <3>2, <3>3 DEF At
    <3>5. CopyOf(Blank(out, pos, last), text)
      BY <2>1, <3>4, BlankIsCopy
    <3>6. QED
      <4> HIDE DEF last
      <4>1. QED
        BY <2>1, <3>1, <3>4, <3>5, Advance
  <2>3. QED
    BY <1>1, <2>2
<1>6. CASE String
  <2> DEFINE s == lang.strings[AtString]
             r == StringEnd(pos, s)
  <2>1. /\ pos \in 1..Len(text) /\ pos \in Nat /\ Len(text) \in Nat /\ scan = "scanning"
        /\ text \in Seq(STRING) /\ CopyOf(out, text)
    BY <1>6, Looks DEF String, OpenLine
  <2>2. CASE ~Doubt
    <3>1. /\ AtString # 0 /\ r.end # 0
          /\ out' = out /\ pos' = r.end /\ text' = text /\ scan' = scan
          /\ line' = line + r.newlines
      BY <1>6, <2>2 DEF String
    <3>2. /\ s \in StringSyntax /\ Marker(s.open) /\ Marker(s.close)
          /\ s.escape \in {<<>>, <<"b">>} /\ At(text, pos, s.open)
      BY StringFound, <3>1 DEF AtString
    <3>3. QED
      <4> HIDE DEF s
      <4> DEFINE b == pos + Len(s.open)
                 e == r.end
      <4>1. Len(s.open) \in Nat /\ b \in Nat /\ b \in pos..Len(text) + 1 /\ b \in 1..Len(text) + 1
        BY <2>1, <3>2 DEF Marker, At
      <4>2. \A i \in pos..b - 1 : text[i] # "n"
        BY <2>1, <3>2, MarkerHasNoNewline
      <4>3. r = StringRest(s)[b]
        BY DEF StringEnd
      <4> HIDE DEF b
      <4>4. e \in b..Len(text) + 1 /\ r.newlines = Newlines(text, b, e - 1) /\ r.newlines \in Nat
        <5> HIDE DEF r
        <5>1. QED
          BY <2>1, <3>1, <3>2, <4>1, <4>3, StringRestSpec
      <4>5. Newlines(text, pos, e - 1) = r.newlines
        <5> HIDE DEF r, e
        <5>1. e \in Int /\ pos <= b /\ b <= e
          BY <2>1, <4>1, <4>4
        <5>2. b - 1 + 1 = b /\ b - 1 \in Int /\ e - 1 \in Int /\ pos <= b - 1 + 1 /\ b - 1 <= e - 1
          BY <2>1, <4>1, <5>1
        <5>3. Newlines(text, pos, e - 1) = Newlines(text, pos, b - 1) + Newlines(text, b, e - 1)
          BY <2>1, <5>2, NewlinesSplit
        <5>4. Newlines(text, pos, b - 1) = 0
          BY <2>1, <4>2, <5>2, NewlinesEmpty
        <5>5. QED
          BY <4>4, <5>3, <5>4
      <4>6. e \in pos..Len(text) + 1
        BY <2>1, <4>1, <4>4
      <4> HIDE DEF r, e
      <4>7. QED
        BY <2>1, <3>1, <4>5, <4>6, Advance DEF e
  <2>3. QED
    BY <1>1, <2>2
<1>7. CASE Stripped
  BY <1>7 DEF Stripped, Scanner
<1>8. QED
  BY <1>2, <1>3, <1>4, <1>5, <1>6, <1>7 DEF StripStep

-----------------------------------------------------------------------------
(* Joining lines keeps every byte but the splices *)

\* Flattening a sequence is joining one element after the other.
LEMMA FlattenBySteps ==
    ASSUME NEW S, NEW seqs \in Seq(Seq(S)), Len(seqs) # 0
    PROVE  \E f \in [1..Len(seqs) -> Seq(S)] :
              /\ f[1] = seqs[1] /\ FlattenSeq(seqs) = f[Len(seqs)]
              /\ \A i \in 2..Len(seqs) : f[i] = f[i - 1] \o seqs[i]
<1> DEFINE n == Len(seqs)
           Body(f, i) == IF i = 1 THEN seqs[i] ELSE f[i - 1] \o seqs[i]
           Flat(k) == \E f : f = [i \in 1..k + 1 |-> Body(f, i)]
           T == {k \in 0..n - 1 : Flat(k)}
<1>1. n \in Nat /\ n >= 1 /\ n - 1 \in Nat
  OBVIOUS
<1>2. 0 \in T
  <2> DEFINE f == [i \in 1..0 + 1 |-> seqs[i]]
  <2>1. f = [i \in 1..0 + 1 |-> Body(f, i)]
    OBVIOUS
  <2>2. Flat(0)
    <3> HIDE DEF f, Body
    <3>1. QED
      BY <2>1
  <2>3. QED
    <3> HIDE DEF Flat
    <3>1. QED
      BY <1>1, <2>2
<1>3. ASSUME NEW k \in 0..n - 1 - 1, k \in T PROVE k + 1 \in T
  <2>1. PICK g : g = [i \in 1..k + 1 |-> Body(g, i)]
    BY <1>3
  <2>2. k \in Nat /\ k + 1 \in 0..n - 1
    BY <1>1
  <2> DEFINE f == [i \in 1..k + 1 + 1 |-> IF i = k + 2 THEN Body(g, i) ELSE g[i]]
  <2>3. ASSUME NEW i \in 1..k + 1 + 1 PROVE f[i] = Body(f, i)
    <3>1. i = 1 \/ (i - 1 \in 1..k + 1 + 1 /\ i - 1 # k + 2)
      BY <2>2
    <3>2. i # 1 => f[i - 1] = g[i - 1]
      BY <3>1
    <3>3. Body(f, i) = Body(g, i)
      BY <3>2
    <3>4. CASE i = k + 2
      BY <3>3, <3>4
    <3>5. CASE i # k + 2
      <4>1. i \in 1..k + 1
        BY <2>2, <3>5
      <4>2. g[i] = Body(g, i)
        <5> HIDE DEF Body
        <5>1. QED
          BY <2>1, <4>1
      <4>3. f[i] = g[i]
        BY <3>5
      <4>4. QED
        BY <3>3, <4>2, <4>3
    <3>6. QED
      BY <3>4, <3>5
  <2>4. f = [i \in 1..k + 1 + 1 |-> Body(f, i)]
    <3> HIDE DEF Body
    <3>1. f = [i \in 1..k + 1 + 1 |-> f[i]]
      OBVIOUS
    <3> HIDE DEF f
    <3>2. QED
      BY <2>3, <3>1
  <2>5. Flat(k + 1)
    <3> HIDE DEF f, Body
    <3>1. QED
      BY <2>4
  <2>6. QED
    <3> HIDE DEF Flat
    <3>1. QED
      BY <2>2, <2>5
<1>4. \E f : f = [i \in 1..n |-> Body(f, i)]
  <2>1. n - 1 \in T
    <3> HIDE DEF T
    <3>1. \A k \in 0..n - 1 : k \in T
      BY <1>1, <1>2, <1>3, Climb
    <3>2. QED
      BY <1>1, <3>1
  <2>2. n - 1 + 1 = n
    BY <1>1
  <2> HIDE DEF Body
  <2>3. QED
    BY <2>1, <2>2
<1> DEFINE f == CHOOSE f : f = [i \in 1..n |-> Body(f, i)]
<1>5. f = [i \in 1..n |-> Body(f, i)]
  <2> HIDE DEF Body
  <2>1. QED
    BY <1>4
<1>6. FlattenSeq(seqs) = f[n]
  BY DEF FlattenSeq
<1> HIDE DEF f
<1>7. \A i \in 1..n : f[i] = Body(f, i)
  <2> HIDE DEF Body
  <2>1. QED
    BY <1>5
<1>8. f[1] = seqs[1] /\ \A i \in 2..n : f[i] = f[i - 1] \o seqs[i]
  <2>1. 1 \in 1..n
    BY <1>1
  <2>2. f[1] = seqs[1]
    BY <1>7, <2>1
  <2>3. ASSUME NEW i \in 2..n PROVE f[i] = f[i - 1] \o seqs[i]
    <3>1. i \in 1..n /\ i # 1
      BY <1>1
    <3>2. QED
      BY <1>7, <3>1
  <2>4. QED
    BY <2>2, <2>3
<1>9. \A k \in 0..n - 1 : k \in {j \in 0..n - 1 : f[j + 1] \in Seq(S)}
  <2> DEFINE U == {j \in 0..n - 1 : f[j + 1] \in Seq(S)}
  <2>1. 0 \in U
    BY <1>1, <1>8
  <2>2. ASSUME NEW k \in 0..n - 1 - 1, k \in U PROVE k + 1 \in U
    <3> DEFINE i == k + 1 + 1
    <3>1. i \in 2..n /\ i \in 1..n /\ i - 1 = k + 1 /\ k + 1 \in 0..n - 1
      BY <1>1
    <3>2. f[k + 1] \in Seq(S)
      BY <2>2
    <3>3. f[i] \in Seq(S)
      <4> HIDE DEF i, U
      <4>1. f[i] = f[i - 1] \o seqs[i]
        BY <1>8, <3>1
      <4>2. seqs[i] \in Seq(S)
        BY <3>1
      <4>3. QED
        BY <3>1, <3>2, <4>1, <4>2
    <3>4. QED
      BY <3>1, <3>3
  <2> HIDE DEF U
  <2>3. \A k \in 0..n - 1 : k \in U
    BY <1>1, <2>1, <2>2, Climb
  <2>4. QED
    BY <2>3 DEF U
<1>10. f \in [1..n -> Seq(S)]
  <2>1. ASSUME NEW i \in 1..n PROVE f[i] \in Seq(S)
    <3>1. i - 1 \in 0..n - 1 /\ i - 1 + 1 = i
      BY <1>1
    <3>2. QED
      BY <1>9, <3>1
  <2>2. f = [i \in 1..n |-> f[i]]
    <3> HIDE DEF Body
    <3>1. QED
      BY <1>5
  <2>3. QED
    BY <2>1, <2>2
<1>11. QED
  BY <1>6, <1>8, <1>10

\* Where lines are joined, a text stays a text.
LEMMA CollapseType ==
    ASSUME NEW t \in Seq(STRING)
    PROVE  CollapseSplices(t) \in Seq(STRING)
<1> DEFINE n == Len(t)
           spliced == {i \in 1..Len(t) - 1 : t[i] = "b" /\ t[i + 1] = "n"}
           seqs == [i \in DOMAIN t |-> IF i \in spliced \/ i - 1 \in spliced THEN <<>> ELSE <<t[i]>>]
<1>1. n \in Nat /\ DOMAIN t = 1..n /\ \A i \in 1..n : t[i] \in STRING
  OBVIOUS
<1>2. ASSUME NEW i \in 1..n PROVE seqs[i] \in Seq(STRING)
  <2>1. seqs[i] = <<>> \/ seqs[i] = <<t[i]>>
    BY <1>1
  <2>2. t[i] \in STRING
    BY <1>1
  <2> HIDE DEF seqs, spliced
  <2>3. CASE seqs[i] = <<>>
    BY <2>3
  <2>4. CASE seqs[i] = <<t[i]>>
    BY <2>2, <2>4
  <2>5. QED
    BY <2>1, <2>3, <2>4
<1>3. seqs \in [1..n -> Seq(STRING)] /\ DOMAIN seqs = 1..n
  <2>1. seqs = [i \in 1..n |-> seqs[i]] /\ DOMAIN seqs = 1..n
    BY <1>1
  <2> HIDE DEF seqs
  <2>2. QED
    BY <1>2, <2>1
<1>4. CollapseSplices(t) = FlattenSeq(seqs)
  BY DEF CollapseSplices
<1> HIDE DEF seqs, n
<1>5. seqs \in Seq(Seq(STRING)) /\ Len(seqs) = n
  BY <1>1, <1>3
<1>6. CASE n = 0
  <2>1. FlattenSeq(seqs) = seqs
    BY <1>5, <1>6 DEF FlattenSeq
  <2>2. seqs \in Seq(STRING)
    BY <1>3, <1>6
  <2>3. QED
    BY <1>4, <2>1, <2>2
<1>7. CASE n # 0
  <2>1. PICK f \in [1..n -> Seq(STRING)] : FlattenSeq(seqs) = f[n]
    BY <1>5, <1>7, FlattenBySteps, ZenonT(30)
  <2>2. n \in 1..n
    BY <1>1, <1>7
  <2>3. QED
    BY <1>4, <2>1, <2>2
<1>8. QED
  BY <1>6, <1>7

-----------------------------------------------------------------------------
(* The walk over the files *)

File == [path : Seq(STRING), ext : STRING, kind : Kinds, text : Seq(STRING)]

\* The files the walk has looked at, the one being counted included.
Seen == IF pc = "count" THEN next ELSE next - 1

Entry ==
    /\ language \in DOMAIN Languages
    /\ files \in FileLists(language) /\ commands \in Commands(language)

Walk ==
    /\ next \in 1..Len(files) + 1
    /\ pc \in {"walk", "count", "scored", "failed"}
    /\ pc = "count" =>
          /\ next <= Len(files) /\ text = Bytes(files[next])
          /\ Admission(files[next]) = "visited"
    /\ pc = "scored" => next = Len(files) + 1

\* The score so far is that of the files seen.
Measured ==
    /\ score.files \in 0..Len(files) /\ score.vendored \in Nat
    /\ pc = "failed" => score = NoScore
    /\ pc # "failed" =>
          /\ \A k \in Shipped : k <= Seen => files[k].kind = "text"
          /\ score.files = Cardinality({k \in Shipped : k <= Seen})
          /\ score.vendored = VendoredUpTo[Seen]

HitType(h) == h.hazard \in lang.hazards /\ h.line \in Nat \ {0} /\ h.at \in Nat \ {0}

\* The notes and hits so far are of the files counted, or of the commands.
Located ==
    /\ score.notes \subseteq 1..next - 1
    /\ \A h \in score.hits :
           /\ h.file \in 1..Len(files) + Len(commands) /\ HitType(h)
           /\ pc # "scored" => h.file \in 1..next - 1
           /\ h.file \in DOMAIN files /\ Bytes(files[h.file]) = files[h.file].text =>
                  Stands(h, files[h.file].text)

Base == Entry /\ Scanner /\ Walk /\ Measured /\ Located

LEMMA EntryFacts ==
    ASSUME Entry
    PROVE  /\ LanguageShape(lang) /\ files \in Seq(File) /\ commands \in Seq(Seq(STRING))
           /\ Len(files) \in Nat /\ DOMAIN files = 1..Len(files)
           /\ Len(commands) \in Nat /\ DOMAIN commands = 1..Len(commands)
           /\ \A k \in 1..Len(files) : files[k] \in File
<1>1. LanguageShape(lang)
  BY LanguagesAssumption DEF Entry, lang
<1>2. files \in Seq(File) /\ commands \in Seq(Seq(STRING))
  BY EntriesAssumption DEF Entry, File
<1>3. QED
  BY <1>1, <1>2

LEMMA BytesType ==
    ASSUME NEW f \in File
    PROVE  Bytes(f) \in Seq(STRING) /\ Reader(f) \in Seq(STRING)
<1>1. f.text \in Seq(STRING)
  BY DEF File
<1>2. QED
  BY <1>1, CollapseType DEF Bytes, Reader

\* The sum over the first files satisfies its recursion.
LEMMA VendoredUpToSpec ==
    ASSUME files \in Seq(File)
    PROVE  /\ VendoredUpTo[0] = 0
           /\ \A k \in 0..Len(files) : VendoredUpTo[k] \in Nat
           /\ \A k \in 1..Len(files) : VendoredUpTo[k] = VendoredUpTo[k - 1] +
                 (IF k \in Shipped /\ IsVendored(files[k].path) THEN Len(files[k].text) ELSE 0)
<1> DEFINE n == Len(files)
           Size(k) == IF k \in Shipped /\ IsVendored(files[k].path) THEN Len(files[k].text) ELSE 0
           Body(f, k) == IF k = 0 THEN 0 ELSE f[k - 1] + Size(k)
           Sums(m) == \E f : f = [k \in 0..m |-> Body(f, k)]
           T == {m \in 0..n : Sums(m)}
<1>1. n \in Nat
  OBVIOUS
<1>2. ASSUME NEW k \in 1..n PROVE Size(k) \in Nat
  <2>1. files[k] \in File
    OBVIOUS
  <2>2. files[k].text \in Seq(STRING)
    BY <2>1 DEF File
  <2>3. QED
    BY <2>2
<1> HIDE DEF Size
<1>3. 0 \in T
  <2> DEFINE f == [k \in 0..0 |-> 0]
  <2>1. f = [k \in 0..0 |-> Body(f, k)]
    OBVIOUS
  <2>2. Sums(0)
    <3> HIDE DEF f, Body
    <3>1. QED
      BY <2>1
  <2>3. QED
    <3> HIDE DEF Sums
    <3>1. QED
      BY <1>1, <2>2
<1>4. ASSUME NEW m \in 0..n - 1, m \in T PROVE m + 1 \in T
  <2>1. PICK g : g = [k \in 0..m |-> Body(g, k)]
    BY <1>4
  <2>2. m \in Nat /\ m + 1 \in 0..n
    BY <1>1
  <2> DEFINE f == [k \in 0..m + 1 |-> IF k = m + 1 THEN Body(g, k) ELSE g[k]]
  <2>3. ASSUME NEW k \in 0..m + 1 PROVE f[k] = Body(f, k)
    <3>1. k = 0 \/ (k - 1 \in 0..m + 1 /\ k - 1 # m + 1)
      BY <2>2
    <3>2. Body(f, k) = Body(g, k)
      BY <3>1
    <3>3. CASE k = m + 1
      BY <3>2, <3>3
    <3>4. CASE k # m + 1
      <4>1. k \in 0..m
        BY <2>2, <3>4
      <4>2. g[k] = Body(g, k)
        <5> HIDE DEF Body
        <5>1. QED
          BY <2>1, <4>1
      <4>3. f[k] = g[k]
        BY <3>4
      <4>4. QED
        BY <3>2, <4>2, <4>3
    <3>5. QED
      BY <3>3, <3>4
  <2>4. f = [k \in 0..m + 1 |-> Body(f, k)]
    <3> HIDE DEF Body
    <3>1. f = [k \in 0..m + 1 |-> f[k]]
      OBVIOUS
    <3> HIDE DEF f
    <3>2. QED
      BY <2>3, <3>1
  <2>5. Sums(m + 1)
    <3> HIDE DEF f, Body
    <3>1. QED
      BY <2>4
  <2>6. QED
    <3> HIDE DEF Sums
    <3>1. QED
      BY <2>2, <2>5
<1>5. \E f : f = [k \in 0..n |-> Body(f, k)]
  <2>1. n \in T
    <3> HIDE DEF T
    <3>1. \A k \in 0..n : k \in T
      BY <1>1, <1>3, <1>4, Climb
    <3>2. QED
      BY <1>1, <3>1
  <2> HIDE DEF Body
  <2>2. QED
    BY <2>1
<1>6. VendoredUpTo = [k \in 0..n |-> Body(VendoredUpTo, k)]
  BY <1>5 DEF VendoredUpTo, Size
<1>7. \A k \in 0..n : VendoredUpTo[k] = Body(VendoredUpTo, k)
  <2> HIDE DEF Body
  <2>1. QED
    BY <1>6
<1>8. VendoredUpTo[0] = 0 /\ \A k \in 1..n : VendoredUpTo[k] = VendoredUpTo[k - 1] + Size(k)
  BY <1>1, <1>7
<1>9. \A k \in 0..n : VendoredUpTo[k] \in Nat
  <2> DEFINE U == {k \in 0..n : VendoredUpTo[k] \in Nat}
  <2>1. 0 \in U
    BY <1>1, <1>8
  <2>2. ASSUME NEW k \in 0..n - 1, k \in U PROVE k + 1 \in U
    <3>1. k + 1 \in 1..n /\ k + 1 - 1 = k /\ k + 1 \in 0..n
      BY <1>1
    <3>2. VendoredUpTo[k + 1] = VendoredUpTo[k] + Size(k + 1)
      BY <1>8, <3>1
    <3>3. Size(k + 1) \in Nat /\ VendoredUpTo[k] \in Nat
      BY <1>2, <2>2, <3>1
    <3>4. QED
      BY <3>1, <3>2, <3>3
  <2> HIDE DEF U
  <2>3. \A k \in 0..n : k \in U
    BY <1>1, <2>1, <2>2, Climb
  <2>4. QED
    BY <2>3 DEF U
<1>10. QED
  BY <1>8, <1>9 DEF Size

LEMMA EntryKept ==
    ASSUME Entry, UNCHANGED entryVars
    PROVE  /\ Entry' /\ lang' = lang /\ files' = files /\ commands' = commands
           /\ Shipped' = Shipped /\ VendoredUpTo' = VendoredUpTo
<1>1. language' = language /\ files' = files /\ commands' = commands
  BY DEF entryVars
<1>2. Shipped' = Shipped
  BY <1>1 DEF Shipped
<1>3. QED
  BY <1>1, <1>2 DEF Entry, lang, VendoredUpTo

LEMMA InitBase == Init => Base
<1> SUFFICES ASSUME Init PROVE Base
  OBVIOUS
<1>1. Entry
  BY DEF Init, Entry
<1>2. files \in Seq(File) /\ Len(files) \in Nat
  BY <1>1, EntryFacts
<1>3. Scanner
  <2>1. text = <<>> /\ text \in Seq(STRING) /\ Len(text) = 0 /\ CopyOf(text, text)
    <3>1. text = <<>>
      BY DEF Init, StripInit
    <3>2. text \in Seq(STRING) /\ Len(text) = 0
      BY <3>1
    <3>3. QED
      BY <3>1, <3>2, CopyOfItself
  <2>2. Newlines(text, 1, 1 - 1) = 0
    BY NewlinesEmpty
  <2>3. QED
    BY <2>1, <2>2 DEF Init, StripInit, Scanner
<1>4. Walk
  BY <1>2 DEF Init, Walk
<1>5. Measured
  <2>1. next = 1 /\ pc = "walk" /\ score = NoScore /\ Seen = 0
    BY DEF Init, Seen
  <2>2. score.files = 0 /\ score.vendored = 0
    BY <2>1 DEF NoScore
  <2>3. \A k \in Shipped : ~(k <= 0)
    BY <1>2 DEF Shipped
  <2>4. {k \in Shipped : k <= 0} = {}
    BY <2>3
  <2>5. Cardinality({k \in Shipped : k <= 0}) = 0
    BY <2>4, FS_EmptySet
  <2>6. VendoredUpTo[0] = 0
    BY <1>2, VendoredUpToSpec
  <2>7. QED
    BY <1>2, <2>1, <2>2, <2>3, <2>5, <2>6 DEF Measured
<1>6. Located
  BY DEF Init, Located, NoScore
<1>7. QED
  BY <1>1, <1>3, <1>4, <1>5, <1>6 DEF Base

\* A scan hits names of its text.
LEMMA HitsOf ==
    ASSUME LanguageShape(lang), NEW S, NEW u \in Seq(S), NEW name, NEW h \in Hits(name, u)
    PROVE  /\ h.file = name /\ HitType(h) /\ h.at \in 1..Len(u) /\ At(u, h.at, h.hazard.name)
           /\ \/ h.line = 1 + Newlines(u, 1, h.at - 1)
              \/ /\ h.hazard.takes /\ h.at > 1
                 /\ h.line = 1 + Newlines(u, 1, h.at - 2)
<1>1. PICK i \in DOMAIN u, z \in lang.hazards :
          /\ MatchesAt(u, i, z)
          /\ h = [file |-> name, hazard |-> z, line |-> LineOf(u, i, z), at |-> i]
  BY DEF Hits
<1>2. i \in 1..Len(u) /\ Len(u) \in Nat
  OBVIOUS
<1>3. h.file = name /\ h.hazard = z /\ h.line = LineOf(u, i, z) /\ h.at = i
  BY <1>1
<1>4. At(u, i, z.name)
  BY <1>1 DEF MatchesAt
<1>5. Newlines(u, 1, i - 1) \in Nat /\ Newlines(u, 1, i - 2) \in Nat
  <2>1. i - 1 \in Int /\ i - 2 \in Int /\ 1 \in Int
    BY <1>2
  <2>2. QED
    BY <2>1, NewlinesType
<1>6. \/ LineOf(u, i, z) = 1 + Newlines(u, 1, i - 1)
      \/ z.takes /\ i > 1 /\ LineOf(u, i, z) = 1 + Newlines(u, 1, i - 2)
  <2>1. i - 1 - 1 = i - 2
    BY <1>2
  <2>2. QED
    BY <2>1 DEF LineOf
<1>7. LineOf(u, i, z) \in Nat \ {0}
  BY <1>5, <1>6
<1>8. QED
  BY <1>2, <1>3, <1>4, <1>6, <1>7 DEF HitType

\* A name that stands in a copy stands in the text.
LEMMA NameInCopy ==
    ASSUME LanguageShape(lang), NEW t \in Seq(STRING), NEW u, CopyOf(u, t),
           NEW z \in lang.hazards, NEW i \in 1..Len(t), At(u, i, z.name)
    PROVE  At(t, i, z.name)
<1>1. /\ Len(u) = Len(t) /\ Len(t) \in Nat /\ DOMAIN u = 1..Len(t)
  BY CopyHasItsSize
<1> DEFINE m == z.name
           n == Len(m)
<1>2. m \in Seq(STRING) /\ \A j \in DOMAIN m : m[j] # " "
  <2>1. HazardShape(lang, z)
    BY DEF LanguageShape
  <2>2. QED
    BY <2>1 DEF HazardShape, Marker
<1>3. At(u, i, m)
  OBVIOUS
<1> HIDE DEF m
<1>4. n \in Nat /\ DOMAIN m = 1..n
  <2>1. m \in Seq(STRING)
    BY <1>2
  <2>2. QED
    BY <2>1, LenOfSeq
<1>5. i + n <= Len(t) + 1 /\ \A j \in 1..n : u[i + j - 1] = m[j]
  BY <1>1, <1>3 DEF At
<1> HIDE DEF n
<1>6. ASSUME NEW j \in 1..n PROVE t[i + j - 1] = m[j]
  <2>1. i + j - 1 \in 1..Len(t)
    BY <1>1, <1>4, <1>5
  <2>2. u[i + j - 1] = t[i + j - 1] \/ u[i + j - 1] = " "
    BY <2>1 DEF CopyOf
  <2>3. QED
    BY <1>2, <1>4, <1>5, <2>2
<1>7. QED
  BY <1>5, <1>6 DEF At, m, n

\* A scan of a copy of a text hits names that stand in the text.
LEMMA HitsAreOfText ==
    ASSUME LanguageShape(lang), NEW t \in Seq(STRING), NEW u, CopyOf(u, t), NEW name,
           NEW h \in Hits(name, u)
    PROVE  h.file = name /\ HitType(h) /\ h.at \in 1..Len(t) /\ Stands(h, t)
<1>1. /\ Len(u) = Len(t) /\ Len(t) \in Nat /\ DOMAIN u = 1..Len(t)
  BY CopyHasItsSize
<1>2. PICK S : u \in Seq(S)
  <2>1. u \in [1..Len(t) -> STRING \cup {" "}]
    BY Zenon DEF CopyOf
  <2>2. u \in Seq(STRING \cup {" "})
    BY <1>1, <2>1, FunctionIsSeq
  <2>3. QED
    BY <2>2
<1>3. /\ h.file = name /\ HitType(h) /\ h.at \in 1..Len(u) /\ At(u, h.at, h.hazard.name)
      /\ \/ h.line = 1 + Newlines(u, 1, h.at - 1)
         \/ /\ h.hazard.takes /\ h.at > 1
            /\ h.line = 1 + Newlines(u, 1, h.at - 2)
  BY <1>2, HitsOf
<1> DEFINE i == h.at
<1>4. i \in 1..Len(t)
  BY <1>1, <1>3
<1> HIDE DEF i
<1>5. At(t, i, h.hazard.name)
  BY <1>3, <1>4, NameInCopy DEF HitType, i
<1>6. ASSUME NEW k \in 0..i - 1 PROVE Newlines(u, 1, k) = Newlines(t, 1, k)
  <2>1. ASSUME NEW j \in 1..k PROVE u[j] = "n" <=> t[j] = "n"
    <3>1. j \in 1..Len(t)
      BY <1>1, <1>4
    <3>2. QED
      BY <3>1 DEF CopyOf
  <2>2. k \in Int /\ 1 \in Int
    BY <1>4
  <2>3. QED
    BY <2>1, <2>2, NewlinesSame
<1>7. CASE h.line = 1 + Newlines(u, 1, i - 1)
  <2>1. i - 1 \in 0..i - 1
    BY <1>4
  <2>2. h.line = 1 + Newlines(t, 1, i - 1)
    BY <1>6, <1>7, <2>1
  <2>3. QED
    BY <1>3, <1>4, <1>5, <2>2 DEF Stands, i
<1>8. CASE h.hazard.takes /\ i > 1 /\ h.line = 1 + Newlines(u, 1, i - 2)
  <2>1. i - 2 \in 0..i - 1 /\ i - 1 \in Int /\ i - 2 \in Int /\ i - 2 + 1 = i - 1 /\ 1 <= i - 2 + 1 /\ i - 2 <= i - 1
    BY <1>4, <1>8
  <2>2. h.line = 1 + Newlines(t, 1, i - 2)
    BY <1>6, <1>8, <2>1
  <2>3. Newlines(t, 1, i - 1) = Newlines(t, 1, i - 2) + Newlines(t, i - 1, i - 1)
    <3>1. Newlines(t, 1, i - 1) = Newlines(t, 1, i - 2) + Newlines(t, i - 2 + 1, i - 1)
      BY <2>1, NewlinesSplit
    <3>2. QED
      BY <2>1, <3>1
  <2>4. Newlines(t, i - 1, i - 1) = IF t[i - 1] = "n" THEN 1 ELSE 0
    BY <2>1, NewlinesOne
  <2>5. Newlines(t, 1, i - 2) \in Nat /\ Newlines(t, 1, i - 1) \in Nat
    <3>1. 1 \in Int
      OBVIOUS
    <3>2. QED
      BY <2>1, <3>1, NewlinesType
  <2>6. \/ h.line = 1 + Newlines(t, 1, i - 1)
        \/ t[i - 1] = "n" /\ h.line = (1 + Newlines(t, 1, i - 1)) - 1
    BY <2>2, <2>3, <2>4, <2>5
  <2>7. Stands(h, t)
    <3>1. At(t, h.at, h.hazard.name) /\ h.hazard.takes
      BY <1>5, <1>8 DEF i
    <3>2. CASE h.line = 1 + Newlines(t, 1, i - 1)
      BY <3>1, <3>2 DEF Stands, i
    <3>3. CASE t[i - 1] = "n" /\ h.line = (1 + Newlines(t, 1, i - 1)) - 1
      <4>1. t[h.at - 1] = "n" /\ h.line = (1 + Newlines(t, 1, h.at - 1)) - 1
        BY <3>3 DEF i
      <4>2. QED
        BY <3>1, <4>1, Zenon DEF Stands
    <3>4. QED
      BY <2>6, <3>2, <3>3
  <2>8. QED
    BY <1>3, <1>4, <2>7 DEF i
<1>9. QED
  BY <1>3, <1>7, <1>8 DEF i

LEMMA LocatedKept ==
    ASSUME Located, lang' = lang, files' = files, commands' = commands,
           next \in Nat, next' \in {next, next + 1}, pc' # "scored" => pc # "scored",
           score'.hits = score.hits, score'.notes = score.notes
    PROVE  Located'
<1>1. \A k : Bytes(files[k])' = Bytes(files[k])
  BY DEF Bytes
<1>2. \A h : HitType(h)' = HitType(h)
  BY DEF HitType
<1>3. \A k : k \in 1..next - 1 => k \in 1..next' - 1
  <2>1. \A n \in Nat : \A m \in {n, n + 1} : \A k : k \in 1..n - 1 => k \in 1..m - 1
    OBVIOUS
  <2>2. QED
    BY <2>1
<1>4. QED
  BY <1>1, <1>2, <1>3 DEF Located

LEMMA VisitBase == ASSUME Base, Visit PROVE Base'
<1> DEFINE f == files[next]
<1>1. Entry /\ Scanner /\ Walk /\ Measured /\ Located
  BY DEF Base
<1>2. /\ Entry' /\ lang' = lang /\ files' = files /\ commands' = commands
      /\ Shipped' = Shipped /\ VendoredUpTo' = VendoredUpTo
  BY <1>1, EntryKept DEF Visit
<1>3. files \in Seq(File) /\ Len(files) \in Nat /\ DOMAIN files = 1..Len(files) /\ LanguageShape(lang)
  BY <1>1, EntryFacts
<1>4. pc = "walk" /\ next \in 1..Len(files) /\ f \in File /\ f.text \in Seq(STRING)
  <2>1. pc = "walk" /\ next \in 1..Len(files)
    BY <1>1, <1>3 DEF Visit, Walk
  <2>2. f \in File
    BY <1>3, <2>1
  <2>3. QED
    BY <2>1, <2>2 DEF File
<1> HIDE DEF f
<1>5. next \in Nat /\ Seen = next - 1 /\ next - 1 \in 0..Len(files)
  BY <1>3, <1>4 DEF Seen
<1>6. VendoredUpTo[next] = VendoredUpTo[next - 1] +
          (IF ~IsManifest(f) /\ IsVendored(f.path) THEN Len(f.text) ELSE 0)
  <2>1. next \in Shipped <=> ~IsManifest(f)
    BY <1>3, <1>4 DEF Shipped, f
  <2>2. QED
    BY <1>3, <1>4, <2>1, VendoredUpToSpec DEF f
<1>7. /\ \A k \in Shipped : k <= next - 1 => files[k].kind = "text"
      /\ score.files = Cardinality({k \in Shipped : k <= next - 1})
      /\ score.vendored = VendoredUpTo[next - 1] /\ score.vendored \in Nat
  BY <1>1, <1>4, <1>5 DEF Measured
<1>8. \A k \in Shipped : k \in 1..Len(files) /\ (k <= next <=> k <= next - 1 \/ k = next)
  BY <1>3, <1>5 DEF Shipped
<1>9. CASE Admission(f) = "skipped"
  <2>1. next' = next + 1 /\ UNCHANGED <<stripVars, score, pc>>
    BY <1>9 DEF Visit, f
  <2>2. IsManifest(f)
    BY <1>9 DEF Admission
  <2>3. next \notin Shipped
    BY <2>2 DEF Shipped, f
  <2>4. {k \in Shipped : k <= next} = {k \in Shipped : k <= next - 1}
    BY <1>8, <2>3
  <2>5. Seen' = next
    BY <1>4, <1>5, <2>1 DEF Seen
  <2>6. Measured'
    <3>1. \A k \in Shipped : k <= next => files[k].kind = "text"
      BY <1>7, <1>8, <2>3
    <3>2. VendoredUpTo[next] = VendoredUpTo[next - 1]
      BY <1>6, <1>7, <2>2
    <3>3. score.files = Cardinality({k \in Shipped : k <= next})
      BY <1>7, <2>4
    <3>4. score.files \in 0..Len(files) /\ pc' = "walk" /\ score' = score
      BY <1>1, <1>4, <2>1 DEF Measured
    <3>5. QED
      BY <1>2, <1>7, <2>5, <3>1, <3>2, <3>3, <3>4 DEF Measured
  <2>7. Scanner'
    BY <1>1, <2>1 DEF Scanner, stripVars
  <2>8. Walk'
    BY <1>2, <1>3, <1>4, <2>1 DEF Walk
  <2>9. Located'
    <3>1. score' = score /\ pc' = "walk"
      BY <1>4, <2>1
    <3>2. QED
      BY <1>1, <1>2, <1>4, <1>5, <2>1, <3>1, LocatedKept
  <2>10. QED
    BY <1>2, <2>6, <2>7, <2>8, <2>9 DEF Base
<1>10. CASE Admission(f) = "refused"
  <2>1. score' = NoScore /\ pc' = "failed" /\ UNCHANGED <<stripVars, next>>
    BY <1>10 DEF Visit, f
  <2>2. Scanner'
    BY <1>1, <2>1 DEF Scanner, stripVars
  <2>3. Walk'
    BY <1>1, <1>2, <2>1 DEF Walk
  <2>4. Measured' /\ Located'
    <3>1. score'.hits = {} /\ score'.notes = {}
      BY <2>1 DEF NoScore
    <3>2. QED
      BY <1>2, <1>3, <2>1, <3>1 DEF Measured, Located, NoScore
  <2>5. QED
    BY <1>2, <2>2, <2>3, <2>4 DEF Base
<1>11. CASE Admission(f) = "visited"
  <2>1. /\ score' = [score EXCEPT !.vendored = @ + Vendored(f), !.files = @ + 1]
        /\ pc' = "count" /\ next' = next
        /\ IF Strippable(f) THEN Begin(Bytes(f))
           ELSE /\ text' = Bytes(f) /\ out' = Bytes(f) /\ pos' = 1 /\ line' = 0
                /\ scan' = "doubt"
    BY <1>11 DEF Visit, f
  <2>2. /\ text' = Bytes(f) /\ out' = Bytes(f) /\ pos' = 1 /\ line' = 0
        /\ scan' \in {"scanning", "doubt"}
    BY <2>1 DEF Begin
  <2>3. ~IsManifest(f) /\ f.kind = "text"
    BY <1>4, <1>11 DEF Admission, File, Kinds
  <2>4. Scanner'
    <3>1. Bytes(f) \in Seq(STRING) /\ CopyOf(Bytes(f), Bytes(f)) /\ Len(Bytes(f)) \in Nat
      BY <1>4, BytesType, CopyOfItself
    <3>2. Newlines(Bytes(f), 1, 1 - 1) = 0
      BY NewlinesEmpty
    <3>3. QED
      BY <2>2, <3>1, <3>2 DEF Scanner
  <2>5. Bytes(f)' = Bytes(f) /\ f' = f
    BY <1>2, <2>1 DEF Bytes, f
  <2>6. Walk'
    BY <1>2, <1>3, <1>4, <1>11, <2>1, <2>2, <2>5 DEF Walk, f
  <2>7. next \in Shipped /\ Seen' = next
    BY <1>3, <1>4, <2>1, <2>3 DEF Shipped, f, Seen
  <2>8. Measured'
    <3> DEFINE old == {k \in Shipped : k <= next - 1}
    <3>1. \A k \in Shipped : k <= next => files[k].kind = "text"
      BY <1>7, <1>8, <2>3 DEF f
    <3>2. {k \in Shipped : k <= next} = old \cup {next} /\ next \notin old
      <4>1. ~(next <= next - 1) /\ next <= next
        BY <1>5
      <4>2. next \notin old
        BY <4>1
      <4>3. \A k : k \in Shipped /\ k <= next <=> k \in old \/ k = next
        BY <1>8, <2>7, <4>1
      <4> HIDE DEF old
      <4>4. QED
        BY <4>2, <4>3
    <3>3. IsFiniteSet(old) /\ Cardinality(old) \in 0..Len(files) - 1
      <4>1. IsFiniteSet(1..next - 1) /\ Cardinality(1..next - 1) = next - 1
        <5>1. 1 \in Int /\ next - 1 \in Int /\ next - 1 >= 0
          BY <1>3, <1>4, <1>5
        <5>2. /\ IsFiniteSet(1..next - 1)
              /\ Cardinality(1..next - 1) = IF 1 > next - 1 THEN 0 ELSE next - 1 - 1 + 1
          BY <5>1, FS_Interval
        <5>3. QED
          BY <5>1, <5>2
      <4>2. old \in SUBSET (1..next - 1)
        BY <1>5, <1>8
      <4>3. IsFiniteSet(old) /\ Cardinality(old) <= next - 1 /\ Cardinality(old) \in Nat
        BY <4>1, <4>2, FS_Subset, FS_CardinalityType
      <4>4. QED
        BY <1>3, <1>4, <1>5, <4>3
    <3>4. Cardinality({k \in Shipped : k <= next}) = Cardinality(old) + 1
      BY <3>2, <3>3, FS_AddElement
    <3>5. Vendored(f) \in Nat /\ VendoredUpTo[next] = VendoredUpTo[next - 1] + Vendored(f)
      BY <1>4, <1>6, <2>3 DEF Vendored
    <3>6. score'.files = score.files + 1 /\ score'.vendored = score.vendored + Vendored(f)
      BY <1>1, <2>1 DEF Measured
    <3> HIDE DEF old
    <3>7. QED
      BY <1>2, <1>3, <1>7, <2>1, <2>7, <3>1, <3>3, <3>4, <3>5, <3>6 DEF Measured, old
  <2>9. Located'
    <3>1. score'.hits = score.hits /\ score'.notes = score.notes
      BY <2>1
    <3>2. QED
      BY <1>1, <1>2, <1>4, <1>5, <2>1, <3>1, LocatedKept
  <2>10. QED
    BY <1>2, <2>4, <2>6, <2>8, <2>9 DEF Base
<1>12. QED
  BY <1>9, <1>10, <1>11 DEF Admission

LEMMA StripBase == ASSUME Base, Strip PROVE Base'
<1>1. Entry /\ Scanner /\ Walk /\ Measured /\ Located
  BY DEF Base
<1>2. /\ Entry' /\ lang' = lang /\ files' = files /\ commands' = commands
      /\ Shipped' = Shipped /\ VendoredUpTo' = VendoredUpTo
  BY <1>1, EntryKept DEF Strip
<1>3. pc = "count" /\ StripStep /\ UNCHANGED <<next, score, pc>> /\ LanguageShape(lang)
  BY <1>1, EntryFacts DEF Strip
<1>4. Scanner'
  BY <1>1, <1>3, StripKeepsScanner
<1>5. text' = text
  BY <1>3 DEF StripStep, Newline, GuardedByte, LineComment, BlockComment, String, CodeByte,
              Stripped, Doubt
<1>6. Walk'
  BY <1>1, <1>2, <1>3, <1>5 DEF Walk, Bytes
<1>7. Measured'
  <2>1. Seen' = Seen /\ score' = score /\ pc' = pc
    BY <1>3 DEF Seen
  <2>2. QED
    BY <1>1, <1>2, <2>1 DEF Measured
<1>8. Located'
  <2>1. next \in Nat
    BY <1>1, EntryFacts DEF Walk
  <2>2. QED
    BY <1>1, <1>2, <1>3, <2>1, LocatedKept
<1>9. QED
  BY <1>2, <1>4, <1>6, <1>7, <1>8 DEF Base

LEMMA CountBase == ASSUME Base, Count PROVE Base'
<1>1. Entry /\ Scanner /\ Walk /\ Measured /\ Located
  BY DEF Base
<1>2. /\ Entry' /\ lang' = lang /\ files' = files /\ commands' = commands
      /\ Shipped' = Shipped /\ VendoredUpTo' = VendoredUpTo
  BY <1>1, EntryKept DEF Count
<1>3. /\ pc = "count" /\ next' = next + 1 /\ pc' = "walk" /\ UNCHANGED stripVars
      /\ score' = [score EXCEPT !.hits = @ \cup Hits(next, Scanned),
                                !.notes = IF scan = "doubt" THEN @ \cup {next} ELSE @]
  BY DEF Count
<1>4. Len(files) \in Nat /\ next \in 1..Len(files) /\ text = Bytes(files[next]) /\ next \in Nat
      /\ DOMAIN files = 1..Len(files)
  BY <1>1, <1>3, EntryFacts DEF Walk
<1>5. Scanner'
  BY <1>1, <1>3 DEF Scanner, stripVars
<1>6. Walk'
  BY <1>2, <1>3, <1>4 DEF Walk
<1>7. score'.files = score.files /\ score'.vendored = score.vendored
  BY <1>3
<1>8. Measured'
  <2>1. Seen = next /\ Seen' = next
    BY <1>3, <1>4 DEF Seen
  <2>2. QED
    BY <1>1, <1>2, <1>3, <1>7, <2>1 DEF Measured
<1>9. Located'
  <2>0. /\ next' - 1 = next /\ pc' # "scored" /\ score'.notes \subseteq score.notes \cup {next}
        /\ Len(commands) \in Nat
    <3>1. score'.notes = IF scan = "doubt" THEN score.notes \cup {next} ELSE score.notes
      BY <1>3
    <3>2. QED
      BY <1>1, <1>3, <1>4, <3>1, EntryFacts
  <2>1. SUFFICES ASSUME NEW h \in score'.hits
                 PROVE  /\ h.file \in 1..next /\ HitType(h)
                        /\ h.file \in DOMAIN files /\ Bytes(files[h.file]) = files[h.file].text =>
                               Stands(h, files[h.file].text)
    <3>1. score'.notes \subseteq 1..next
      BY <1>1, <1>4, <2>0 DEF Located
    <3>2. 1..next \subseteq 1..Len(files) + Len(commands)
      BY <1>4, <2>0
    <3>3. \A k : Bytes(files[k])' = Bytes(files[k])
      BY <1>2 DEF Bytes
    <3>4. \A h : HitType(h)' = HitType(h)
      BY <1>2 DEF HitType
    <3>5. QED
      BY <1>2, <2>0, <3>1, <3>2, <3>3, <3>4 DEF Located
  <2>2. CASE h \in score.hits
    <3>1. h.file \in 1..next
      BY <1>1, <1>3, <1>4, <2>2 DEF Located
    <3>2. QED
      BY <1>1, <2>2, <3>1 DEF Located
  <2>3. CASE h \in Hits(next, Scanned)
    <3>1. text \in Seq(STRING) /\ CopyOf(Scanned, text) /\ LanguageShape(lang)
      BY <1>1, EntryFacts, CopyOfItself DEF Scanner, Scanned
    <3>2. h.file = next /\ HitType(h) /\ Stands(h, text)
      BY <2>3, <3>1, HitsAreOfText
    <3>3. QED
      BY <1>4, <3>2
  <2>4. h \in score.hits \/ h \in Hits(next, Scanned)
    BY <1>3
  <2>5. QED
    BY <2>2, <2>3, <2>4
<1>10. QED
  BY <1>2, <1>5, <1>6, <1>8, <1>9 DEF Base

LEMMA FinishBase == ASSUME Base, Finish PROVE Base'
<1>1. Entry /\ Scanner /\ Walk /\ Measured /\ Located
  BY DEF Base
<1>2. /\ Entry' /\ lang' = lang /\ files' = files /\ commands' = commands
      /\ Shipped' = Shipped /\ VendoredUpTo' = VendoredUpTo
  BY <1>1, EntryKept DEF Finish
<1>3. pc = "walk" /\ next' = next /\ UNCHANGED stripVars
  BY DEF Finish
<1>4. /\ Len(files) \in Nat /\ next = Len(files) + 1 /\ DOMAIN files = 1..Len(files)
      /\ commands \in Seq(Seq(STRING))
  <2>1. next > Len(files) /\ next \in 1..Len(files) + 1
    BY <1>1 DEF Finish, Walk
  <2>2. QED
    BY <1>1, <2>1, EntryFacts
<1>5. Scanner'
  BY <1>1, <1>3 DEF Scanner, stripVars
<1>6. Seen = next - 1 /\ (pc' # "count" => Seen' = next - 1)
  BY <1>3 DEF Seen
<1>7. CASE score.files = 0
  <2>1. score' = NoScore /\ pc' = "failed"
    BY <1>7 DEF Finish
  <2>2. Walk' /\ Measured' /\ Located'
    <3>1. score'.hits = {} /\ score'.notes = {}
      BY <2>1 DEF NoScore
    <3>2. QED
      BY <1>2, <1>3, <1>4, <2>1, <3>1 DEF Walk, Measured, Located, NoScore
  <2>3. QED
    BY <1>2, <1>5, <2>2 DEF Base
<1>8. CASE score.files # 0
  <2> DEFINE new == UNION {Hits(Len(files) + c, commands[c]) : c \in DOMAIN commands}
  <2>1. score' = [score EXCEPT !.hits = @ \cup new] /\ pc' = "scored"
    BY <1>8 DEF Finish
  <2>2. Walk'
    BY <1>2, <1>3, <1>4, <2>1 DEF Walk
  <2>3. score'.files = score.files /\ score'.vendored = score.vendored
    BY <2>1
  <2>4. Measured'
    BY <1>1, <1>2, <1>3, <1>6, <2>1, <2>3 DEF Measured
  <2>5. ASSUME NEW h \in new
        PROVE  h.file \notin DOMAIN files /\ h.file \in 1..Len(files) + Len(commands) /\ HitType(h)
    <3>1. PICK c \in DOMAIN commands : h \in Hits(Len(files) + c, commands[c])
      OBVIOUS
    <3>2. c \in 1..Len(commands) /\ Len(commands) \in Nat /\ commands[c] \in Seq(STRING)
      BY <1>4
    <3>3. h.file = Len(files) + c /\ HitType(h)
      BY <1>1, <3>1, <3>2, EntryFacts, HitsOf
    <3>4. QED
      BY <1>4, <3>2, <3>3
  <2>6. ASSUME NEW h \in score'.hits
        PROVE  /\ h.file \in 1..Len(files) + Len(commands) /\ HitType(h)
               /\ h.file \in DOMAIN files /\ Bytes(files[h.file]) = files[h.file].text =>
                      Stands(h, files[h.file].text)
    <3> HIDE DEF new
    <3>1. h \in score.hits \/ h \in new
      BY <2>1
    <3>2. QED
      BY <1>1, <2>5, <3>1 DEF Located
  <2>7. Located'
    <3>1. score'.notes = score.notes
      BY <2>1
    <3>2. \A k : Bytes(files[k])' = Bytes(files[k])
      BY <1>2 DEF Bytes
    <3>3. \A h : HitType(h)' = HitType(h)
      BY <1>2 DEF HitType
    <3>4. QED
      BY <1>1, <1>2, <1>3, <2>1, <2>6, <3>1, <3>2, <3>3 DEF Located
  <2>8. QED
    BY <1>2, <1>5, <2>2, <2>4, <2>7 DEF Base
<1>9. QED
  BY <1>7, <1>8

LEMMA NextBase == ASSUME Base, [Next]_vars PROVE Base'
<1>1. CASE UNCHANGED vars
  <2>1. Entry /\ Scanner /\ Walk /\ Measured /\ Located
    BY DEF Base
  <2>2. /\ Entry' /\ lang' = lang /\ files' = files /\ commands' = commands
        /\ Shipped' = Shipped /\ VendoredUpTo' = VendoredUpTo
    BY <1>1, <2>1, EntryKept DEF vars
  <2>3. UNCHANGED <<text, pos, line, out, scan, next, score, pc>>
    BY <1>1 DEF vars, stripVars
  <2>4. Scanner'
    BY <2>1, <2>3 DEF Scanner
  <2>5. Walk'
    BY <2>1, <2>2, <2>3 DEF Walk, Bytes
  <2>6. Measured'
    BY <2>1, <2>2, <2>3 DEF Measured, Seen
  <2>7. Located'
    <3>1. next \in Nat
      BY <2>1, EntryFacts DEF Walk
    <3>2. QED
      BY <2>1, <2>2, <2>3, <3>1, LocatedKept
  <2>8. QED
    BY <2>2, <2>4, <2>5, <2>6, <2>7 DEF Base
<1>2. CASE Visit
  BY <1>2, VisitBase
<1>3. CASE Strip
  BY <1>3, StripBase
<1>4. CASE Count
  BY <1>4, CountBase
<1>5. CASE Finish
  BY <1>5, FinishBase
<1>6. QED
  BY <1>1, <1>2, <1>3, <1>4, <1>5 DEF Next, Returned

\* The invariant holds throughout.
THEOREM BaseInvariant == Spec => []Base
  BY InitBase, NextBase, PTL DEF Spec

LEMMA BaseGives == ASSUME Base
                   PROVE  TypeOK /\ LineIsTracked /\ HitsAreReal /\ ScoreIsWhole
<1>1. Entry /\ Scanner /\ Walk /\ Measured /\ Located
  BY DEF Base
<1>2. Len(files) \in Nat /\ DOMAIN files = 1..Len(files)
  BY <1>1, EntryFacts
<1>3. TypeOK
  <2>1. text \in Seq(STRING) /\ out \in Seq(STRING \cup {" "}) /\ Len(out) = Len(text)
    <3>1. text \in Seq(STRING) /\ CopyOf(out, text)
      BY <1>1 DEF Scanner
    <3>2. Len(out) = Len(text) /\ Len(text) \in Nat
      BY <3>1, CopyHasItsSize
    <3>3. out \in [1..Len(text) -> STRING \cup {" "}]
      BY <3>1, Zenon DEF CopyOf
    <3>4. out \in Seq(STRING \cup {" "})
      BY <3>2, <3>3, FunctionIsSeq
    <3>5. QED
      BY <3>1, <3>2, <3>4
  <2>2. score.notes \subseteq 1..Len(files)
    <3>1. 1..next - 1 \subseteq 1..Len(files)
      BY <1>1, <1>2 DEF Walk
    <3>2. QED
      BY <1>1, <3>1 DEF Located
  <2>3. \A h \in score.hits : h.file \in 1..Len(files) + Len(commands) /\ h.hazard \in lang.hazards
            /\ h.line \in Nat \ {0} /\ h.at \in Nat \ {0}
    BY <1>1 DEF Located, HitType
  <2>4. QED
    BY <1>1, <2>1, <2>2, <2>3 DEF Scanner, Walk, Measured, TypeOK
<1>4. LineIsTracked
  BY <1>1 DEF Scanner, LineIsTracked
<1>5. HitsAreReal
  BY <1>1 DEF Located, HitsAreReal
<1>6. ScoreIsWhole
  <2>1. ASSUME pc = "scored"
        PROVE  /\ \A k \in Shipped : files[k].kind = "text"
               /\ score.files = Cardinality(Shipped)
               /\ score.vendored = VendoredUpTo[Len(files)]
    <3>1. Seen = Len(files)
      BY <1>1, <1>2, <2>1 DEF Walk, Seen
    <3>2. \A k \in Shipped : k <= Len(files)
      BY <1>2 DEF Shipped
    <3>3. {k \in Shipped : k <= Len(files)} = Shipped
      BY <3>2
    <3>4. QED
      BY <1>1, <2>1, <3>1, <3>2, <3>3 DEF Measured
  <2>2. QED
    BY <1>1, <2>1 DEF ScoreIsWhole, Measured
<1>7. QED
  BY <1>3, <1>4, <1>5, <1>6

\* Type correctness: the scanner never leaves the file it was given, and its
\* copy has the size of the original, whatever it blanks.
THEOREM ScoreTypeCorrect == Spec => []TypeOK
  BY BaseInvariant, BaseGives, PTL

\* The scanner's line number is the number of newlines it has passed, in code,
\* comments, literals and escapes alike: the lookup of line guards cannot crash.
THEOREM LineAlwaysTracked == Spec => []LineIsTracked
  BY BaseInvariant, BaseGives, PTL

\* Without joined lines, every hit a score reports is a hazard that was
\* committed, on the line it is reported on.
THEOREM HitsAlwaysReal == Spec => []HitsAreReal
  BY BaseInvariant, BaseGives, PTL

\* A scored entry is scored whole: no file is left out, none is counted twice,
\* and the vendored bytes are those committed; a refused entry has no score.
THEOREM ScoreAlwaysWhole == Spec => []ScoreIsWhole
  BY BaseInvariant, BaseGives, PTL

-----------------------------------------------------------------------------
(* Literals: reading on from byte to byte ends where the language ends them *)

\* The escapes right before a byte grow by one at an escape and end at any
\* other byte.
LEMMA EscapesStep ==
    ASSUME NEW t, NEW b \in Int, NEW k \in Int, b <= k
    PROVE  /\ Escapes(t, b, k, <<>>) = 0 /\ Escapes(t, b, k, <<"b">>) \in Nat
           /\ Escapes(t, b, b, <<"b">>) = 0
           /\ Escapes(t, b, k + 1, <<"b">>) =
                 IF t[k] = "b" THEN Escapes(t, b, k, <<"b">>) + 1 ELSE 0
<1> DEFINE Run(m) == {i \in b..m - 1 : \A j \in i..m - 1 : t[j] = "b"}
<1>1. \A m \in Int : Escapes(t, b, m, <<"b">>) = Cardinality(Run(m))
  BY DEF Escapes
<1>2. IsFiniteSet(Run(k)) /\ Cardinality(Run(k)) \in Nat
  <2>1. IsFiniteSet(b..k - 1)
    BY FS_Interval
  <2>2. Run(k) \in SUBSET (b..k - 1)
    OBVIOUS
  <2> HIDE DEF Run
  <2>3. QED
    BY <2>1, <2>2, FS_Subset, FS_CardinalityType
<1>3. Cardinality(Run(b)) = 0
  <2>1. Run(b) = {}
    OBVIOUS
  <2>2. QED
    BY <2>1, FS_EmptySet
<1>4. CASE t[k] = "b"
  <2>1. Run(k + 1) = Run(k) \cup {k}
    <3>1. ASSUME NEW i \in Run(k + 1) PROVE i \in Run(k) \cup {k}
      OBVIOUS
    <3>2. ASSUME NEW i \in Run(k) PROVE i \in Run(k + 1)
      <4>1. i \in b..k + 1 - 1
        OBVIOUS
      <4>2. \A j \in i..k + 1 - 1 : j \in i..k - 1 \/ j = k
        OBVIOUS
      <4>3. QED
        BY <1>4, <4>1, <4>2
    <3>3. k \in Run(k + 1)
      BY <1>4
    <3>4. QED
      BY <3>1, <3>2, <3>3
  <2>2. k \notin Run(k)
    OBVIOUS
  <2> HIDE DEF Run
  <2>3. Cardinality(Run(k + 1)) = Cardinality(Run(k)) + 1
    BY <1>2, <2>1, <2>2, FS_AddElement
  <2>4. QED
    BY <1>1, <1>2, <1>3, <1>4, <2>3 DEF Escapes
<1>5. CASE t[k] # "b"
  <2>1. Run(k + 1) = {}
    BY <1>5
  <2>2. Cardinality(Run(k + 1)) = 0
    BY <2>1, FS_EmptySet
  <2> HIDE DEF Run
  <2>3. QED
    BY <1>1, <1>2, <1>3, <1>5, <2>2 DEF Escapes
<1>6. QED
  BY <1>4, <1>5

LEMMA LeastSpec ==
    ASSUME NEW S \in SUBSET Nat, 0 \notin S
    PROVE  /\ Least(S) = 0 <=> S = {}
           /\ Least(S) # 0 => Least(S) \in S /\ \A j \in S : Least(S) <= j
<1>1. CASE S = {}
  BY <1>1 DEF Least
<1>2. CASE S # {}
  <2>1. Least(S) = CHOOSE i \in S : \A j \in S : i <= j
    BY <1>2 DEF Least
  <2>2. Least(S) \in S /\ \A j \in S : Least(S) <= j
    BY <1>2, <2>1, ChosenLeast
  <2>3. QED
    BY <1>2, <2>2
<1>3. QED
  BY <1>1, <1>2

LEMMA Parity == ASSUME NEW x \in Nat PROVE x % 2 = 0 <=> (x + 1) % 2 # 0
OBVIOUS

LEMMA OneDown ==
    ASSUME NEW b \in Int, NEW k \in Int, NEW m \in 0..k - b - 1
    PROVE  /\ k - (m + 1) \in b..k /\ k - (m + 1) + 1 = k - m /\ m + 1 \in 0..k - b
           /\ \A j \in k - (m + 1)..k : j = k - (m + 1) \/ j \in k - m..k
OBVIOUS

\* A literal of the language is read to its last byte.
LEMMA LiteralIsRead ==
    ASSUME NEW s \in StringSyntax, Marker(s.close), s.escape \in {<<>>, <<"b">>},
           text \in Seq(STRING), NEW p \in 1..Len(text), NEW b \in 1..Len(text) + 1,
           b = p + Len(s.open), LiteralEnd(text, p, s) # 0
    PROVE  /\ StringEnd(p, s).end = LiteralEnd(text, p, s) + 1
           /\ LiteralEnd(text, p, s) \in b..Len(text)
           /\ \E k \in b..Len(text) :
                 /\ At(text, k, s.close) /\ LiteralEnd(text, p, s) = k + Len(s.close) - 1
                 /\ ~s.multiline => \A i \in b..k - 1 :
                       text[i] = "n" => Escapes(text, b, i, s.escape) % 2 # 0
<1> DEFINE n == Len(text)
           Even(i) == Escapes(text, b, i, s.escape) % 2 = 0
           closed == {i \in b..n : At(text, i, s.close) /\ Even(i)}
           k == Least(closed)
           raw == {i \in b..k - 1 : text[i] = "n" /\ Even(i)}
           R == StringRest(s)
           e == k + Len(s.close)
           Read(i) == Even(i) => R[i].end = e
<1>1. n \in Nat /\ b \in Nat /\ b >= 1 /\ Len(s.close) \in Nat \ {0}
  BY DEF Marker
<1>2. LiteralEnd(text, p, s) =
        IF k = 0 \/ (~s.multiline /\ raw # {}) THEN 0 ELSE k + Len(s.close) - 1
  BY DEF LiteralEnd
<1> HIDE DEF k, raw
<1>3. k # 0 /\ (~s.multiline => raw = {}) /\ LiteralEnd(text, p, s) = k + Len(s.close) - 1
  BY <1>2
<1>4. /\ k \in b..n /\ At(text, k, s.close) /\ Even(k)
      /\ \A i \in b..n : At(text, i, s.close) /\ Even(i) => k <= i
  <2>1. closed \in SUBSET Nat /\ 0 \notin closed
    BY <1>1
  <2>2. k \in closed /\ \A j \in closed : k <= j
    <3> HIDE DEF closed
    <3>1. QED
      BY <1>3, <2>1, LeastSpec DEF k
  <2>3. QED
    BY <2>2
<1>5. k + Len(s.close) - 1 \in b..n /\ k \in Nat /\ k <= n
  BY <1>1, <1>4 DEF At
<1>6. ASSUME NEW i \in b..k
      PROVE  /\ i \in Int /\ i \in 1..n + 1 /\ i <= n
             /\ Escapes(text, b, i, s.escape) \in Nat
             /\ s.escape = <<>> => Even(i) /\ Even(i + 1)
             /\ s.escape = <<"b">> => Escapes(text, b, i + 1, s.escape) =
                    IF text[i] = "b" THEN Escapes(text, b, i, s.escape) + 1 ELSE 0
  <2>1. i \in Int /\ i \in 1..n + 1 /\ i <= n /\ b <= i /\ b <= i + 1 /\ i + 1 \in Int
    BY <1>1, <1>5
  <2>2. <<>> # <<"b">>
    OBVIOUS
  <2>3. CASE s.escape = <<>>
    <3>1. Escapes(text, b, i, <<>>) = 0 /\ Escapes(text, b, i + 1, <<>>) = 0 /\ 0 % 2 = 0
      BY DEF Escapes
    <3>2. QED
      BY <2>1, <2>2, <2>3, <3>1
  <2>4. CASE s.escape = <<"b">>
    <3>1. /\ Escapes(text, b, i, <<"b">>) \in Nat
          /\ Escapes(text, b, i + 1, <<"b">>) =
                IF text[i] = "b" THEN Escapes(text, b, i, <<"b">>) + 1 ELSE 0
      <4>1. b \in Int /\ i \in Int /\ b <= i
        BY <1>1, <2>1
      <4>2. QED
        BY <4>1, EscapesStep
    <3>2. QED
      BY <2>1, <2>2, <2>4, <3>1
  <2>5. QED
    BY <2>3, <2>4
<1>7. ASSUME NEW i \in b..k, Even(i), \A j \in i + 1..k : Read(j) PROVE R[i].end = e
  <2> DEFINE Passed(j, newlines) == R[i] = [R[j] EXCEPT !.newlines = @ + newlines]
  <2>1. IF At(text, i, s.close)
        THEN R[i] = [end |-> i + Len(s.close), newlines |-> 0]
        ELSE IF IsEscape(i, s)
        THEN Passed(i + Len(s.escape) + 1, EscapedLine(i + Len(s.escape)))
        ELSE IF text[i] = "n" /\ ~s.multiline
        THEN R[i] = [end |-> i, newlines |-> 0]
        ELSE Passed(i + 1, IF text[i] = "n" THEN 1 ELSE 0)
    BY <1>6, StringRestStep
  <2> HIDE DEF R
  <2>2. ASSUME NEW j \in i + 1..k, NEW m, Passed(j, m), Even(j) PROVE R[i].end = e
    <3>1. j \in 1..n + 1
      BY <1>1, <1>5, <1>6
    <3>2. R[j] \in [end : Nat, newlines : Nat]
      BY <3>1, StringRestSpec DEF R
    <3>3. R[i].end = R[j].end
      BY <2>2, <3>2
    <3>4. R[j].end = e
      BY <1>7, <2>2
    <3>5. QED
      BY <3>3, <3>4
  <2>3. CASE i = k
    BY <1>4, <2>1, <2>3
  <2>4. CASE i # k
    <3>1. i < k /\ i \in b..n /\ i + 1 \in i + 1..k
      BY <1>5, <1>6, <2>4
    <3>2. ~At(text, i, s.close)
      BY <1>4, <1>7, <3>1
    <3>3. CASE IsEscape(i, s)
      <4>1. s.escape = <<"b">> /\ Len(s.escape) = 1 /\ text[i] = "b"
        BY <3>3 DEF IsEscape, At
      <4>2. Escapes(text, b, i + 1, s.escape) = Escapes(text, b, i, s.escape) + 1
        BY <1>6, <4>1
      <4>3. i + 1 # k
        <5>1. ~Even(i + 1)
          BY <1>6, <1>7, <4>2, Parity
        <5>2. QED
          BY <1>4, <5>1
      <4>4. i + 1 \in b..k /\ i + 2 \in i + 1..k /\ i + 1 + 1 = i + 2
        BY <3>1, <4>3, <1>5, <1>6
      <4>5. Even(i + 2)
        <5>1. Escapes(text, b, i + 2, s.escape) =
                IF text[i + 1] = "b" THEN Escapes(text, b, i + 1, s.escape) + 1 ELSE 0
          BY <1>6, <4>1, <4>4
        <5>2. QED
          BY <1>6, <1>7, <4>2, <5>1
      <4>6. Passed(i + 2, EscapedLine(i + 1))
        BY <2>1, <3>2, <3>3, <4>1, <4>4
      <4> HIDE DEF Passed, Even
      <4>7. QED
        BY <2>2, <4>4, <4>5, <4>6
    <3>4. CASE ~IsEscape(i, s)
      <4>1. s.escape = <<>> \/ text[i] # "b"
        <5>1. ASSUME s.escape = <<"b">>, text[i] = "b" PROVE IsEscape(i, s)
          <6>1. Len(s.escape) = 1 /\ s.escape # <<>> /\ s.escape[1] = "b" /\ n = Len(text)
            BY <5>1
          <6>2. i \in Int /\ i + 1 <= n /\ i + 1 - 1 = i
            BY <1>5, <1>6, <3>1
          <6>3. QED
            BY <5>1, <6>1, <6>2 DEF IsEscape, At
        <5>2. QED
          BY <3>4, <5>1
      <4>2. Even(i + 1)
        BY <1>6, <4>1
      <4>3. ~(text[i] = "n" /\ ~s.multiline)
        <5>1. ASSUME text[i] = "n", ~s.multiline PROVE FALSE
          <6>1. i \in raw
            BY <1>5, <1>6, <1>7, <3>1, <5>1 DEF raw
          <6>2. QED
            BY <1>3, <5>1, <6>1
        <5>2. QED
          BY <5>1
      <4>4. Passed(i + 1, IF text[i] = "n" THEN 1 ELSE 0)
        BY <2>1, <3>2, <3>4, <4>3
      <4> HIDE DEF Passed, Even
      <4>5. QED
        BY <2>2, <3>1, <4>2, <4>4
    <3>5. QED
      BY <3>3, <3>4
  <2>5. QED
    BY <2>3, <2>4
<1>8. R[b].end = e
  <2> DEFINE S == {m \in 0..k - b : \A i \in k - m..k : Read(i)}
  <2>1. k - b \in Nat /\ k - (k - b) = b /\ k \in b..k /\ b \in b..k
    BY <1>1, <1>4
  <2>2. 0 \in S
    <3>1. \A i \in k - 0..k : i = k
      BY <1>5
    <3>2. Read(k)
      BY <1>5, <1>7, <2>1
    <3> HIDE DEF Read
    <3>3. QED
      BY <2>1, <3>1, <3>2
  <2>3. ASSUME NEW m \in 0..k - b - 1, m \in S PROVE m + 1 \in S
    <3> DEFINE i == k - (m + 1)
    <3>1. i \in b..k /\ i + 1 = k - m /\ m + 1 \in 0..k - b /\ \A j \in i..k : j = i \/ j \in k - m..k
      <4>1. k \in Int /\ b \in Int
        BY <1>1, <1>5
      <4>2. QED
        BY <4>1, OneDown, ZenonT(30)
    <3> HIDE DEF i
    <3>2. \A j \in i + 1..k : Read(j)
      BY <2>3, <3>1
    <3>3. Read(i)
      BY <1>7, <3>1, <3>2
    <3> HIDE DEF Read
    <3>4. \A j \in i..k : Read(j)
      BY <2>3, <3>1, <3>3
    <3>5. QED
      BY <3>1, <3>4 DEF i
  <2>4. Read(b)
    <3> HIDE DEF S
    <3>0. \A m \in 0..k - b : m \in S
      BY <2>1, <2>2, <2>3, Climb
    <3>1. k - b \in S
      <4>1. k - b \in 0..k - b
        BY <2>1
      <4>2. QED
        BY <3>0, <4>1
    <3> HIDE DEF Read
    <3>2. QED
      BY <2>1, <3>1 DEF S
  <2>5. Even(b)
    <3>1. Escapes(text, b, b, <<>>) = 0
      BY DEF Escapes
    <3>2. Escapes(text, b, b, <<"b">>) = 0
      <4>1. b \in Int /\ b <= b
        BY <1>1
      <4>2. QED
        BY <4>1, EscapesStep
    <3>3. 0 % 2 = 0
      OBVIOUS
    <3>4. QED
      BY <3>1, <3>2, <3>3
  <2>6. QED
    BY <2>4, <2>5
<1>9. StringEnd(p, s).end = LiteralEnd(text, p, s) + 1
  <2>1. StringEnd(p, s) = R[b]
    BY DEF StringEnd
  <2>2. QED
    BY <1>1, <1>3, <1>5, <1>8, <2>1
<1>10. ~s.multiline => \A i \in b..k - 1 : text[i] = "n" => Escapes(text, b, i, s.escape) % 2 # 0
  BY <1>3 DEF raw
<1>11. QED
  BY <1>3, <1>4, <1>5, <1>9, <1>10

-----------------------------------------------------------------------------
(* Tokens: the language's own reading of a text *)

\* The recursion that says where tokens start has a solution.
LEMMA TokenStartsSpec ==
    ASSUME NEW n \in Nat, NEW spans
    PROVE  \A i \in 1..n :
             /\ TokenStarts(1..n, spans)[i] \in BOOLEAN
             /\ TokenStarts(1..n, spans)[i] <=>
                   (i = 1 \/ \E p \in 1..i - 1 : <<p, i - 1>> \in spans /\ TokenStarts(1..n, spans)[p])
<1> DEFINE Body(f, i) == i = 1 \/ \E p \in 1..i - 1 : <<p, i - 1>> \in spans /\ f[p]
           G == [k \in 0..n |-> [h \in [0..k - 1 -> BOOLEAN] |-> Body(h, k)]]
           Satisfies(f) == f = [i \in 1..n |-> Body(f, i)]
<1>1. Steps(n, BOOLEAN, G)
  BY DEF Steps
<1>2. PICK g : Follows(g, n, BOOLEAN, G)
  <2> HIDE DEF G
  <2>1. QED
    BY <1>1, Recursion
<1> DEFINE f == [i \in 1..n |-> g[i]]
<1>3. ASSUME NEW i \in 1..n PROVE f[i] = Body(f, i) /\ f[i] \in BOOLEAN
  <2> DEFINE h == [j \in 0..i - 1 |-> g[j]]
  <2>1. g \in [0..n -> BOOLEAN] /\ i \in 0..n /\ \A j \in 0..i - 1 : j \in 0..n
    BY <1>2 DEF Follows
  <2>2. h \in [0..i - 1 -> BOOLEAN]
    BY <2>1
  <2>3. g[i] = G[i][h]
    BY <1>2, <2>1 DEF Follows
  <2>4. G[i][h] = Body(h, i)
    <3> HIDE DEF h, Body
    <3>1. QED
      BY <2>1, <2>2
  <2>5. Body(h, i) <=> Body(f, i)
    <3>1. \A p \in 1..i - 1 : p \in 0..i - 1 /\ p \in 1..n /\ h[p] = g[p] /\ f[p] = g[p]
      OBVIOUS
    <3> HIDE DEF h, f
    <3>2. QED
      BY <3>1
  <2>6. f[i] = g[i] /\ g[i] \in BOOLEAN
    BY <2>1
  <2>7. Body(h, i) \in BOOLEAN /\ Body(f, i) \in BOOLEAN
    OBVIOUS
  <2>8. QED
    <3> HIDE DEF h, f, Body, G
    <3>1. QED
      BY <2>3, <2>4, <2>5, <2>6, <2>7
<1>4. Satisfies(f)
  <2>1. f = [i \in 1..n |-> f[i]]
    OBVIOUS
  <2> HIDE DEF f, Body
  <2>2. QED
    BY <1>3, <2>1
<1> DEFINE S == TokenStarts(1..n, spans)
<1>5. S = CHOOSE r : Satisfies(r)
  BY DEF TokenStarts
<1>6. Satisfies(S)
  <2> HIDE DEF Satisfies, S, f
  <2>1. QED
    BY <1>4, <1>5
<1>7. ASSUME NEW i \in 1..n PROVE S[i] = Body(S, i)
  <2> HIDE DEF S, Body
  <2>1. QED
    BY <1>6
<1>8. \A i \in 1..n : Body(S, i) \in BOOLEAN
  OBVIOUS
<1>9. QED
  <2> HIDE DEF S
  <2>1. \A i \in 1..n : S[i] \in BOOLEAN /\ (S[i] <=> Body(S, i))
    BY <1>7, <1>8
  <2>2. QED
    BY <2>1 DEF S

\* Starts(t)[p]: a token of t starts at p; Ends(t)[p]: where one would end.
Ends(t) == [p \in DOMAIN t |-> Token(t, p).end]
Spans(t) == {<<p, Token(t, p).end>> : p \in DOMAIN t}
Starts(t) == TokenStarts(DOMAIN t, Spans(t))

\* A text whose tokens all end.
Readable(t) == \A p \in DOMAIN t : Starts(t)[p] => Ends(t)[p] \in p..Len(t)

LEMMA StartsSpec ==
    ASSUME NEW t \in Seq(STRING)
    PROVE  \A i \in 1..Len(t) :
             Starts(t)[i] <=> (i = 1 \/ \E p \in 1..i - 1 : Starts(t)[p] /\ Ends(t)[p] = i - 1)
<1>1. Len(t) \in Nat /\ DOMAIN t = 1..Len(t)
  OBVIOUS
<1>2. ASSUME NEW i \in 1..Len(t), NEW p \in 1..i - 1
      PROVE  <<p, i - 1>> \in Spans(t) <=> Ends(t)[p] = i - 1
  BY <1>1 DEF Spans, Ends
<1> DEFINE S == Starts(t)
<1>3. \A i \in 1..Len(t) :
         S[i] <=> (i = 1 \/ \E p \in 1..i - 1 : <<p, i - 1>> \in Spans(t) /\ S[p])
  BY <1>1, TokenStartsSpec DEF Starts
<1> HIDE DEF S
<1>4. \A i \in 1..Len(t) : S[i] <=> (i = 1 \/ \E p \in 1..i - 1 : S[p] /\ Ends(t)[p] = i - 1)
  BY <1>2, <1>3
<1>5. QED
  BY <1>4 DEF S

\* Behind a token starts the next one.
LEMMA NextToken ==
    ASSUME NEW t \in Seq(STRING), Readable(t), NEW p \in 1..Len(t), Starts(t)[p]
    PROVE  /\ Ends(t)[p] \in p..Len(t)
           /\ Ends(t)[p] + 1 = Len(t) + 1 \/ (Ends(t)[p] + 1 \in 1..Len(t) /\ Starts(t)[Ends(t)[p] + 1])
<1> DEFINE e == Ends(t)[p]
<1>1. e \in p..Len(t) /\ Len(t) \in Nat
  BY DEF Readable
<1> HIDE DEF e
<1>2. CASE e < Len(t)
  <2>1. e + 1 \in 1..Len(t) /\ p \in 1..e + 1 - 1 /\ e + 1 - 1 = e
    BY <1>1, <1>2
  <2>2. ASSUME NEW m \in 1..Len(t), m = e + 1 PROVE Starts(t)[m]
    <3>1. p \in 1..m - 1 /\ e = m - 1
      BY <1>1, <2>1, <2>2
    <3>2. QED
      BY <3>1, StartsSpec DEF e
  <2>3. QED
    BY <1>1, <2>1, <2>2 DEF e
<1>3. CASE e = Len(t)
  BY <1>1, <1>3 DEF e
<1>4. QED
  BY <1>1, <1>2, <1>3

\* Tokens are disjoint.
LEMMA TokensDisjoint ==
    ASSUME NEW t \in Seq(STRING), Readable(t)
    PROVE  \A q \in 1..Len(t) : Starts(t)[q] =>
             \A p \in 1..q - 1 : Starts(t)[p] => Ends(t)[p] < q
<1> DEFINE n == Len(t)
           Apart(q) == q \in 1..n /\ Starts(t)[q] =>
                          \A p \in 1..q - 1 : Starts(t)[p] => Ends(t)[p] < q
           S == {q \in Nat : Apart(q)}
<1>1. n \in Nat
  OBVIOUS
<1>2. ASSUME NEW q \in Nat, \A m \in 0..q - 1 : m \in S PROVE q \in S
  <2>1. SUFFICES ASSUME q \in 1..n, Starts(t)[q], NEW p \in 1..q - 1, Starts(t)[p]
                 PROVE  Ends(t)[p] < q
    OBVIOUS
  <2>2. PICK r \in 1..q - 1 : Starts(t)[r] /\ Ends(t)[r] = q - 1
    BY <2>1, StartsSpec
  <2>3. CASE p = r
    BY <2>1, <2>2, <2>3
  <2>4. CASE p < r
    <3>1. r \in 0..q - 1 /\ r \in 1..n /\ p \in 1..r - 1
      BY <1>1, <2>1, <2>2, <2>4
    <3>2. Apart(r)
      BY <1>2, <3>1
    <3>3. Ends(t)[p] < r
      BY <2>1, <2>2, <3>1, <3>2
    <3>4. Ends(t)[p] \in p..n
      BY <2>1, <1>1 DEF Readable
    <3>5. QED
      BY <1>1, <2>1, <2>2, <3>3, <3>4
  <2>5. CASE p > r
    <3>1. p \in 0..q - 1 /\ p \in 1..n /\ r \in 1..p - 1
      BY <1>1, <2>1, <2>2, <2>5
    <3>2. Apart(p)
      BY <1>2, <3>1
    <3>3. Ends(t)[r] < p
      BY <2>1, <2>2, <3>1, <3>2
    <3>4. QED
      BY <1>1, <2>1, <2>2, <3>1, <3>3
  <2>6. QED
    BY <2>1, <2>2, <2>3, <2>4, <2>5
<1>3. Nat \subseteq S
  <2> HIDE DEF S
  <2>1. QED
    BY <1>2, Complete
<1>4. QED
  BY <1>1, <1>3

LEMMA ProgramIsReadable ==
    ASSUME NEW t \in Seq(STRING), IsProgram(Tokens(t)),
           \A p \in 1..Len(t) : Token(t, p).end # 0 => Token(t, p).end \in p..Len(t)
    PROVE  Readable(t)
<1>1. DOMAIN t = 1..Len(t)
  OBVIOUS
<1> DEFINE at == [p \in DOMAIN t |-> Token(t, p)]
           S == TokenStarts(DOMAIN t, {<<p, at[p].end>> : p \in DOMAIN t})
<1>2. {<<p, at[p].end>> : p \in DOMAIN t} = Spans(t)
  BY DEF Spans
<1>3. S = Starts(t)
  BY <1>2 DEF Starts
<1>4. Tokens(t) = {[from |-> p, to |-> at[p].end, kind |-> at[p].kind] : p \in {i \in DOMAIN t : S[i]}}
  BY DEF Tokens
<1>5. ASSUME NEW p \in DOMAIN t, Starts(t)[p] PROVE Token(t, p).end # 0
  <2>1. [from |-> p, to |-> at[p].end, kind |-> at[p].kind] \in Tokens(t)
    BY <1>3, <1>4, <1>5
  <2>2. at[p].end # 0
    BY <2>1 DEF IsProgram
  <2>3. QED
    BY <2>2
<1>6. QED
  BY <1>1, <1>5 DEF Readable, Ends

-----------------------------------------------------------------------------
(* Block comments *)

\* What BlockEnd is made of: from position i at some depth of openers, where
\* the comment ends.
BlockRest(R, t, open, cl, i, depth) ==
    IF i > Len(t) THEN 0
    ELSE IF At(t, i, open) /\ (lang.nests \/ depth = 0)
    THEN R[i + Len(open)][depth + 1]
    ELSE IF At(t, i, cl)
    THEN IF depth = 1 THEN i + Len(cl) - 1 ELSE R[i + Len(cl)][depth - 1]
    ELSE R[i + 1][depth]

\* The recursion that follows the openers and closers has a solution.
LEMMA BlockRestExists ==
    ASSUME NEW t \in Seq(STRING), NEW n \in Nat, n = Len(t), NEW open, NEW cl,
           Len(open) \in Nat \ {0}, Len(cl) \in Nat \ {0}
    PROVE  \E R : R = [i \in 1..n + 1 |-> [depth \in Int |-> BlockRest(R, t, open, cl, i, depth)]]
<1> DEFINE V == [Int -> Int]
           \* The same, counted from the end of the text.
           Back(h, k, depth) ==
              IF n + 1 - k > n THEN 0
              ELSE IF At(t, n + 1 - k, open) /\ (lang.nests \/ depth = 0)
              THEN h[k - Len(open)][depth + 1]
              ELSE IF At(t, n + 1 - k, cl)
              THEN IF depth = 1 THEN n + 1 - k + Len(cl) - 1 ELSE h[k - Len(cl)][depth - 1]
              ELSE h[k - 1][depth]
           G == [k \in 0..n |-> [h \in [0..k - 1 -> V] |-> [depth \in Int |-> Back(h, k, depth)]]]
<1>1. ASSUME NEW k \in 0..n, NEW m, At(t, n + 1 - k, m), Len(m) \in Nat \ {0}
      PROVE  k - Len(m) \in 0..k - 1
  BY <1>1 DEF At
<1>2. ASSUME NEW k \in 0..n, NEW h \in [0..k - 1 -> V], NEW depth \in Int
      PROVE  Back(h, k, depth) \in Int
  <2>0. \A j \in 0..k - 1, d \in Int : h[j][d] \in Int
    OBVIOUS
  <2>1. depth + 1 \in Int /\ depth - 1 \in Int
    OBVIOUS
  <2>2. CASE n + 1 - k > n
    BY <2>2
  <2>3. CASE ~(n + 1 - k > n) /\ At(t, n + 1 - k, open) /\ (lang.nests \/ depth = 0)
    <3>1. k - Len(open) \in 0..k - 1
      BY <1>1, <2>3
    <3>2. Back(h, k, depth) = h[k - Len(open)][depth + 1]
      BY <2>3
    <3>3. QED
      BY <2>0, <2>1, <3>1, <3>2
  <2>4. CASE ~(n + 1 - k > n) /\ ~(At(t, n + 1 - k, open) /\ (lang.nests \/ depth = 0)) /\ At(t, n + 1 - k, cl)
    <3>1. k - Len(cl) \in 0..k - 1
      BY <1>1, <2>4
    <3>2. Back(h, k, depth) = IF depth = 1 THEN n + 1 - k + Len(cl) - 1 ELSE h[k - Len(cl)][depth - 1]
      BY <2>4
    <3>3. h[k - Len(cl)][depth - 1] \in Int /\ n + 1 - k + Len(cl) - 1 \in Int
      BY <2>0, <2>1, <3>1
    <3> HIDE DEF Back
    <3>4. QED
      BY <3>2, <3>3
  <2>5. CASE ~(n + 1 - k > n) /\ ~(At(t, n + 1 - k, open) /\ (lang.nests \/ depth = 0)) /\ ~At(t, n + 1 - k, cl)
    <3>1. k - 1 \in 0..k - 1
      BY <2>5
    <3>2. Back(h, k, depth) = h[k - 1][depth]
      BY <2>5
    <3>3. QED
      BY <2>0, <3>1, <3>2
  <2>6. QED
    BY <2>2, <2>3, <2>4, <2>5
<1>3. Steps(n, V, G)
  <2> HIDE DEF Back
  <2>1. QED
    BY <1>2 DEF Steps
<1>4. PICK f : Follows(f, n, V, G)
  <2> HIDE DEF G, V
  <2>1. QED
    BY <1>3, Recursion
<1>5. ASSUME NEW k \in 0..n, NEW depth \in Int PROVE f[k][depth] = Back(f, k, depth)
  <2> DEFINE h == [j \in 0..k - 1 |-> f[j]]
  <2>1. f \in [0..n -> V] /\ \A j \in 0..k - 1 : j \in 0..n
    BY <1>4 DEF Follows
  <2>2. h \in [0..k - 1 -> V]
    <3> HIDE DEF V
    <3>1. QED
      BY <2>1
  <2>3. f[k] = G[k][h]
    BY <1>4 DEF Follows
  <2>4. G[k][h] = [d \in Int |-> Back(h, k, d)]
    <3> HIDE DEF h, Back, V
    <3>1. QED
      BY <2>2
  <2>5. f[k][depth] = Back(h, k, depth)
    <3> HIDE DEF h, Back, V, G
    <3>1. QED
      BY <2>3, <2>4
  <2>6. \A j \in 0..k - 1 : h[j] = f[j]
    OBVIOUS
  <2>7. Back(h, k, depth) = Back(f, k, depth)
    <3> HIDE DEF h
    <3>1. k \in 0..n => k - 1 \in 0..k - 1 \/ n + 1 - k > n
      OBVIOUS
    <3>2. QED
      BY <1>1, <2>6, <3>1
  <2>8. QED
    BY <2>5, <2>7
<1> DEFINE R == [i \in 1..n + 1 |-> f[n + 1 - i]]
<1>6. ASSUME NEW k \in 0..n, NEW i \in 1..n + 1, i = n + 1 - k, NEW depth \in Int
      PROVE  R[i][depth] = BlockRest(R, t, open, cl, i, depth)
  <2>1. k = n + 1 - i
    BY <1>6
  <2>2. R[i] = f[k]
    BY <2>1
  <2>3. ASSUME NEW m, At(t, i, m), Len(m) \in Nat \ {0}
        PROVE  R[i + Len(m)] = f[k - Len(m)]
    <3>1. i + Len(m) \in 1..n + 1
      BY <2>3 DEF At
    <3>2. n + 1 - (i + Len(m)) = k - Len(m)
      BY <1>6, <2>3
    <3>3. QED
      BY <3>1, <3>2
  <2>4. i <= n => R[i + 1] = f[k - 1]
    <3>1. i <= n => i + 1 \in 1..n + 1 /\ n + 1 - (i + 1) = k - 1
      BY <1>6
    <3>2. QED
      BY <3>1
  <2> HIDE DEF R
  <2>5. BlockRest(R, t, open, cl, i, depth) =
              IF i > n THEN 0
              ELSE IF At(t, i, open) /\ (lang.nests \/ depth = 0)
              THEN f[k - Len(open)][depth + 1]
              ELSE IF At(t, i, cl)
              THEN IF depth = 1 THEN i + Len(cl) - 1 ELSE f[k - Len(cl)][depth - 1]
              ELSE f[k - 1][depth]
    BY <2>3, <2>4, SMTT(30) DEF BlockRest
  <2>6. f[k][depth] = Back(f, k, depth)
    <3> HIDE DEF Back
    <3>1. QED
      BY <1>5
  <2>7. Back(f, k, depth) = BlockRest(R, t, open, cl, i, depth)
    BY <1>6, <2>5
  <2>8. QED
    <3> HIDE DEF Back
    <3>1. QED
      BY <2>2, <2>6, <2>7
<1>7. R = [i \in 1..n + 1 |-> [depth \in Int |-> BlockRest(R, t, open, cl, i, depth)]]
  <2>1. ASSUME NEW i \in 1..n + 1 PROVE R[i] = [depth \in Int |-> BlockRest(R, t, open, cl, i, depth)]
    <3>1. n + 1 - i \in 0..n /\ f \in [0..n -> V]
      BY <1>4 DEF Follows
    <3>2. R[i] = [depth \in Int |-> R[i][depth]]
      BY <3>1
    <3>3. n + 1 - i \in 0..n /\ i = n + 1 - (n + 1 - i)
      OBVIOUS
    <3> HIDE DEF R
    <3>4. \A depth \in Int : R[i][depth] = BlockRest(R, t, open, cl, i, depth)
      BY <1>6, <3>3
    <3>5. QED
      BY <3>2, <3>4
  <2>2. R = [i \in 1..n + 1 |-> R[i]]
    OBVIOUS
  <2> HIDE DEF R
  <2>3. QED
    BY <2>1, <2>2
<1>8. QED
  <2> HIDE DEF R
  <2>1. QED
    BY <1>7

\* Induction from the end of a text to its beginning.
LEMMA Descend ==
    ASSUME NEW n \in Nat, NEW S,
           \A i \in 1..n + 1 : (\A j \in i + 1..n + 1 : j \in S) => i \in S
    PROVE  \A i \in 1..n + 1 : i \in S
<1> DEFINE T == {m \in Nat : m > n \/ n + 1 - m \in S}
<1>1. ASSUME NEW m \in Nat, \A k \in 0..m - 1 : k \in T PROVE m \in T
  <2>1. CASE m > n
    BY <2>1
  <2>2. CASE m <= n
    <3> DEFINE i == n + 1 - m
    <3>1. i \in 1..n + 1
      BY <2>2
    <3>2. ASSUME NEW j \in i + 1..n + 1 PROVE j \in S
      <4>1. n + 1 - j \in 0..m - 1 /\ n + 1 - (n + 1 - j) = j /\ ~(n + 1 - j > n)
        BY <2>2
      <4>2. n + 1 - j \in T
        BY <1>1, <4>1
      <4>3. QED
        BY <4>1, <4>2
    <3>3. i \in S
      <4> HIDE DEF i
      <4>1. QED
        BY <3>1, <3>2
    <3>4. QED
      BY <3>3
  <2>3. QED
    BY <2>1, <2>2
<1>2. Nat \subseteq T
  <2> HIDE DEF T
  <2>1. QED
    BY <1>1, Complete
<1>3. ASSUME NEW i \in 1..n + 1 PROVE i \in S
  <2>1. n + 1 - i \in Nat /\ ~(n + 1 - i > n) /\ n + 1 - (n + 1 - i) = i
    OBVIOUS
  <2>2. n + 1 - i \in T
    BY <1>2, <2>1
  <2>3. QED
    BY <2>1, <2>2
<1>4. QED
  BY <1>3

\* R is the reading of a text's marks.
Reads(R, t, open, cl) ==
    \A i \in 1..Len(t) + 1, depth \in Int : R[i][depth] = BlockRest(R, t, open, cl, i, depth)

LEMMA BlockEndReads ==
    ASSUME NEW t \in Seq(STRING), NEW open, NEW cl,
           Len(open) \in Nat \ {0}, Len(cl) \in Nat \ {0}
    PROVE  \E R : Reads(R, t, open, cl) /\ \A p \in 1..Len(t) + 1 : BlockEnd(t, p, open, cl) = R[p][0]
<1> DEFINE Satisfies(r) == r = [i \in 1..Len(t) + 1 |-> [depth \in Int |-> BlockRest(r, t, open, cl, i, depth)]]
           R == CHOOSE r : Satisfies(r)
<1>1. \A p \in 1..Len(t) + 1 : BlockEnd(t, p, open, cl) = R[p][0]
  BY DEF BlockEnd, BlockRest
<1>2. \E r : Satisfies(r)
  <2>1. Len(t) \in Nat
    OBVIOUS
  <2>2. QED
    BY <2>1, BlockRestExists
<1>3. Satisfies(R)
  <2> HIDE DEF Satisfies
  <2>1. QED
    BY <1>2
<1>4. ASSUME NEW i \in 1..Len(t) + 1, NEW depth \in Int
      PROVE  R[i][depth] = BlockRest(R, t, open, cl, i, depth)
  <2> HIDE DEF R
  <2>1. R[i] = [d \in Int |-> BlockRest(R, t, open, cl, i, d)]
    BY <1>3
  <2>2. QED
    BY <2>1
<1>5. QED
  <2> HIDE DEF R, Satisfies
  <2>1. QED
    BY <1>1, <1>4 DEF Reads

\* A comment ends in its text.
LEMMA BlockEndBounds ==
    ASSUME NEW t \in Seq(STRING), NEW open, NEW cl, NEW p \in 1..Len(t),
           Len(open) \in Nat \ {0}, Len(cl) \in Nat \ {0}, BlockEnd(t, p, open, cl) # 0
    PROVE  BlockEnd(t, p, open, cl) \in p..Len(t)
<1> DEFINE n == Len(t)
<1>1. n \in Nat
  OBVIOUS
<1>2. PICK R : Reads(R, t, open, cl) /\ \A q \in 1..n + 1 : BlockEnd(t, q, open, cl) = R[q][0]
  BY BlockEndReads
<1> DEFINE S == {i \in 1..n + 1 : \A depth \in Int : R[i][depth] = 0 \/ R[i][depth] \in i..n}
<1>3. ASSUME NEW i \in 1..n + 1, \A j \in i + 1..n + 1 : j \in S PROVE i \in S
  <2> SUFFICES ASSUME NEW depth \in Int PROVE R[i][depth] = 0 \/ R[i][depth] \in i..n
    OBVIOUS
  <2>1. R[i][depth] = BlockRest(R, t, open, cl, i, depth)
    BY <1>2 DEF Reads
  <2>2. ASSUME NEW j \in i + 1..n + 1, NEW d \in Int PROVE R[j][d] = 0 \/ R[j][d] \in i..n
    <3>1. R[j][d] = 0 \/ R[j][d] \in j..n
      BY <1>3
    <3>2. QED
      BY <1>1, <3>1
  <2>3. depth + 1 \in Int /\ depth - 1 \in Int
    OBVIOUS
  <2> DEFINE Inner == At(t, i, open) /\ (lang.nests \/ depth = 0)
  <2>4. CASE i > n
    BY <2>1, <2>4 DEF BlockRest
  <2>5. CASE ~(i > n) /\ Inner
    <3>1. i + Len(open) \in i + 1..n + 1
      BY <2>5 DEF At
    <3>2. R[i][depth] = R[i + Len(open)][depth + 1]
      BY <2>1, <2>5 DEF BlockRest
    <3>3. QED
      BY <2>2, <2>3, <3>1, <3>2
  <2>6. CASE ~(i > n) /\ ~Inner /\ At(t, i, cl)
    <3>1. i + Len(cl) \in i + 1..n + 1 /\ i + Len(cl) - 1 \in i..n
      BY <2>6 DEF At
    <3>2. R[i][depth] = IF depth = 1 THEN i + Len(cl) - 1 ELSE R[i + Len(cl)][depth - 1]
      BY <2>1, <2>6 DEF BlockRest
    <3>3. R[i + Len(cl)][depth - 1] = 0 \/ R[i + Len(cl)][depth - 1] \in i..n
      BY <2>2, <2>3, <3>1
    <3>4. QED
      BY <3>1, <3>2, <3>3
  <2>7. CASE ~(i > n) /\ ~Inner /\ ~At(t, i, cl)
    <3>1. i + 1 \in i + 1..n + 1
      BY <1>1, <2>7
    <3>2. R[i][depth] = R[i + 1][depth]
      BY <2>1, <2>7 DEF BlockRest
    <3>3. QED
      BY <2>2, <3>1, <3>2
  <2>8. QED
    BY <2>4, <2>5, <2>6, <2>7
<1>4. \A i \in 1..n + 1 : i \in S
  <2> HIDE DEF S
  <2>1. QED
    BY <1>1, <1>3, Descend
<1>5. R[p][0] = 0 \/ R[p][0] \in p..n
  <2>1. p \in 1..n + 1
    BY <1>1
  <2>2. QED
    BY <1>4, <2>1
<1>6. QED
  BY <1>1, <1>2, <1>5

\* A block comment of the language is read to its last byte, unless a nested
\* opener hides in its closer.
LEMMA BlockIsRead ==
    ASSUME NEW t \in Seq(STRING), NEW open, NEW cl, NEW p \in 1..Len(t), At(t, p, open),
           Len(open) \in Nat \ {0}, Len(cl) \in Nat \ {0},
           Find(t, p + Len(open), cl) # 0,
           lang.nests =>
             /\ ~Within(t, p + Len(open), Find(t, p + Len(open), cl) - 1, open)
             /\ \A i \in DOMAIN t : At(t, i, open) =>
                  \A j \in i..i + Len(open) - 1 : ~At(t, j, cl)
    PROVE  BlockEnd(t, p, open, cl) = Find(t, p + Len(open), cl) + Len(cl) - 1
<1> DEFINE n == Len(t)
           b == p + Len(open)
           k == Find(t, b, cl)
           e == k + Len(cl) - 1
<1>1. n \in Nat /\ b \in Nat \ {0} /\ b \in p + 1..n + 1 /\ DOMAIN t = 1..n
  BY DEF At
<1>2. k \in b..n /\ At(t, k, cl) /\ \A i \in b..n : At(t, i, cl) => k <= i
  BY <1>1, FindSpec
<1>3. PICK R : Reads(R, t, open, cl) /\ \A q \in 1..n + 1 : BlockEnd(t, q, open, cl) = R[q][0]
  BY BlockEndReads
<1>4. lang.nests => \A i \in b..k : ~At(t, i, open)
  <2> SUFFICES ASSUME lang.nests, NEW i \in b..k, At(t, i, open) PROVE FALSE
    OBVIOUS
  <2> HIDE DEF k, b
  <2>1. i \in 1..n /\ i \in Nat /\ k \in Nat
    BY <1>1, <1>2
  <2>2. ~(k \in i..i + Len(open) - 1)
    BY <1>1, <1>2, <2>1
  <2>3. i + Len(open) <= k /\ i \in b..k - 1
    BY <1>1, <2>1, <2>2
  <2>4. Within(t, b, k - 1, open)
    BY <1>1, <2>1, <2>3 DEF Within
  <2>5. QED
    BY <2>4 DEF k, b
<1> HIDE DEF b, k
<1>5. ASSUME NEW i \in b..k - 1 PROVE R[i][1] = R[i + 1][1]
  <2>1. i \in b..n /\ i \in 1..n + 1 /\ ~(i > n) /\ ~(k <= i) /\ i \in b..k
    BY <1>1, <1>2
  <2>2. ~At(t, i, cl) /\ ~(At(t, i, open) /\ (lang.nests \/ 1 = 0))
    BY <1>2, <1>4, <2>1
  <2>3. R[i][1] = BlockRest(R, t, open, cl, i, 1)
    BY <1>3, <2>1 DEF Reads
  <2>4. QED
    BY <2>1, <2>2, <2>3 DEF BlockRest
<1>6. R[k][1] = e
  <2>1. k \in 1..n + 1 /\ ~(k > n) /\ k \in b..k
    BY <1>1, <1>2
  <2>2. ~(At(t, k, open) /\ (lang.nests \/ 1 = 0))
    BY <1>4, <2>1
  <2>3. R[k][1] = BlockRest(R, t, open, cl, k, 1)
    BY <1>3, <2>1 DEF Reads
  <2>4. QED
    BY <1>2, <2>1, <2>2, <2>3 DEF BlockRest
<1>7. R[b][1] = e
  <2> DEFINE S == {m \in Nat : R[k - m][1] = e}
  <2>1. 0 \in S
    <3>1. k - 0 = k
      BY <1>2
    <3>2. QED
      BY <1>6, <3>1
  <2>2. ASSUME NEW m \in 0..k - b - 1, m \in S PROVE m + 1 \in S
    <3>1. k - (m + 1) \in b..k - 1 /\ k - (m + 1) + 1 = k - m /\ m + 1 \in Nat
      BY <1>1, <1>2
    <3>2. R[k - (m + 1)][1] = R[k - m][1]
      BY <1>5, <3>1
    <3>3. QED
      BY <2>2, <3>1, <3>2
  <2>3. k - b \in Nat /\ k - b \in 0..k - b /\ k - (k - b) = b
    BY <1>1, <1>2
  <2>4. k - b \in S
    <3> HIDE DEF S
    <3>1. \A m \in 0..k - b : m \in S
      BY <2>1, <2>2, <2>3, Climb
    <3>2. QED
      BY <2>3, <3>1
  <2>5. QED
    BY <2>3, <2>4
<1>8. R[p][0] = R[b][1]
  <2>1. p \in 1..n + 1 /\ ~(p > n) /\ 0 + 1 = 1
    BY <1>1
  <2>2. R[p][0] = BlockRest(R, t, open, cl, p, 0)
    BY <1>3, <2>1 DEF Reads
  <2>3. QED
    BY <2>1, <2>2 DEF BlockRest, b
<1>9. QED
  BY <1>1, <1>3, <1>7, <1>8 DEF k, b

-----------------------------------------------------------------------------
(* The kinds of tokens *)

GuardAt(t, p) == \E g \in lang.guardLine : At(t, p, g)
LineMarkAt(t, p) == \E m \in DOMAIN lang.lineComments : At(t, p, lang.lineComments[m])
BlockMarkAt(t, p, m) ==
    /\ m \in DOMAIN lang.blockComments /\ At(t, p, lang.blockComments[m][1])
    /\ \A k \in DOMAIN lang.blockComments : At(t, p, lang.blockComments[k][1]) => m <= k
StringMarkAt(t, p, m) ==
    /\ m \in DOMAIN lang.strings /\ At(t, p, lang.strings[m].open)
    /\ \A k \in DOMAIN lang.strings : At(t, p, lang.strings[k].open) => m <= k

RawMarkAt(t, p, m) == m \in DOMAIN lang.rawStrings /\ At(t, p, lang.rawStrings[m].open)
CharacterEnds(t, p, e) ==
    /\ e \in p + 2..Len(t) /\ t[p] \in lang.charQuotes
    /\ t[e] = t[p] /\ \A i \in p + 1..e : t[i] # "n"

LEMMA CharEndSpec ==
    ASSUME NEW t \in Seq(STRING), NEW p \in 1..Len(t), CharEnd(t, p) # p
    PROVE  CharacterEnds(t, p, CharEnd(t, p))
<1> DEFINE closing == {e \in p + 2..Len(t) :
            /\ t[e] = t[p] /\ \A i \in p + 1..e : t[i] # "n"
            /\ IF t[p + 1] = "b" THEN e > p + 2 ELSE e = p + 2 /\ t[p + 1] # t[p]}
<1>1. t[p] \in lang.charQuotes /\ closing # {} /\ CharEnd(t, p) = Least(closing)
  BY DEF CharEnd
<1>2. closing \in SUBSET Nat /\ 0 \notin closing
  <2>1. p \in Nat /\ Len(t) \in Nat
    OBVIOUS
  <2>2. QED
    BY <2>1
<1>3. Least(closing) \in closing
  <2> HIDE DEF closing
  <2>1. QED
    BY <1>1, <1>2, LeastSpec
<1>4. QED
  BY <1>1, <1>3 DEF CharacterEnds

\* The language takes the first kind of mark that stands at p, and of its
\* marks the first listed.
LEMMA TokenKinds ==
    ASSUME LanguageShape(lang), NEW t \in Seq(STRING), NEW p \in 1..Len(t)
    PROVE  LET k == Token(t, p)
           IN  \/ /\ GuardAt(t, p) /\ k.kind = "opaque"
                  /\ \/ k.end = LineEnd(t, p) - 1
                     \/ /\ k.end = Len(t)
                        /\ \E m \in DOMAIN lang.strings :
                              /\ lang.strings[m].multiline
                              /\ Within(t, p, LineEnd(t, p) - 1, lang.strings[m].open)
               \/ /\ ~GuardAt(t, p) /\ LineMarkAt(t, p)
                  /\ k.kind = "comment" /\ k.end = LineEnd(t, p) - 1
               \/ /\ ~GuardAt(t, p) /\ ~LineMarkAt(t, p) /\ k.kind = "comment"
                  /\ \E m : BlockMarkAt(t, p, m)
                        /\ k.end = BlockEnd(t, p, lang.blockComments[m][1], lang.blockComments[m][2])
               \/ /\ ~GuardAt(t, p) /\ ~LineMarkAt(t, p) /\ k.kind = "string"
                  /\ \A m : ~BlockMarkAt(t, p, m)
                  /\ \E m : StringMarkAt(t, p, m) /\ k.end = LiteralEnd(t, p, lang.strings[m])
               \/ /\ ~GuardAt(t, p) /\ ~LineMarkAt(t, p) /\ k.kind = "foreign"
                  /\ \A m : ~BlockMarkAt(t, p, m) /\ ~StringMarkAt(t, p, m)
                  /\ \/ \E m : RawMarkAt(t, p, m) /\ k.end = LiteralEnd(t, p, lang.rawStrings[m])
                     \/ k.end # p /\ CharacterEnds(t, p, k.end)
               \/ /\ ~GuardAt(t, p) /\ ~LineMarkAt(t, p) /\ k.kind = "code" /\ k.end = p
                  /\ \A m : ~BlockMarkAt(t, p, m) /\ ~StringMarkAt(t, p, m)
<1> DEFINE k == Token(t, p)
           lc == {m \in DOMAIN lang.lineComments : At(t, p, lang.lineComments[m])}
           bc == {m \in DOMAIN lang.blockComments : At(t, p, lang.blockComments[m][1])}
           st == {m \in DOMAIN lang.strings : At(t, p, lang.strings[m].open)}
           raw == {m \in DOMAIN lang.rawStrings : At(t, p, lang.rawStrings[m].open)}
           multi == {m \in DOMAIN lang.strings :
                       /\ lang.strings[m].multiline
                       /\ Within(t, p, LineEnd(t, p) - 1, lang.strings[m].open)}
           opaque == [kind |-> "opaque", end |-> IF multi = {} THEN LineEnd(t, p) - 1 ELSE Len(t)]
           comment == [kind |-> "comment", end |-> LineEnd(t, p) - 1]
           block(m) == [kind |-> "comment",
                        end |-> BlockEnd(t, p, lang.blockComments[m][1], lang.blockComments[m][2])]
           string(m) == [kind |-> "string", end |-> LiteralEnd(t, p, lang.strings[m])]
           rawString(m) == [kind |-> "foreign", end |-> LiteralEnd(t, p, lang.rawStrings[m])]
           char == [kind |-> IF CharEnd(t, p) = p THEN "code" ELSE "foreign", end |-> CharEnd(t, p)]
<1>1. k = IF GuardAt(t, p) THEN opaque ELSE IF lc # {} THEN comment
          ELSE IF bc # {} THEN block(Least(bc)) ELSE IF st # {} THEN string(Least(st))
          ELSE IF raw # {} THEN rawString(Least(raw)) ELSE char
  BY DEF Token, GuardAt
<1>2. LineMarkAt(t, p) <=> lc # {}
  BY DEF LineMarkAt
<1>3. bc \in SUBSET Nat /\ 0 \notin bc /\ st \in SUBSET Nat /\ 0 \notin st
      /\ raw \in SUBSET Nat /\ 0 \notin raw
  <2>1. DOMAIN lang.blockComments = 1..Len(lang.blockComments) /\ DOMAIN lang.strings = 1..Len(lang.strings)
        /\ DOMAIN lang.rawStrings = 1..Len(lang.rawStrings)
        /\ Len(lang.blockComments) \in Nat /\ Len(lang.strings) \in Nat /\ Len(lang.rawStrings) \in Nat
    BY SMTT(30) DEF LanguageShape
  <2>2. QED
    BY <2>1
<1>4. bc # {} => BlockMarkAt(t, p, Least(bc))
  <2>1. bc # {} => Least(bc) \in bc /\ \A j \in bc : Least(bc) <= j
    <3> HIDE DEF bc
    <3>1. QED
      BY <1>3, LeastSpec
  <2>2. QED
    BY <2>1 DEF BlockMarkAt
<1>5. st # {} => StringMarkAt(t, p, Least(st))
  <2>1. st # {} => Least(st) \in st /\ \A j \in st : Least(st) <= j
    <3> HIDE DEF st
    <3>1. QED
      BY <1>3, LeastSpec
  <2>2. QED
    BY <2>1 DEF StringMarkAt
<1>6. bc = {} => \A m : ~BlockMarkAt(t, p, m)
  BY DEF BlockMarkAt
<1>7. st = {} => \A m : ~StringMarkAt(t, p, m)
  BY DEF StringMarkAt
<1>8. multi # {} => \E m \in DOMAIN lang.strings :
                       /\ lang.strings[m].multiline
                       /\ Within(t, p, LineEnd(t, p) - 1, lang.strings[m].open)
  OBVIOUS
<1>9. CASE GuardAt(t, p)
  <2>1. k.kind = "opaque" /\ k.end = IF multi = {} THEN LineEnd(t, p) - 1 ELSE Len(t)
    BY <1>1, <1>9
  <2> HIDE DEF k, multi
  <2>2. QED
    BY <1>8, <1>9, <2>1 DEF k
<1>10. CASE ~GuardAt(t, p) /\ lc # {}
  <2>1. k.kind = "comment" /\ k.end = LineEnd(t, p) - 1
    BY <1>1, <1>10
  <2>2. QED
    BY <1>2, <1>10, <2>1
<1>11. CASE ~GuardAt(t, p) /\ lc = {} /\ bc # {}
  <2>1. k = block(Least(bc))
    BY <1>1, <1>11
  <2> HIDE DEF lc, bc
  <2>2. QED
    BY <1>2, <1>4, <1>11, <2>1
<1>12. CASE ~GuardAt(t, p) /\ lc = {} /\ bc = {} /\ st # {}
  <2>1. k = string(Least(st))
    BY <1>1, <1>12
  <2> HIDE DEF lc, bc, st
  <2>2. QED
    BY <1>2, <1>5, <1>6, <1>12, <2>1
<1>13. CASE ~GuardAt(t, p) /\ lc = {} /\ bc = {} /\ st = {} /\ raw # {}
  <2>1. k = rawString(Least(raw))
    BY <1>1, <1>13
  <2>2. RawMarkAt(t, p, Least(raw))
    <3>1. Least(raw) \in raw
      <4> HIDE DEF raw
      <4>1. QED
        BY <1>3, <1>13, LeastSpec
    <3>2. QED
      BY <3>1 DEF RawMarkAt
  <2> HIDE DEF lc, bc, st, raw
  <2>3. QED
    BY <1>2, <1>6, <1>7, <1>13, <2>1, <2>2
<1>14. CASE ~GuardAt(t, p) /\ lc = {} /\ bc = {} /\ st = {} /\ raw = {}
  <2>1. k = char
    BY <1>1, <1>14
  <2>2. k.end = CharEnd(t, p) /\ k.kind = IF CharEnd(t, p) = p THEN "code" ELSE "foreign"
    BY <2>1
  <2>3. CharEnd(t, p) # p => CharacterEnds(t, p, CharEnd(t, p))
    BY CharEndSpec
  <2> HIDE DEF lc, bc, st, raw, k
  <2>4. CASE CharEnd(t, p) = p
    BY <1>2, <1>6, <1>7, <1>14, <2>2, <2>4 DEF k
  <2>5. CASE CharEnd(t, p) # p
    BY <1>2, <1>6, <1>7, <1>14, <2>2, <2>3, <2>5 DEF k
  <2>6. QED
    BY <2>4, <2>5
<1>15. QED
  <2> HIDE DEF lc, bc, st, raw, k
  <2>1. QED
    BY <1>9, <1>10, <1>11, <1>12, <1>13, <1>14

-----------------------------------------------------------------------------
(* What is shown of a text, and the invariant of its strip *)

\* The bytes of the comments of t that mean nothing to the language.
Comments(t) == CommentBytes(t, Tokens(t))

\* Behind the first byte of a literal that is foreign to the scanner.
InForeign(t, p) ==
    \E q \in DOMAIN t : Starts(t)[q] /\ Token(t, q).kind = "foreign" /\ p \in q + 1..Token(t, q).end

\* The scanner stands between two tokens, inside a foreign literal, or in the
\* rest of a guarded line.
OnTrack ==
    \/ pos = Len(text) + 1 \/ Starts(text)[pos] \/ InForeign(text, pos)
    \/ /\ Triggered(text, line)
       /\ \E q \in 1..pos : Starts(text)[q] /\ \A i \in q..pos - 1 : text[i] # "n"

OnlyComments(t, u) == \A i \in DOMAIN t : u[i] # t[i] => i \in Comments(t)

\* Before p, every comment is blank.
AllComments(t, u, p) == \A i \in Comments(t) : i < p /\ t[i] # "n" => u[i] = " "

Exact ==
    scan \in {"scanning", "stripped"} /\ Lexable(text) /\ IsProgram(Tokens(text)) =>
        /\ ~OpensOnGuarded(text) /\ OnTrack /\ OnlyComments(text, out)
        /\ ~Guarded(text) => AllComments(text, out, pos)
        /\ scan = "stripped" => pos = Len(text) + 1

\* A strip's step changes nothing in how the text is read.
LEMMA ReadingKept ==
    ASSUME text' = text, lang' = lang
    PROVE  /\ Lexable(text)' = Lexable(text) /\ Guarded(text)' = Guarded(text)
           /\ OpensOnGuarded(text)' = OpensOnGuarded(text)
           /\ Starts(text)' = Starts(text)
           /\ Tokens(text)' = Tokens(text) /\ Comments(text)' = Comments(text)
           /\ \A k : Triggered(text, k)' = Triggered(text, k)
           /\ \A p : InForeign(text, p)' = InForeign(text, p)
<1>1. \A p, open, cl : BlockEnd(text, p, open, cl)' = BlockEnd(text, p, open, cl)
  BY SMTT(30) DEF BlockEnd, At
<1>2. \A p : Token(text, p)' = Token(text, p)
  BY <1>1 DEF Token, CharEnd
<1>3. Tokens(text)' = Tokens(text)
  BY <1>2 DEF Tokens
<1>4. Starts(text)' = Starts(text)
  BY <1>2 DEF Starts, Spans, Ends
<1>5. Comments(text)' = Comments(text)
  BY <1>3 DEF Comments, CommentBytes
<1>6. \A k : Triggered(text, k)' = Triggered(text, k)
  BY DEF Triggered, OnLine
<1>7. Guarded(text)' = Guarded(text)
  BY <1>6 DEF Guarded
<1>8. OpensOnGuarded(text)' = OpensOnGuarded(text)
  BY <1>6 DEF OpensOnGuarded, OnLine
<1>9. Lexable(text)' = Lexable(text)
  BY <1>3 DEF Lexable, Overlaps, Splices, MarkAt
<1>10. \A p : InForeign(text, p)' = InForeign(text, p)
  BY <1>2, <1>4 DEF InForeign
<1>11. QED
  BY <1>3, <1>4, <1>5, <1>6, <1>7, <1>8, <1>9, <1>10

\* What stands under a marker.
LEMMA UnderMarker ==
    ASSUME NEW t \in Seq(STRING), NEW p \in 1..Len(t), NEW m, Marker(m), At(t, p, m)
    PROVE  /\ t[p] # "n" /\ Len(m) \in Nat \ {0} /\ p + Len(m) \in p + 1..Len(t) + 1
           /\ \A i \in p..p + Len(m) - 1 : i \in 1..Len(t) /\ t[i] # "n"
           /\ LineEnd(t, p) >= p + Len(m) /\ LineEnd(t, p) \in p + 1..Len(t) + 1
<1>1. Len(m) \in Nat \ {0} /\ Len(t) \in Nat /\ p \in Nat
  BY DEF Marker
<1>2. \A i \in p..p + Len(m) - 1 : t[i] # "n"
  BY <1>1, MarkerHasNoNewline
<1>3. p + Len(m) \in p + 1..Len(t) + 1
  BY <1>1 DEF At
<1>4. p \in p..p + Len(m) - 1
  BY <1>1
<1>5. /\ LineEnd(t, p) \in p..Len(t) + 1
      /\ LineEnd(t, p) <= Len(t) => t[LineEnd(t, p)] = "n"
  BY LineEndSpec
<1>6. LineEnd(t, p) >= p + Len(m)
  <2>1. SUFFICES ASSUME LineEnd(t, p) < p + Len(m) PROVE FALSE
    BY <1>1, <1>5
  <2>2. LineEnd(t, p) \in p..p + Len(m) - 1 /\ LineEnd(t, p) <= Len(t)
    BY <1>1, <1>3, <1>5, <2>1
  <2>3. QED
    BY <1>2, <1>5, <2>2
<1>7. QED
  BY <1>1, <1>2, <1>3, <1>4, <1>5, <1>6

LEMMA StringsShape ==
    ASSUME LanguageShape(lang), NEW m \in DOMAIN lang.strings
    PROVE  /\ lang.strings[m] \in StringSyntax
           /\ Marker(lang.strings[m].open) /\ Marker(lang.strings[m].close)
           /\ lang.strings[m].escape \in {<<>>, <<"b">>}
           /\ \A k \in DOMAIN lang.strings[m].close : lang.strings[m].close[k] # "b"
<1>1. lang.strings \in Seq(StringSyntax)
  BY DEF LanguageShape
<1>2. QED
  BY <1>1 DEF LanguageShape

LEMMA RawStringsShape ==
    ASSUME LanguageShape(lang), NEW m \in DOMAIN lang.rawStrings
    PROVE  /\ lang.rawStrings[m] \in StringSyntax
           /\ Marker(lang.rawStrings[m].open) /\ Marker(lang.rawStrings[m].close)
           /\ lang.rawStrings[m].escape = <<>>
<1>1. lang.rawStrings \in Seq(StringSyntax)
  BY DEF LanguageShape
<1>2. QED
  BY <1>1 DEF LanguageShape

\* A literal that ends, ends in its text.
LEMMA LiteralEndInText ==
    ASSUME NEW s \in StringSyntax, Marker(s.open), Marker(s.close), s.escape \in {<<>>, <<"b">>},
           text \in Seq(STRING), NEW p \in 1..Len(text), At(text, p, s.open),
           LiteralEnd(text, p, s) # 0
    PROVE  LiteralEnd(text, p, s) \in p..Len(text)
<1> DEFINE b == p + Len(s.open)
<1>1. Len(text) \in Nat /\ p \in Nat
  OBVIOUS
<1>2. b \in p + 1..Len(text) + 1
  BY UnderMarker
<1>3. b \in 1..Len(text) + 1 /\ b = p + Len(s.open)
  BY <1>1, <1>2
<1> HIDE DEF b
<1>4. LiteralEnd(text, p, s) \in b..Len(text)
  BY <1>3, LiteralIsRead
<1>5. QED
  BY <1>1, <1>2, <1>4

\* A token that ends, ends in its text.
LEMMA TokenEndInText ==
    ASSUME LanguageShape(lang), text \in Seq(STRING), NEW p \in 1..Len(text),
           Token(text, p).end # 0
    PROVE  Token(text, p).end \in p..Len(text)
<1> DEFINE k == Token(text, p)
<1>1. Len(text) \in Nat /\ p \in Nat
  OBVIOUS
<1>2. ASSUME GuardAt(text, p) PROVE LineEnd(text, p) - 1 \in p..Len(text)
  <2>1. PICK g \in lang.guardLine : At(text, p, g)
    BY <1>2 DEF GuardAt
  <2>2. Marker(g)
    BY DEF LanguageShape
  <2>3. LineEnd(text, p) \in p + 1..Len(text) + 1
    BY <2>1, <2>2, UnderMarker
  <2>4. QED
    BY <1>1, <2>3
<1>3. ASSUME LineMarkAt(text, p) PROVE LineEnd(text, p) - 1 \in p..Len(text)
  <2>1. PICK m \in DOMAIN lang.lineComments : At(text, p, lang.lineComments[m])
    BY <1>3 DEF LineMarkAt
  <2>2. Marker(lang.lineComments[m])
    BY DEF LanguageShape
  <2>3. LineEnd(text, p) \in p + 1..Len(text) + 1
    BY <2>1, <2>2, UnderMarker
  <2>4. QED
    BY <1>1, <2>3
<1>4. ASSUME NEW m, BlockMarkAt(text, p, m),
             k.end = BlockEnd(text, p, lang.blockComments[m][1], lang.blockComments[m][2])
      PROVE  k.end \in p..Len(text)
  <2>1. Marker(lang.blockComments[m][1]) /\ Marker(lang.blockComments[m][2])
    BY <1>4 DEF BlockMarkAt, LanguageShape
  <2>2. Len(lang.blockComments[m][1]) \in Nat \ {0} /\ Len(lang.blockComments[m][2]) \in Nat \ {0}
    BY <2>1 DEF Marker
  <2> HIDE DEF k
  <2>3. QED
    BY <1>4, <2>2, BlockEndBounds DEF k
<1>5. ASSUME NEW m, StringMarkAt(text, p, m), k.end = LiteralEnd(text, p, lang.strings[m])
      PROVE  k.end \in p..Len(text)
  <2>1. m \in DOMAIN lang.strings /\ At(text, p, lang.strings[m].open)
    BY <1>5 DEF StringMarkAt
  <2>2. LiteralEnd(text, p, lang.strings[m]) # 0
    BY <1>5
  <2> HIDE DEF k
  <2>3. LiteralEnd(text, p, lang.strings[m]) \in p..Len(text)
    BY <2>1, <2>2, StringsShape, LiteralEndInText
  <2>4. QED
    BY <1>5, <2>3
<1>6. ASSUME NEW m, RawMarkAt(text, p, m), k.end = LiteralEnd(text, p, lang.rawStrings[m])
       PROVE  k.end \in p..Len(text)
  <2>1. m \in DOMAIN lang.rawStrings /\ At(text, p, lang.rawStrings[m].open)
    BY <1>6 DEF RawMarkAt
  <2>2. LiteralEnd(text, p, lang.rawStrings[m]) # 0
    BY <1>6
  <2> HIDE DEF k
  <2>3. LiteralEnd(text, p, lang.rawStrings[m]) \in p..Len(text)
    BY <2>1, <2>2, RawStringsShape, LiteralEndInText
  <2>4. QED
    BY <1>6, <2>3
<1>7. CharacterEnds(text, p, k.end) => k.end \in p..Len(text)
  <2> HIDE DEF k
  <2>1. \A e \in p + 2..Len(text) : e \in p..Len(text)
    BY <1>1
  <2>2. QED
    BY <2>1 DEF CharacterEnds
<1>8. p \in p..Len(text) /\ Len(text) \in p..Len(text)
  BY <1>1
<1> HIDE DEF k
<1>9. \/ GuardAt(text, p) /\ (k.end = LineEnd(text, p) - 1 \/ k.end = Len(text))
      \/ LineMarkAt(text, p) /\ k.end = LineEnd(text, p) - 1
      \/ k.end \in p..Len(text)
  BY <1>4, <1>5, <1>6, <1>7, <1>8, TokenKinds DEF k
<1>10. QED
  BY <1>2, <1>3, <1>8, <1>9 DEF k

\* The bytes of a program's tokens: a byte is a comment's that means nothing if
\* and only if its token is.
LEMMA TokenByte ==
    ASSUME NEW t \in Seq(STRING), Readable(t), NEW p \in 1..Len(t), Starts(t)[p],
           NEW i \in p..Ends(t)[p]
    PROVE  i \in Comments(t) <=>
              Token(t, p).kind = "comment" /\ ~\E m \in lang.keep : At(t, p, m)
<1>1. DOMAIN t = 1..Len(t) /\ Len(t) \in Nat
  OBVIOUS
<1> DEFINE at == [q \in DOMAIN t |-> Token(t, q)]
           S == TokenStarts(DOMAIN t, {<<q, at[q].end>> : q \in DOMAIN t})
           tokenAt(q) == [from |-> q, to |-> at[q].end, kind |-> at[q].kind]
           plain(c) == c.kind = "comment" /\ ~\E m \in lang.keep : At(t, c.from, m)
           plainAt(q) == Token(t, q).kind = "comment" /\ ~\E m \in lang.keep : At(t, q, m)
<1>2. {<<q, at[q].end>> : q \in DOMAIN t} = Spans(t)
  BY DEF Spans
<1>3. S = Starts(t)
  BY <1>2 DEF Starts
<1>4. Tokens(t) = {tokenAt(q) : q \in {j \in DOMAIN t : Starts(t)[j]}}
  BY <1>3 DEF Tokens
<1>5. ASSUME NEW q \in 1..Len(t)
      PROVE  /\ tokenAt(q).from = q /\ tokenAt(q).to = Ends(t)[q]
             /\ plain(tokenAt(q)) <=> plainAt(q)
  BY <1>1 DEF Ends
<1> HIDE DEF tokenAt, plainAt
<1>6. Comments(t) = UNION {c.from..c.to : c \in {d \in Tokens(t) : plain(d)}}
  BY DEF Comments, CommentBytes
<1>7. i \in Comments(t) <=> \E q \in 1..Len(t) : Starts(t)[q] /\ plainAt(q) /\ i \in q..Ends(t)[q]
  <2>1. ASSUME i \in Comments(t)
        PROVE  \E q \in 1..Len(t) : Starts(t)[q] /\ plainAt(q) /\ i \in q..Ends(t)[q]
    <3>1. PICK c \in Tokens(t) : plain(c) /\ i \in c.from..c.to
      <4> HIDE DEF plain
      <4>1. QED
        BY <1>6, <2>1
    <3>2. PICK q \in 1..Len(t) : Starts(t)[q] /\ c = tokenAt(q)
      BY <1>1, <1>4
    <3>3. QED
      BY <1>5, <3>1, <3>2
  <2>2. ASSUME NEW q \in 1..Len(t), Starts(t)[q], plainAt(q), i \in q..Ends(t)[q]
        PROVE  i \in Comments(t)
    <3>1. tokenAt(q) \in Tokens(t)
      BY <1>1, <1>4, <2>2
    <3>2. plain(tokenAt(q)) /\ i \in tokenAt(q).from..tokenAt(q).to
      BY <1>5, <2>2
    <3> HIDE DEF plain
    <3>3. QED
      BY <1>6, <3>1, <3>2
  <2>3. QED
    BY <2>1, <2>2
<1>8. ASSUME NEW q \in 1..Len(t), Starts(t)[q], i \in q..Ends(t)[q] PROVE q = p
  <2>1. Ends(t)[p] \in p..Len(t) /\ Ends(t)[q] \in q..Len(t)
    BY <1>1, <1>8 DEF Readable
  <2>2. CASE q < p
    <3>1. q \in 1..p - 1
      BY <2>2
    <3>2. Ends(t)[q] < p
      BY <1>8, <3>1, TokensDisjoint
    <3>3. QED
      BY <1>1, <1>8, <2>1, <3>2
  <2>3. CASE p < q
    <3>1. p \in 1..q - 1
      BY <2>3
    <3>2. Ends(t)[p] < q
      BY <1>8, <3>1, TokensDisjoint
    <3>3. QED
      BY <1>1, <1>8, <2>1, <3>2
  <2>4. QED
    BY <2>2, <2>3
<1>9. i \in Comments(t) <=> plainAt(p)
  BY <1>7, <1>8
<1>10. QED
  BY <1>9 DEF plainAt

-----------------------------------------------------------------------------
(* Guarded lines: nothing the language opens there reaches over their end *)

\* A literal that may not span lines has no newline, if none is escaped.
LEMMA LiteralStaysOnLine ==
    ASSUME NEW s \in StringSyntax, Marker(s.open), Marker(s.close), s.escape \in {<<>>, <<"b">>},
           \A i \in DOMAIN s.close : s.close[i] # "b", ~s.multiline,
           text \in Seq(STRING), ~Splices(text), NEW p \in 1..Len(text), At(text, p, s.open),
           LiteralEnd(text, p, s) # 0
    PROVE  \A i \in p..LiteralEnd(text, p, s) : text[i] # "n"
<1> DEFINE b == p + Len(s.open)
           e == LiteralEnd(text, p, s)
<1>1. /\ b \in p + 1..Len(text) + 1 /\ Len(text) \in Nat /\ p \in Nat
      /\ \A i \in p..b - 1 : text[i] # "n"
  BY UnderMarker
<1>2. b \in 1..Len(text) + 1 /\ b = p + Len(s.open)
  BY <1>1
<1> HIDE DEF b, e
<1>3. PICK k \in b..Len(text) :
          /\ At(text, k, s.close) /\ e = k + Len(s.close) - 1
          /\ \A i \in b..k - 1 : text[i] = "n" => Escapes(text, b, i, s.escape) % 2 # 0
  BY <1>2, LiteralIsRead DEF e
<1>4. k \in Nat /\ k \in 1..Len(text) /\ b \in Nat
  BY <1>1
<1>5. \A i \in k..e : text[i] # "n"
  <2>1. \A i \in k..k + Len(s.close) - 1 : text[i] # "n"
    BY <1>3, <1>4, UnderMarker
  <2>2. QED
    BY <1>3, <2>1
<1>6. ASSUME NEW i \in b..k - 1, text[i] = "n" PROVE FALSE
  <2>1. i \in Int /\ b <= i /\ i \in 1..Len(text)
    BY <1>1, <1>4
  <2>2. Escapes(text, b, i, s.escape) % 2 # 0
    BY <1>3, <1>6
  <2>3. s.escape = <<"b">>
    <3>1. s.escape = <<>> => Escapes(text, b, i, s.escape) = 0 /\ 0 % 2 = 0
      BY DEF Escapes
    <3>2. QED
      BY <2>2, <3>1
  <2>4. b # i
    <3>1. Escapes(text, b, b, <<"b">>) = 0 /\ 0 % 2 = 0
      <4>1. b \in Int /\ b <= b
        BY <1>4
      <4>2. QED
        BY <4>1, EscapesStep
    <3>2. QED
      BY <2>2, <2>3, <3>1
  <2>5. text[i - 1] = "b"
    <3>1. i - 1 \in Int /\ b <= i - 1 /\ i - 1 + 1 = i
      BY <1>4, <2>1, <2>4
    <3>2. Escapes(text, b, i - 1 + 1, <<"b">>) =
             IF text[i - 1] = "b" THEN Escapes(text, b, i - 1, <<"b">>) + 1 ELSE 0
      <4>1. b \in Int
        BY <1>4
      <4>2. QED
        BY <3>1, <4>1, EscapesStep
    <3>3. 0 % 2 = 0
      OBVIOUS
    <3>4. QED
      BY <2>2, <2>3, <3>1, <3>2, <3>3
  <2>6. i - 1 \in 1..Len(text) - 1 /\ i - 1 + 1 = i
    BY <1>1, <1>4, <2>1, <2>4
  <2>7. QED
    BY <1>6, <2>5, <2>6 DEF Splices
<1>7. ASSUME NEW i \in p..e PROVE text[i] # "n"
  <2>1. i \in p..b - 1 \/ i \in b..k - 1 \/ i \in k..e
    BY <1>4, <1>1
  <2>2. QED
    BY <1>1, <1>5, <1>6, <2>1
<1>8. QED
  BY <1>7 DEF e

\* No opener of a string of any length stands on a guarded line.
LEMMA NothingOpensOnGuarded ==
    ASSUME text \in Seq(STRING), ~OpensOnGuarded(text), NEW p \in 1..Len(text),
           Triggered(text, Newlines(text, 1, p - 1)), NEW m \in DOMAIN lang.strings,
           At(text, p, lang.strings[m].open)
    PROVE  ~lang.strings[m].multiline
<1>1. Len(text) \in Nat /\ p \in Nat
  OBVIOUS
<1>2. Newlines(text, 1, p - 1) \in 0..Newlines(text, 1, Len(text))
  <2>1. /\ 1 \in Int /\ p - 1 \in Int /\ Len(text) \in Int /\ 1 <= p - 1 + 1
        /\ p - 1 <= Len(text) /\ p - 1 + 1 \in Int
    BY <1>1
  <2>2. Newlines(text, 1, Len(text)) = Newlines(text, 1, p - 1) + Newlines(text, p - 1 + 1, Len(text))
    BY <2>1, NewlinesSplit
  <2>3. Newlines(text, 1, p - 1) \in Nat /\ Newlines(text, p - 1 + 1, Len(text)) \in Nat
    BY <2>1, NewlinesType
  <2>4. QED
    BY <2>2, <2>3
<1>3. OnLine(text, Newlines(text, 1, p - 1), lang.strings[m].open)
  BY DEF OnLine
<1>4. QED
  BY <1>2, <1>3 DEF OpensOnGuarded

LEMMA SameLine ==
    ASSUME text \in Seq(STRING), NEW q \in 1..Len(text), NEW p \in q..Len(text),
           \A i \in q..p - 1 : text[i] # "n"
    PROVE  Newlines(text, 1, p - 1) = Newlines(text, 1, q - 1)
<1>1. Len(text) \in Nat /\ p \in Nat /\ q \in Nat
  OBVIOUS
<1>2. /\ 1 \in Int /\ p - 1 \in Int /\ q - 1 \in Int /\ 1 <= q - 1 + 1 /\ q - 1 <= p - 1
      /\ q - 1 + 1 = q /\ q \in Int
  BY <1>1
<1>3. Newlines(text, 1, p - 1) = Newlines(text, 1, q - 1) + Newlines(text, q - 1 + 1, p - 1)
  BY <1>2, NewlinesSplit
<1>4. Newlines(text, q, p - 1) = 0
  BY <1>2, NewlinesEmpty
<1>5. Newlines(text, 1, q - 1) \in Nat
  BY <1>2, NewlinesType
<1>6. QED
  BY <1>2, <1>3, <1>4, <1>5

\* A token that starts on a guarded line ends before the end of the line.
LEMMA TokenStaysOnGuarded ==
    ASSUME LanguageShape(lang), text \in Seq(STRING), ~OpensOnGuarded(text), ~Splices(text),
           lang.blockComments = <<>>, NEW r \in 1..Len(text), Token(text, r).end # 0,
           Triggered(text, Newlines(text, 1, r - 1)), NEW e \in r + 1..Len(text), text[e] = "n"
    PROVE  Token(text, r).end < e
<1> DEFINE k == Token(text, r)
<1>1. Len(text) \in Nat /\ r \in Nat /\ e \in Nat /\ r < e
  OBVIOUS
<1>2. /\ LineEnd(text, r) \in r..Len(text) + 1 /\ LineEnd(text, r) <= e
      /\ \A i \in r..LineEnd(text, r) - 1 : text[i] # "n"
  <2>1. /\ LineEnd(text, r) \in r..Len(text) + 1
        /\ \A i \in r..LineEnd(text, r) - 1 : text[i] # "n"
    BY LineEndSpec
  <2>2. ~(e \in r..LineEnd(text, r) - 1)
    BY <2>1
  <2>3. QED
    BY <1>1, <2>1, <2>2
<1>3. ASSUME NEW m \in DOMAIN lang.strings, lang.strings[m].multiline,
             Within(text, r, LineEnd(text, r) - 1, lang.strings[m].open)
      PROVE  FALSE
  <2>1. PICK p \in r..LineEnd(text, r) - 1 : At(text, p, lang.strings[m].open)
    BY <1>3 DEF Within
  <2>2. p \in r..Len(text) /\ \A i \in r..p - 1 : text[i] # "n"
    BY <1>1, <1>2
  <2>3. p \in 1..Len(text)
    BY <1>1, <2>2
  <2>4. Newlines(text, 1, p - 1) = Newlines(text, 1, r - 1)
    BY <2>2, SameLine
  <2>5. QED
    BY <1>3, <2>1, <2>3, <2>4, NothingOpensOnGuarded
<1>4. ASSUME NEW m, StringMarkAt(text, r, m), k.end = LiteralEnd(text, r, lang.strings[m])
      PROVE  k.end < e
  <2> DEFINE s == lang.strings[m]
  <2>1. m \in DOMAIN lang.strings /\ At(text, r, s.open)
    BY <1>4 DEF StringMarkAt
  <2>2. s \in StringSyntax /\ Marker(s.open) /\ Marker(s.close)
        /\ s.escape \in {<<>>, <<"b">>} /\ \A i \in DOMAIN s.close : s.close[i] # "b"
    BY <2>1, StringsShape
  <2>3. ~s.multiline
    BY <2>1, NothingOpensOnGuarded
  <2>4. LiteralEnd(text, r, s) # 0
    BY <1>4
  <2>5. k.end \in r..Len(text)
    BY TokenEndInText
  <2> HIDE DEF s
  <2>6. \A i \in r..LiteralEnd(text, r, s) : text[i] # "n"
    BY <2>1, <2>2, <2>3, <2>4, LiteralStaysOnLine
  <2> HIDE DEF k
  <2>7. ~(e \in r..k.end)
    BY <1>4, <2>6 DEF s
  <2>8. QED
    BY <1>1, <2>5, <2>7
<1>5. \A m : ~BlockMarkAt(text, r, m)
  BY DEF BlockMarkAt
<1> HIDE DEF k
<1>6. k.kind # "foreign"
  <2>1. lang.rawStrings = <<>> /\ lang.charQuotes = {}
    BY DEF Triggered, LanguageShape
  <2>2. \A m : ~RawMarkAt(text, r, m)
    BY <2>1 DEF RawMarkAt
  <2>3. ~CharacterEnds(text, r, k.end)
    BY <2>1 DEF CharacterEnds
  <2>4. QED
    BY <2>2, <2>3, TokenKinds DEF k
<1>7. k.end = LineEnd(text, r) - 1 \/ k.end = r \/ k.end < e
  BY <1>3, <1>4, <1>5, <1>6, TokenKinds DEF k
<1>8. QED
  BY <1>1, <1>2, <1>7 DEF k

\* A newline is a token of its own.
LEMMA NewlineToken ==
    ASSUME LanguageShape(lang), text \in Seq(STRING), NEW e \in 1..Len(text), text[e] = "n"
    PROVE  Token(text, e).end = e /\ Token(text, e).kind = "code"
<1>1. \A m : Marker(m) => ~At(text, e, m)
  BY UnderMarker
<1>2. ~GuardAt(text, e) /\ ~LineMarkAt(text, e)
  BY <1>1 DEF GuardAt, LineMarkAt, LanguageShape
<1>3. \A m : ~BlockMarkAt(text, e, m)
  BY <1>1 DEF BlockMarkAt, LanguageShape
<1>4. \A m : ~StringMarkAt(text, e, m)
  BY <1>1 DEF StringMarkAt, LanguageShape
<1>5. \A m : ~RawMarkAt(text, e, m)
  BY <1>1, RawStringsShape DEF RawMarkAt
<1>6. \A d : ~CharacterEnds(text, e, d)
  <2>1. ASSUME NEW d, CharacterEnds(text, e, d) PROVE FALSE
    <3>1. d \in e + 2..Len(text) /\ text[d] = "n" /\ \A i \in e + 1..d : text[i] # "n"
      BY <2>1 DEF CharacterEnds
    <3>2. d \in e + 1..d
      BY <3>1
    <3>3. QED
      BY <3>1, <3>2
  <2>2. QED
    BY <2>1
<1>7. QED
  BY <1>2, <1>3, <1>4, <1>5, <1>6, TokenKinds

\* Behind a guarded line, a token starts.
LEMMA GuardedLine ==
    ASSUME LanguageShape(lang), text \in Seq(STRING), Readable(text),
           ~OpensOnGuarded(text), ~Splices(text), lang.blockComments = <<>>,
           NEW q \in 1..Len(text), Starts(text)[q], NEW e \in q..Len(text), text[e] = "n",
           \A i \in q..e - 1 : text[i] # "n", Triggered(text, Newlines(text, 1, q - 1))
    PROVE  e + 1 = Len(text) + 1 \/ (e + 1 \in 1..Len(text) /\ Starts(text)[e + 1])
<1> DEFINE S == {r \in q..e : Starts(text)[r]}
<1>1. Len(text) \in Nat /\ q \in Nat /\ e \in Nat /\ e \in 1..Len(text)
  OBVIOUS
<1>2. PICK r \in S : \A k \in S : k <= r
  <2>1. S \in SUBSET (0..Len(text)) /\ S # {}
    BY <1>1
  <2> HIDE DEF S
  <2>2. QED
    BY <1>1, <2>1, Largest
<1>3. r \in 1..Len(text) /\ Starts(text)[r] /\ r \in q..Len(text) /\ r <= e
  BY <1>1
<1>4. /\ Ends(text)[r] \in r..Len(text)
      /\ Ends(text)[r] + 1 = Len(text) + 1
            \/ (Ends(text)[r] + 1 \in 1..Len(text) /\ Starts(text)[Ends(text)[r] + 1])
  BY <1>3, NextToken
<1>5. Ends(text)[r] = Token(text, r).end
  BY <1>3 DEF Ends
<1>6. CASE r = e
  <2>1. Ends(text)[r] = e
    BY <1>1, <1>5, <1>6, NewlineToken
  <2>2. QED
    BY <1>4, <2>1
<1>7. CASE r # e
  <2>1. e \in r + 1..Len(text) /\ r < e
    BY <1>1, <1>3, <1>7
  <2>2. Newlines(text, 1, r - 1) = Newlines(text, 1, q - 1)
    <3>1. \A i \in q..r - 1 : text[i] # "n"
      BY <1>1, <1>3
    <3>2. QED
      BY <1>3, <3>1, SameLine
  <2>3. Token(text, r).end # 0
    BY <1>3, <1>4, <1>5
  <2>4. Ends(text)[r] < e
    BY <1>3, <1>5, <2>1, <2>2, <2>3, TokenStaysOnGuarded
  <2>5. Ends(text)[r] + 1 \in q..e /\ Ends(text)[r] + 1 # Len(text) + 1 /\ Ends(text)[r] + 1 > r
    BY <1>1, <1>3, <1>4, <2>4
  <2>6. Ends(text)[r] + 1 \in S
    BY <1>4, <2>5
  <2>7. QED
    BY <1>2, <1>3, <1>4, <2>5, <2>6
<1>8. QED
  BY <1>6, <1>7

-----------------------------------------------------------------------------
(* The strip is exact: one lemma for each way the scanner moves on *)

\* What the invariant says while a program is scanned.
Following ==
    /\ Scanner /\ LanguageShape(lang) /\ scan = "scanning" /\ Lexable(text)
    /\ IsProgram(Tokens(text)) /\ Readable(text)
    /\ ~OpensOnGuarded(text) /\ OnTrack /\ OnlyComments(text, out)
    /\ ~Guarded(text) => AllComments(text, out, pos)

LEMMA ProgramsAreRead ==
    ASSUME LanguageShape(lang), text \in Seq(STRING), IsProgram(Tokens(text))
    PROVE  Readable(text)
  BY TokenEndInText, ProgramIsReadable

LEMMA ExactStep ==
    ASSUME Scanner, LanguageShape(lang), scan = "scanning", Exact, text' = text, lang' = lang,
           scan' = "scanning",
           Following => /\ \/ pos' = Len(text) + 1 \/ Starts(text)[pos'] \/ InForeign(text, pos')
                           \/ /\ Triggered(text, line')
                              /\ \E q \in 1..pos' : /\ Starts(text)[q]
                                                    /\ \A i \in q..pos' - 1 : text[i] # "n"
                        /\ OnlyComments(text, out')
                        /\ ~Guarded(text) => AllComments(text, out', pos')
    PROVE  Exact'
<1>1. SUFFICES ASSUME Lexable(text)', IsProgram(Tokens(text))' PROVE Exact'
  BY DEF Exact
<1>2. /\ Lexable(text)' = Lexable(text) /\ Guarded(text)' = Guarded(text)
      /\ OpensOnGuarded(text)' = OpensOnGuarded(text)
      /\ Starts(text)' = Starts(text)
      /\ Tokens(text)' = Tokens(text) /\ Comments(text)' = Comments(text)
      /\ \A k : Triggered(text, k)' = Triggered(text, k)
      /\ \A p : InForeign(text, p)' = InForeign(text, p)
  BY ReadingKept
<1>3. Lexable(text) /\ IsProgram(Tokens(text))
  <2>1. IsProgram(Tokens(text))' <=> IsProgram(Tokens(text))
    BY <1>2 DEF IsProgram
  <2>2. QED
    BY <1>1, <1>2, <2>1
<1>4. Following
  BY <1>3, ProgramsAreRead DEF Exact, Following, Scanner
<1>5. ~OpensOnGuarded(text)'
  BY <1>2, <1>4 DEF Following
<1>6. OnTrack'
  <2>1. Triggered(text, line)' = Triggered(text, line')
    BY DEF Triggered, OnLine
  <2>2. \/ pos' = Len(text) + 1 \/ Starts(text)[pos'] \/ InForeign(text, pos')
        \/ /\ Triggered(text, line')
           /\ \E q \in 1..pos' : Starts(text)[q] /\ \A i \in q..pos' - 1 : text[i] # "n"
    BY <1>4
  <2>3. InForeign(text, pos)' <=> InForeign(text, pos')
    BY <1>2 DEF InForeign
  <2>4. QED
    BY <1>2, <2>1, <2>2, <2>3 DEF OnTrack
<1>7. OnlyComments(text, out)' /\ (~Guarded(text)' => AllComments(text, out, pos)')
  BY <1>2, <1>4 DEF OnlyComments, AllComments
<1>8. QED
  BY <1>5, <1>6, <1>7 DEF Exact

\* A line that triggers a guard makes the text a guarded one.
LEMMA TriggeredIsGuarded ==
    ASSUME Scanner, scan = "scanning", Triggered(text, line)
    PROVE  Guarded(text) /\ lang.guardLine # {}
<1>1. /\ text \in Seq(STRING) /\ Len(text) \in Nat /\ pos \in 1..Len(text) + 1
      /\ line = Newlines(text, 1, pos - 1)
  BY DEF Scanner
<1>2. /\ 1 \in Int /\ pos - 1 \in Int /\ Len(text) \in Int /\ 1 <= pos - 1 + 1
      /\ pos - 1 <= Len(text) /\ pos - 1 + 1 \in Int
  BY <1>1
<1>3. Newlines(text, 1, Len(text)) = Newlines(text, 1, pos - 1) + Newlines(text, pos - 1 + 1, Len(text))
  BY <1>2, NewlinesSplit
<1>4. Newlines(text, 1, pos - 1) \in Nat /\ Newlines(text, pos - 1 + 1, Len(text)) \in Nat
  BY <1>2, NewlinesType
<1>5. line \in 0..Newlines(text, 1, Len(text))
  BY <1>1, <1>3, <1>4
<1>6. QED
  BY <1>5 DEF Guarded, Triggered

\* On a line that is not guarded the scanner stands at a token or in a foreign
\* literal, and at no guard.
LEMMA OpenLineIsToken ==
    ASSUME Following, pos \in 1..Len(text), ~Triggered(text, line)
    PROVE  (Starts(text)[pos] \/ InForeign(text, pos)) /\ ~GuardAt(text, pos)
<1>1. text \in Seq(STRING) /\ Len(text) \in Nat /\ line = Newlines(text, 1, pos - 1)
  BY DEF Following, Scanner
<1>2. Starts(text)[pos] \/ InForeign(text, pos)
  BY <1>1 DEF Following, OnTrack
<1>3. ASSUME NEW g \in lang.guardLine, At(text, pos, g) PROVE FALSE
  BY <1>1, <1>3 DEF Triggered, OnLine
<1>4. QED
  BY <1>2, <1>3 DEF GuardAt

\* The comments of a text are bytes of it.
LEMMA CommentsInText ==
    ASSUME NEW t \in Seq(STRING), NEW i \in Comments(t)
    PROVE  i \in Nat \ {0} /\ (Readable(t) => i \in 1..Len(t))
<1>1. DOMAIN t = 1..Len(t) /\ Len(t) \in Nat
  OBVIOUS
<1> DEFINE at == [q \in DOMAIN t |-> Token(t, q)]
           S == TokenStarts(DOMAIN t, {<<q, at[q].end>> : q \in DOMAIN t})
<1>2. {<<q, at[q].end>> : q \in DOMAIN t} = Spans(t)
  BY DEF Spans
<1>3. S = Starts(t)
  BY <1>2 DEF Starts
<1>4. PICK c \in Tokens(t) : i \in c.from..c.to
  BY DEF Comments, CommentBytes
<1>5. PICK p \in {j \in DOMAIN t : S[j]} : c = [from |-> p, to |-> at[p].end, kind |-> at[p].kind]
  BY <1>4 DEF Tokens
<1>6. p \in 1..Len(t) /\ Starts(t)[p] /\ c.from = p /\ c.to = Ends(t)[p]
  BY <1>1, <1>3, <1>5 DEF Ends
<1>7. Readable(t) => c.to \in p..Len(t)
  BY <1>1, <1>6 DEF Readable
<1>8. QED
  BY <1>1, <1>4, <1>6, <1>7

\* A token that means something is passed and left as it is.
LEMMA TokenPassed ==
    ASSUME Following, pos \in 1..Len(text), Starts(text)[pos],
           Token(text, pos).kind # "comment" \/ \E m \in lang.keep : At(text, pos, m)
    PROVE  LET q == Token(text, pos).end + 1
           IN  /\ q = Len(text) + 1 \/ Starts(text)[q]
               /\ ~Guarded(text) => AllComments(text, out, q)
<1>1. text \in Seq(STRING) /\ Readable(text) /\ Len(text) \in Nat
  BY DEF Following, Scanner
<1>2. Ends(text)[pos] = Token(text, pos).end
  BY <1>1 DEF Ends
<1> DEFINE q == Ends(text)[pos] + 1
<1>3. Ends(text)[pos] \in pos..Len(text) /\ (q = Len(text) + 1 \/ Starts(text)[q])
  BY <1>1, NextToken
<1>4. ASSUME ~Guarded(text), NEW i \in Comments(text), i < q, text[i] # "n" PROVE out[i] = " "
  <2>1. i \in Nat
    BY <1>1, CommentsInText
  <2>2. ~(i \in pos..Ends(text)[pos])
    BY <1>1, TokenByte
  <2>3. i < pos
    BY <1>3, <1>4, <2>1, <2>2
  <2>4. QED
    BY <1>4, <2>3 DEF Following, AllComments
<1>5. QED
  BY <1>2, <1>3, <1>4 DEF AllComments

\* A comment that means nothing is passed and blanked.
LEMMA TokenBlanked ==
    ASSUME Following, pos \in 1..Len(text), Starts(text)[pos],
           Token(text, pos).kind = "comment", ~\E m \in lang.keep : At(text, pos, m)
    PROVE  LET e == Token(text, pos).end
               u == Blank(out, pos, e)
           IN  /\ e + 1 = Len(text) + 1 \/ Starts(text)[e + 1]
               /\ OnlyComments(text, u)
               /\ ~Guarded(text) => AllComments(text, u, e + 1)
<1>1. /\ text \in Seq(STRING) /\ Readable(text) /\ Len(text) \in Nat /\ DOMAIN text = 1..Len(text)
      /\ CopyOf(out, text) /\ DOMAIN out = 1..Len(text)
  BY CopyHasItsSize DEF Following, Scanner
<1> DEFINE e == Ends(text)[pos]
           u == Blank(out, pos, e)
<1>2. e = Token(text, pos).end
  BY <1>1 DEF Ends
<1>3. e \in pos..Len(text) /\ (e + 1 = Len(text) + 1 \/ Starts(text)[e + 1])
  BY <1>1, NextToken
<1>4. \A i \in 1..Len(text) : u[i] = IF i \in pos..e /\ out[i] # "n" THEN " " ELSE out[i]
  BY <1>1 DEF Blank
<1>5. \A i \in pos..e : i \in Comments(text)
  BY <1>1, TokenByte
<1> HIDE DEF e, u
<1>6. ASSUME NEW i \in DOMAIN text, u[i] # text[i] PROVE i \in Comments(text)
  <2>1. i \in pos..e \/ out[i] # text[i]
    BY <1>1, <1>4, <1>6
  <2>2. QED
    BY <1>5, <2>1 DEF Following, OnlyComments
<1>7. ASSUME ~Guarded(text), NEW i \in Comments(text), i < e + 1, text[i] # "n" PROVE u[i] = " "
  <2>1. i \in 1..Len(text)
    BY <1>1, CommentsInText
  <2>2. out[i] = text[i] \/ out[i] = " "
    BY <1>1, <2>1 DEF CopyOf
  <2>3. out[i] # "n"
    BY <1>7, <2>2
  <2>4. CASE i \in pos..e
    BY <1>4, <2>1, <2>3, <2>4
  <2>5. CASE ~(i \in pos..e)
    <3>1. i < pos
      BY <1>3, <1>7, <2>1, <2>5
    <3>2. out[i] = " "
      BY <1>7, <3>1 DEF Following, AllComments
    <3>3. QED
      BY <1>4, <2>1, <2>5, <3>2
  <2>6. QED
    BY <2>4, <2>5
<1>8. QED
  BY <1>2, <1>3, <1>6, <1>7 DEF OnlyComments, AllComments, u

\* A foreign literal shows the scanner no mark, and is left as it is.
LEMMA InsideForeign ==
    ASSUME Following, NEW q \in 1..Len(text), Starts(text)[q], Token(text, q).kind = "foreign",
           pos \in q..Token(text, q).end
    PROVE  /\ ~MarkAt(text, pos) /\ ~Triggered(text, line)
           /\ \/ pos + 1 = Len(text) + 1 \/ Starts(text)[pos + 1] \/ InForeign(text, pos + 1)
           /\ ~Guarded(text) => AllComments(text, out, pos + 1)
<1>1. /\ text \in Seq(STRING) /\ Readable(text) /\ Len(text) \in Nat /\ DOMAIN text = 1..Len(text)
      /\ LanguageShape(lang) /\ pos \in Nat /\ q \in Nat
  BY DEF Following, Scanner
<1> DEFINE e == Ends(text)[q]
<1>2. e = Token(text, q).end
  BY <1>1 DEF Ends
<1>3. e \in q..Len(text) /\ (e + 1 = Len(text) + 1 \/ Starts(text)[e + 1])
  BY <1>1, NextToken
<1> HIDE DEF e
<1>4. pos \in q..e
  BY <1>2
<1>5. ~MarkAt(text, pos)
  <2> DEFINE at == [p \in DOMAIN text |-> Token(text, p)]
             S == TokenStarts(DOMAIN text, {<<p, at[p].end>> : p \in DOMAIN text})
             k == [from |-> q, to |-> at[q].end, kind |-> at[q].kind]
  <2>1. {<<p, at[p].end>> : p \in DOMAIN text} = Spans(text)
    BY DEF Spans
  <2>2. S = Starts(text)
    BY <2>1 DEF Starts
  <2>3. Tokens(text) = {[from |-> p, to |-> at[p].end, kind |-> at[p].kind] : p \in {i \in DOMAIN text : S[i]}}
    BY DEF Tokens
  <2>4. k \in Tokens(text)
    BY <1>1, <2>2, <2>3
  <2>5. k.kind = "foreign" /\ k.from = q /\ k.to = e
    BY <1>1, <1>2
  <2> HIDE DEF k
  <2>6. \A p \in k.from..k.to : ~MarkAt(text, p)
    BY <2>4, <2>5 DEF Following, Lexable
  <2>7. QED
    BY <1>4, <2>5, <2>6
<1>6. lang.guardLine = {}
  <2>1. (\E m : RawMarkAt(text, q, m)) \/ CharacterEnds(text, q, Token(text, q).end)
    BY <1>1, TokenKinds
  <2>2. lang.rawStrings # <<>> \/ lang.charQuotes # {}
    <3>1. ASSUME NEW m, RawMarkAt(text, q, m) PROVE lang.rawStrings # <<>>
      <4>1. m \in DOMAIN lang.rawStrings
        BY <3>1 DEF RawMarkAt
      <4>2. QED
        BY <4>1
    <3>2. CharacterEnds(text, q, Token(text, q).end) => lang.charQuotes # {}
      BY DEF CharacterEnds
    <3>3. QED
      BY <2>1, <3>1, <3>2
  <2>3. QED
    BY <1>1, <2>2 DEF LanguageShape
<1>7. ~Triggered(text, line)
  BY <1>6 DEF Triggered
<1>8. \/ pos + 1 = Len(text) + 1 \/ Starts(text)[pos + 1] \/ InForeign(text, pos + 1)
  <2>1. CASE pos = e
    BY <1>3, <2>1
  <2>2. CASE pos # e
    <3>1. pos + 1 \in q + 1..e
      BY <1>1, <1>3, <1>4, <2>2
    <3>2. QED
      BY <1>1, <1>2, <3>1 DEF InForeign
  <2>3. QED
    BY <2>1, <2>2
<1>9. ASSUME ~Guarded(text), NEW i \in Comments(text), i < pos + 1, text[i] # "n" PROVE out[i] = " "
  <2>1. i \in Nat
    BY <1>1, CommentsInText
  <2>2. i # pos
    BY <1>1, <1>4, TokenByte DEF e
  <2>3. i < pos
    BY <1>1, <1>9, <2>1, <2>2
  <2>4. QED
    BY <1>9, <2>3 DEF Following, AllComments
<1>10. QED
  BY <1>5, <1>7, <1>8, <1>9 DEF AllComments

\* Inside a foreign literal, the scanner goes on byte by byte.
LEMMA ForeignPassed ==
    ASSUME Following, pos \in 1..Len(text), InForeign(text, pos)
    PROVE  /\ ~MarkAt(text, pos) /\ ~Triggered(text, line)
           /\ \/ pos + 1 = Len(text) + 1 \/ Starts(text)[pos + 1] \/ InForeign(text, pos + 1)
           /\ ~Guarded(text) => AllComments(text, out, pos + 1)
<1>1. PICK q \in DOMAIN text : /\ Starts(text)[q] /\ Token(text, q).kind = "foreign"
                               /\ pos \in q + 1..Token(text, q).end
  BY DEF InForeign
<1>2. q \in 1..Len(text)
  BY DEF Following, Scanner
<1>3. pos \in q..Token(text, q).end
  <2>1. q \in Nat
    BY <1>2
  <2>2. QED
    BY <1>1, <2>1
<1>4. QED
  BY <1>1, <1>2, <1>3, InsideForeign

LEMMA ExactDoubt == ASSUME scan' = "doubt" PROVE Exact'
  BY DEF Exact

LEMMA ExactNewline ==
    ASSUME Scanner, LanguageShape(lang), Exact, Newline, lang' = lang PROVE Exact'
<1>1. /\ pos \in 1..Len(text) /\ pos \in Nat /\ Len(text) \in Nat /\ scan = "scanning"
      /\ text \in Seq(STRING) /\ CopyOf(out, text)
  BY Looks DEF Newline
<1>2. /\ text[pos] = "n" /\ text' = text /\ out' = out /\ scan' = scan
      /\ pos' = pos + 1 /\ line' = line + 1
  BY DEF Newline
<1>3. Token(text, pos).end = pos /\ Token(text, pos).kind = "code"
  BY <1>1, <1>2, NewlineToken
<1>4. ASSUME Following
      PROVE  /\ pos + 1 = Len(text) + 1 \/ Starts(text)[pos + 1] \/ InForeign(text, pos + 1)
             /\ ~Guarded(text) => AllComments(text, out, pos + 1)
  <2>1. CASE Starts(text)[pos]
    BY <1>1, <1>3, <1>4, <2>1, TokenPassed
  <2>2. CASE InForeign(text, pos)
    BY <1>1, <1>4, <2>2, ForeignPassed
  <2>3. CASE ~Starts(text)[pos] /\ ~InForeign(text, pos)
    <3>1. PICK q \in 1..pos : Starts(text)[q] /\ \A i \in q..pos - 1 : text[i] # "n"
      BY <1>1, <1>4, <2>3 DEF Following, OnTrack
    <3>2. Triggered(text, line) /\ line = Newlines(text, 1, pos - 1)
      BY <1>1, <1>4, <2>3 DEF Following, OnTrack, Scanner
    <3>3. Guarded(text) /\ lang.guardLine # {}
      BY <1>1, <3>2, TriggeredIsGuarded
    <3>4. lang.blockComments = <<>> /\ ~Splices(text)
      BY <1>4, <3>3 DEF LanguageShape, Following, Lexable
    <3>5. q \in 1..Len(text) /\ pos \in q..Len(text)
      BY <1>1
    <3>6. Newlines(text, 1, pos - 1) = Newlines(text, 1, q - 1)
      BY <1>1, <3>1, <3>5, SameLine
    <3>7. Triggered(text, Newlines(text, 1, q - 1)) /\ Readable(text) /\ ~OpensOnGuarded(text)
      BY <1>4, <3>2, <3>6 DEF Following
    <3>8. pos + 1 = Len(text) + 1 \/ (pos + 1 \in 1..Len(text) /\ Starts(text)[pos + 1])
      BY <1>1, <1>2, <3>1, <3>4, <3>5, <3>7, GuardedLine
    <3>9. QED
      BY <3>3, <3>8
  <2>4. QED
    BY <2>1, <2>2, <2>3
<1>5. QED
  BY <1>1, <1>2, <1>4, ExactStep DEF Following

LEMMA ExactGuardedByte ==
    ASSUME Scanner, LanguageShape(lang), Exact, GuardedByte, lang' = lang PROVE Exact'
<1>1. /\ pos \in 1..Len(text) /\ pos \in Nat /\ Len(text) \in Nat /\ scan = "scanning"
      /\ text \in Seq(STRING) /\ CopyOf(out, text)
  BY Looks DEF GuardedByte
<1>2. /\ text[pos] # "n" /\ Triggered(text, line) /\ text' = text /\ out' = out /\ scan' = scan
      /\ pos' = pos + 1 /\ line' = line
  BY DEF GuardedByte
<1>3. Guarded(text)
  BY <1>1, <1>2, TriggeredIsGuarded
<1>4. ASSUME Following
      PROVE  \E q \in 1..pos + 1 : Starts(text)[q] /\ \A i \in q..pos + 1 - 1 : text[i] # "n"
  <2>1. PICK q \in 1..pos : Starts(text)[q] /\ \A i \in q..pos - 1 : text[i] # "n"
    <3>1. Starts(text)[pos] => pos \in 1..pos /\ \A i \in pos..pos - 1 : text[i] # "n"
      BY <1>1
    <3>2. ~InForeign(text, pos)
      BY <1>1, <1>2, <1>4, ForeignPassed
    <3>3. QED
      BY <1>1, <1>4, <3>1, <3>2 DEF Following, OnTrack
  <2>2. q \in 1..pos + 1 /\ \A i \in q..pos + 1 - 1 : i \in q..pos - 1 \/ i = pos
    BY <1>1
  <2>3. QED
    BY <1>2, <2>1, <2>2
<1>5. QED
  BY <1>1, <1>2, <1>3, <1>4, ExactStep DEF Following

\* On an open line the scanner and the language see the same marks.
LEMMA SameMarks ==
    ASSUME LanguageShape(lang)
    PROVE  /\ AtLineComment <=> LineMarkAt(text, pos)
           /\ AtBlock # 0 => BlockMarkAt(text, pos, AtBlock)
           /\ AtBlock = 0 => \A m : ~BlockMarkAt(text, pos, m)
           /\ AtString # 0 => StringMarkAt(text, pos, AtString)
           /\ AtString = 0 => \A m : ~StringMarkAt(text, pos, m)
<1>1. AtLineComment <=> LineMarkAt(text, pos)
  <2>1. lang.lineComments \in Seq(Seq(STRING))
    BY DEF LanguageShape
  <2>2. QED
    BY <2>1, FirstAtSpec DEF AtLineComment, LineMarkAt
<1>2. /\ AtBlock # 0 => BlockMarkAt(text, pos, AtBlock)
      /\ AtBlock = 0 => \A m : ~BlockMarkAt(text, pos, m)
  <2> DEFINE opens == [k \in DOMAIN lang.blockComments |-> lang.blockComments[k][1]]
  <2>1. lang.blockComments \in Seq(Seq(STRING) \X Seq(STRING))
    BY DEF LanguageShape
  <2>2. opens \in Seq(Seq(STRING)) /\ DOMAIN opens = DOMAIN lang.blockComments
    <3>1. \A k \in 1..Len(lang.blockComments) : lang.blockComments[k][1] \in Seq(STRING)
      BY <2>1
    <3>2. /\ Len(lang.blockComments) \in Nat
          /\ opens = [k \in 1..Len(lang.blockComments) |-> lang.blockComments[k][1]]
      BY <2>1
    <3>3. opens \in [1..Len(lang.blockComments) -> Seq(STRING)]
      BY <3>1, <3>2
    <3>4. DOMAIN opens = DOMAIN lang.blockComments
      BY <2>1
    <3> HIDE DEF opens
    <3>5. QED
      BY <3>2, <3>3, <3>4, FunctionIsSeq
  <2>3. \A k \in DOMAIN lang.blockComments : opens[k] = lang.blockComments[k][1]
    OBVIOUS
  <2>4. AtBlock = FirstAt(pos, opens)
    BY DEF AtBlock
  <2> HIDE DEF opens
  <2>5. /\ AtBlock = 0 => \A k \in DOMAIN opens : ~At(text, pos, opens[k])
        /\ AtBlock # 0 => /\ AtBlock \in DOMAIN opens /\ At(text, pos, opens[AtBlock])
                          /\ \A k \in DOMAIN opens : At(text, pos, opens[k]) => AtBlock <= k
    BY <2>2, <2>4, FirstAtSpec
  <2>6. QED
    BY <2>2, <2>3, <2>5 DEF BlockMarkAt
<1>3. /\ AtString # 0 => StringMarkAt(text, pos, AtString)
      /\ AtString = 0 => \A m : ~StringMarkAt(text, pos, m)
  BY StringAtSpec DEF AtString, StringMarkAt
<1>4. QED
  BY <1>1, <1>2, <1>3

\* Marks of a kind are told apart by their place in the list.
LEMMA FirstMark ==
    ASSUME LanguageShape(lang), NEW t, NEW p
    PROVE  /\ \A m, k : BlockMarkAt(t, p, m) /\ BlockMarkAt(t, p, k) => m = k
           /\ \A m, k : StringMarkAt(t, p, m) /\ StringMarkAt(t, p, k) => m = k
<1>1. /\ lang.blockComments \in Seq(Seq(STRING) \X Seq(STRING)) /\ lang.strings \in Seq(StringSyntax)
  BY DEF LanguageShape
<1>2. \A m \in DOMAIN lang.blockComments : m \in Nat
  BY <1>1
<1>3. \A m \in DOMAIN lang.strings : m \in Nat
  BY <1>1
<1>4. ASSUME NEW m, NEW k, BlockMarkAt(t, p, m), BlockMarkAt(t, p, k) PROVE m = k
  <2>1. m <= k /\ k <= m /\ m \in Nat /\ k \in Nat
    BY <1>2, <1>4 DEF BlockMarkAt
  <2>2. QED
    BY <2>1
<1>5. ASSUME NEW m, NEW k, StringMarkAt(t, p, m), StringMarkAt(t, p, k) PROVE m = k
  <2>1. m <= k /\ k <= m /\ m \in Nat /\ k \in Nat
    BY <1>3, <1>5 DEF StringMarkAt
  <2>2. QED
    BY <2>1
<1>6. QED
  BY <1>4, <1>5

\* A directive stands where a line comment begins, and on its line.
LEMMA KeptIsLineComment ==
    ASSUME LanguageShape(lang), NEW t \in Seq(STRING), NEW p \in 1..Len(t), NEW m \in lang.keep, At(t, p, m)
    PROVE  LineMarkAt(t, p) /\ p + Len(m) <= LineEnd(t, p)
<1>1. Marker(m)
  BY DEF LanguageShape
<1>2. PICK i \in DOMAIN lang.lineComments :
          /\ Len(lang.lineComments[i]) <= Len(m)
          /\ \A j \in DOMAIN lang.lineComments[i] : m[j] = lang.lineComments[i][j]
  BY DEF LanguageShape
<1> DEFINE l == lang.lineComments[i]
<1>3. Marker(l)
  BY DEF LanguageShape
<1>4. l \in Seq(STRING) /\ DOMAIN l = 1..Len(l) /\ Len(l) \in Nat /\ Len(m) \in Nat
  BY <1>1, <1>3 DEF Marker
<1>5. At(t, p, l)
  <2> HIDE DEF l
  <2>1. \A j \in 1..Len(l) : j \in 1..Len(m) /\ m[j] = l[j]
    BY <1>2, <1>4 DEF l
  <2>2. p + Len(l) <= Len(t) + 1
    BY <1>2, <1>4 DEF At, l
  <2>3. QED
    BY <2>1, <2>2 DEF At
<1>6. p + Len(m) <= LineEnd(t, p)
  <2>1. LineEnd(t, p) >= p + Len(m) /\ LineEnd(t, p) \in p + 1..Len(t) + 1
    BY <1>1, UnderMarker
  <2>2. QED
    BY <1>4, <2>1
<1>7. QED
  BY <1>5, <1>6 DEF LineMarkAt

Mark(t, p) ==
    LineMarkAt(t, p) \/ (\E m : BlockMarkAt(t, p, m)) \/ (\E m : StringMarkAt(t, p, m))

\* What an open line shows: a mark stands where a token starts.
LEMMA OpenLineShows ==
    ASSUME Scanner, OpenLine
    PROVE  /\ pos \in 1..Len(text) /\ pos \in Nat /\ Len(text) \in Nat /\ scan = "scanning"
           /\ text \in Seq(STRING) /\ CopyOf(out, text) /\ ~Triggered(text, line)
           /\ Following => /\ Starts(text)[pos] \/ InForeign(text, pos)
                           /\ ~GuardAt(text, pos)
                           /\ Mark(text, pos) => Starts(text)[pos]
<1>1. Looking /\ ~Triggered(text, line)
  BY DEF OpenLine
<1>2. pos \in 1..Len(text)
  BY <1>1, Looks
<1>3. ASSUME Mark(text, pos) PROVE MarkAt(text, pos)
  BY <1>3 DEF Mark, MarkAt, LineMarkAt, BlockMarkAt, StringMarkAt
<1>4. ASSUME Following
      PROVE  /\ Starts(text)[pos] \/ InForeign(text, pos)
             /\ ~GuardAt(text, pos)
             /\ MarkAt(text, pos) => Starts(text)[pos]
  BY <1>1, <1>2, <1>4, OpenLineIsToken, ForeignPassed
<1>5. QED
  BY <1>1, <1>3, <1>4, Looks

LEMMA ExactLineComment ==
    ASSUME Scanner, LanguageShape(lang), Exact, LineComment, lang' = lang PROVE Exact'
<1> DEFINE end == LineEnd(text, pos)
<1>1. /\ pos \in 1..Len(text) /\ pos \in Nat /\ Len(text) \in Nat /\ scan = "scanning"
      /\ text \in Seq(STRING) /\ CopyOf(out, text) /\ ~Triggered(text, line)
      /\ LineMarkAt(text, pos)
      /\ Following => Starts(text)[pos] /\ ~GuardAt(text, pos)
  <2>1. LineMarkAt(text, pos)
    BY SameMarks DEF LineComment
  <2>2. OpenLine
    BY DEF LineComment
  <2>3. Mark(text, pos)
    BY <2>1 DEF Mark
  <2>4. QED
    BY <2>1, <2>2, <2>3, OpenLineShows
<1>2. LineMarkAt(text, pos)
  BY <1>1
<1>3. CASE Doubt
  BY <1>3, ExactDoubt DEF Doubt
<1>4. CASE ~Doubt
  <2>1. /\ out' = IF Keeps(pos, end - 1) THEN out ELSE Blank(out, pos, end - 1)
        /\ pos' = end /\ text' = text /\ line' = line /\ scan' = scan
    BY <1>4 DEF LineComment
  <2>2. end \in pos..Len(text) + 1
    BY <1>1, LineEndSpec
  <2>3. end - 1 + 1 = end /\ pos' = end - 1 + 1
    BY <1>1, <2>1, <2>2
  <2>4. Keeps(pos, end - 1) <=> \E m \in lang.keep : At(text, pos, m)
    BY <1>1, <2>3, KeptIsLineComment DEF Keeps
  <2> HIDE DEF end
  <2>5. ASSUME Following
        PROVE  /\ pos' = Len(text) + 1 \/ Starts(text)[pos']
               /\ OnlyComments(text, out')
               /\ ~Guarded(text) => AllComments(text, out', pos')
    <3>1. Token(text, pos).kind = "comment" /\ Token(text, pos).end = end - 1
      BY <1>1, <1>2, <2>5, TokenKinds DEF end
    <3>2. CASE Keeps(pos, end - 1)
      BY <1>1, <2>1, <2>3, <2>4, <2>5, <3>1, <3>2, TokenPassed DEF Following
    <3>3. CASE ~Keeps(pos, end - 1)
      BY <1>1, <2>1, <2>3, <2>4, <2>5, <3>1, <3>3, TokenBlanked
    <3>4. QED
      BY <3>2, <3>3
  <2>6. QED
    BY <1>1, <2>1, <2>5, ExactStep
<1>5. QED
  BY <1>3, <1>4

LEMMA ExactBlockComment ==
    ASSUME Scanner, LanguageShape(lang), Exact, BlockComment, lang' = lang PROVE Exact'
<1> DEFINE open == lang.blockComments[AtBlock][1]
           cl == lang.blockComments[AtBlock][2]
           found == Find(text, pos + Len(open), cl)
           last == found + Len(cl) - 1
<1>1. /\ pos \in 1..Len(text) /\ pos \in Nat /\ Len(text) \in Nat /\ scan = "scanning"
      /\ text \in Seq(STRING) /\ CopyOf(out, text) /\ ~Triggered(text, line)
      /\ ~LineMarkAt(text, pos) /\ BlockMarkAt(text, pos, AtBlock)
      /\ Following => Starts(text)[pos] /\ ~GuardAt(text, pos)
  <2>1. ~LineMarkAt(text, pos) /\ BlockMarkAt(text, pos, AtBlock)
    BY SameMarks DEF BlockComment
  <2>2. OpenLine
    BY DEF BlockComment
  <2>3. Mark(text, pos)
    BY <2>1 DEF Mark
  <2>4. QED
    BY <2>1, <2>2, <2>3, OpenLineShows
<1>2. ~LineMarkAt(text, pos) /\ BlockMarkAt(text, pos, AtBlock)
  BY <1>1
<1>3. /\ AtBlock \in DOMAIN lang.blockComments /\ At(text, pos, open)
      /\ Len(open) \in Nat \ {0} /\ Len(cl) \in Nat \ {0}
  <2>1. AtBlock \in DOMAIN lang.blockComments /\ At(text, pos, open) /\ Marker(open) /\ Marker(cl)
    BY <1>2 DEF BlockMarkAt, LanguageShape
  <2> HIDE DEF open, cl
  <2>2. QED
    BY <2>1 DEF Marker
<1>4. CASE Doubt
  BY <1>4, ExactDoubt DEF Doubt
<1>5. CASE ~Doubt
  <2>1. /\ found # 0 /\ ~Within(text, pos + Len(open), found - 1, open)
        /\ out' = IF Keeps(pos, last) THEN out ELSE Blank(out, pos, last)
        /\ pos' = last + 1 /\ text' = text /\ scan' = scan
    BY <1>5 DEF BlockComment
  <2>2. ~\E m \in lang.keep : At(text, pos, m)
    BY <1>1, <1>2, KeptIsLineComment
  <2>3. ~Keeps(pos, last)
    BY <2>2 DEF Keeps
  <2>4. ASSUME Following
        PROVE  /\ pos' = Len(text) + 1 \/ Starts(text)[pos']
               /\ OnlyComments(text, out')
               /\ ~Guarded(text) => AllComments(text, out', pos')
    <3>1. lang.nests => ~Overlaps(text)
      BY <2>4 DEF Following, Lexable
    <3>2. lang.nests => \A i \in DOMAIN text : At(text, i, open) =>
                            \A j \in i..i + Len(open) - 1 : ~At(text, j, cl)
      BY <1>3, <3>1 DEF Overlaps
    <3>3. BlockEnd(text, pos, open, cl) = last
      <4> HIDE DEF open, cl
      <4>1. QED
        BY <1>1, <1>3, <2>1, <3>2, BlockIsRead
    <3>4. /\ Token(text, pos).kind = "comment"
          /\ \E m : BlockMarkAt(text, pos, m) /\ Token(text, pos).end =
                        BlockEnd(text, pos, lang.blockComments[m][1], lang.blockComments[m][2])
      BY <1>1, <1>2, <2>4, TokenKinds
    <3>5. Token(text, pos).end = last
      <4>1. PICK m : BlockMarkAt(text, pos, m) /\ Token(text, pos).end =
                        BlockEnd(text, pos, lang.blockComments[m][1], lang.blockComments[m][2])
        BY <3>4
      <4>2. m = AtBlock
        BY <1>2, <4>1, FirstMark
      <4>3. QED
        BY <3>3, <4>1, <4>2
    <3>6. out' = Blank(out, pos, last)
      BY <2>1, <2>3
    <3> HIDE DEF last
    <3>7. QED
      BY <1>1, <2>1, <2>2, <2>4, <3>4, <3>5, <3>6, TokenBlanked
  <2>5. QED
    BY <1>1, <2>1, <2>4, ExactStep
<1>6. QED
  BY <1>4, <1>5

LEMMA ExactString ==
    ASSUME Scanner, LanguageShape(lang), Exact, String, lang' = lang PROVE Exact'
<1> DEFINE s == lang.strings[AtString]
<1>1. /\ pos \in 1..Len(text) /\ pos \in Nat /\ Len(text) \in Nat /\ scan = "scanning"
      /\ text \in Seq(STRING) /\ CopyOf(out, text) /\ ~Triggered(text, line)
      /\ ~LineMarkAt(text, pos) /\ \A m : ~BlockMarkAt(text, pos, m)
      /\ StringMarkAt(text, pos, AtString)
      /\ Following => Starts(text)[pos] /\ ~GuardAt(text, pos)
  <2>1. /\ ~LineMarkAt(text, pos) /\ \A m : ~BlockMarkAt(text, pos, m)
        /\ StringMarkAt(text, pos, AtString)
    BY SameMarks DEF String
  <2>2. OpenLine
    BY DEF String
  <2>3. Mark(text, pos)
    BY <2>1 DEF Mark
  <2>4. QED
    BY <2>1, <2>2, <2>3, OpenLineShows
<1>2. /\ ~LineMarkAt(text, pos) /\ \A m : ~BlockMarkAt(text, pos, m)
      /\ StringMarkAt(text, pos, AtString)
  BY <1>1
<1>3. AtString \in DOMAIN lang.strings /\ At(text, pos, s.open)
  BY <1>2 DEF StringMarkAt
<1>4. CASE Doubt
  BY <1>4, ExactDoubt DEF Doubt
<1>5. CASE ~Doubt
  <2>1. /\ pos' = StringEnd(pos, s).end /\ text' = text /\ out' = out /\ scan' = scan
    BY <1>5 DEF String
  <2>2. ASSUME Following
        PROVE  /\ pos' = Len(text) + 1 \/ Starts(text)[pos']
               /\ OnlyComments(text, out')
               /\ ~Guarded(text) => AllComments(text, out', pos')
    <3>1. /\ Token(text, pos).kind = "string"
          /\ \E m : StringMarkAt(text, pos, m)
                    /\ Token(text, pos).end = LiteralEnd(text, pos, lang.strings[m])
      BY <1>1, <1>2, <2>2, TokenKinds
    <3>2. Token(text, pos).end = LiteralEnd(text, pos, s)
      <4>1. PICK m : StringMarkAt(text, pos, m)
                     /\ Token(text, pos).end = LiteralEnd(text, pos, lang.strings[m])
        BY <3>1
      <4>2. m = AtString
        BY <1>2, <4>1, FirstMark
      <4>3. QED
        BY <4>1, <4>2
    <3>3. LiteralEnd(text, pos, s) # 0
      <4>1. Ends(text)[pos] = Token(text, pos).end
        BY <1>1 DEF Ends
      <4>2. Ends(text)[pos] \in pos..Len(text)
        BY <1>1, <2>2 DEF Following, Readable
      <4>3. QED
        BY <1>1, <3>2, <4>1, <4>2
    <3>4. /\ s \in StringSyntax /\ Marker(s.open) /\ Marker(s.close)
          /\ s.escape \in {<<>>, <<"b">>} /\ \A i \in DOMAIN s.close : s.close[i] # "b"
      BY <1>3, StringsShape
    <3> HIDE DEF s
    <3>5. pos + Len(s.open) \in pos + 1..Len(text) + 1
      BY <1>1, <1>3, <3>4, UnderMarker
    <3>6. pos + Len(s.open) \in 1..Len(text) + 1
      BY <1>1, <3>5
    <3>7. StringEnd(pos, s).end = LiteralEnd(text, pos, s) + 1
      BY <1>1, <3>3, <3>4, <3>6, LiteralIsRead
    <3>8. pos' = Token(text, pos).end + 1
      BY <2>1, <3>2, <3>7
    <3>9. QED
      BY <1>1, <2>1, <2>2, <3>1, <3>8, TokenPassed DEF Following
  <2>3. QED
    BY <1>1, <2>1, <2>2, ExactStep
<1>6. QED
  BY <1>4, <1>5

LEMMA ExactCodeByte ==
    ASSUME Scanner, LanguageShape(lang), Exact, CodeByte, lang' = lang PROVE Exact'
<1>1. /\ pos \in 1..Len(text) /\ pos \in Nat /\ Len(text) \in Nat /\ scan = "scanning"
      /\ text \in Seq(STRING) /\ CopyOf(out, text) /\ ~Triggered(text, line)
      /\ Following => (Starts(text)[pos] \/ InForeign(text, pos)) /\ ~GuardAt(text, pos)
  BY OpenLineShows DEF CodeByte
<1>2. /\ ~LineMarkAt(text, pos) /\ \A m : ~BlockMarkAt(text, pos, m)
      /\ \A m : ~StringMarkAt(text, pos, m)
  BY SameMarks DEF CodeByte
<1>3. pos' = pos + 1 /\ text' = text /\ out' = out /\ scan' = scan
  BY DEF CodeByte
<1>4. ASSUME Following
      PROVE  /\ pos' = Len(text) + 1 \/ Starts(text)[pos'] \/ InForeign(text, pos')
             /\ OnlyComments(text, out')
             /\ ~Guarded(text) => AllComments(text, out', pos')
  <2>1. CASE InForeign(text, pos)
    BY <1>1, <1>3, <1>4, <2>1, ForeignPassed DEF Following
  <2>2. CASE Starts(text)[pos] /\ Token(text, pos).kind = "foreign"
    <3>1. Ends(text)[pos] = Token(text, pos).end
      BY <1>1 DEF Ends
    <3>2. Ends(text)[pos] \in pos..Len(text)
      BY <1>1, <1>4, <2>2 DEF Following, Readable
    <3>3. pos \in pos..Token(text, pos).end
      BY <1>1, <3>1, <3>2
    <3>4. QED
      BY <1>1, <1>3, <1>4, <2>2, <3>3, InsideForeign DEF Following
  <2>3. CASE Starts(text)[pos] /\ Token(text, pos).kind # "foreign"
    <3>1. Token(text, pos).kind = "code" /\ Token(text, pos).end = pos
      BY <1>1, <1>2, <1>4, <2>3, TokenKinds
    <3>2. QED
      BY <1>1, <1>3, <1>4, <2>3, <3>1, TokenPassed DEF Following
  <2>4. QED
    BY <1>1, <1>4, <2>1, <2>2, <2>3
<1>5. QED
  BY <1>1, <1>3, <1>4, ExactStep

LEMMA ExactStripped ==
    ASSUME Scanner, Exact, Stripped, lang' = lang PROVE Exact'
<1>1. /\ scan = "scanning" /\ pos > Len(text) /\ scan' = "stripped"
      /\ text' = text /\ pos' = pos /\ line' = line /\ out' = out
  BY DEF Stripped
<1>2. pos = Len(text) + 1
  BY <1>1 DEF Scanner
<1>3. /\ Lexable(text)' = Lexable(text) /\ Guarded(text)' = Guarded(text)
      /\ OpensOnGuarded(text)' = OpensOnGuarded(text)
      /\ Tokens(text)' = Tokens(text) /\ Comments(text)' = Comments(text)
  BY <1>1, ReadingKept
<1>4. IsProgram(Tokens(text))' <=> IsProgram(Tokens(text))
  BY <1>3 DEF IsProgram
<1>5. OnTrack'
  BY <1>1, <1>2 DEF OnTrack
<1>6. /\ OnlyComments(text, out)' <=> OnlyComments(text, out)
      /\ AllComments(text, out, pos)' <=> AllComments(text, out, pos)
  BY <1>1, <1>3 DEF OnlyComments, AllComments
<1>7. QED
  BY <1>1, <1>2, <1>3, <1>4, <1>5, <1>6 DEF Exact

\* Every step of the scanner keeps the strip exact.
LEMMA StripStepExact ==
    ASSUME Scanner, LanguageShape(lang), Exact, StripStep, lang' = lang PROVE Exact'
  BY ExactNewline, ExactGuardedByte, ExactLineComment, ExactBlockComment, ExactString,
     ExactCodeByte, ExactStripped DEF StripStep

LEMMA FirstToken == text \in Seq(STRING) => text = <<>> \/ Starts(text)[1]
<1>1. SUFFICES ASSUME text \in Seq(STRING), text # <<>> PROVE Starts(text)[1]
  OBVIOUS
<1>2. 1 \in 1..Len(text)
  BY <1>1
<1>3. QED
  BY <1>1, <1>2, StartsSpec

LEMMA NothingBefore == text \in Seq(STRING) /\ pos = 1 => AllComments(text, out, pos)
<1>1. ASSUME text \in Seq(STRING), NEW i \in Comments(text) PROVE ~(i < 1)
  BY <1>1, CommentsInText
<1>2. QED
  BY <1>1 DEF AllComments

\* The scanner begins before the first token, if no string opens on a guarded
\* line.
LEMMA BeginExact ==
    ASSUME NEW f \in File, Begin(Bytes(f)), lang' = lang PROVE Exact'
<1>1. Bytes(f) \in Seq(STRING)
  BY BytesType
<1>2. /\ text' = Bytes(f) /\ out' = Bytes(f) /\ pos' = 1
      /\ scan' = IF OpensOnGuarded(Bytes(f)) THEN "doubt" ELSE "scanning"
  BY DEF Begin
<1>3. (text \in Seq(STRING) => text = <<>> \/ Starts(text)[1])'
  BY FirstToken, PTL
<1>4. OnTrack'
  <2>1. text' = <<>> => Len(text') = 0
    BY <1>2
  <2>2. text' = <<>> \/ Starts(text)'[1]
    BY <1>1, <1>2, <1>3
  <2>3. QED
    BY <1>2, <2>1, <2>2 DEF OnTrack
<1>5. OpensOnGuarded(text)' <=> OpensOnGuarded(Bytes(f))
  <2>1. \A k : Triggered(text, k)' <=> Triggered(Bytes(f), k)
    BY <1>2 DEF Triggered, OnLine
  <2>2. QED
    BY <1>2, <2>1 DEF OpensOnGuarded, OnLine
<1>6. OnlyComments(text, out)'
  BY <1>2 DEF OnlyComments
<1>7. AllComments(text, out, pos)'
  <2>1. (text \in Seq(STRING) /\ pos = 1 => AllComments(text, out, pos))'
    BY NothingBefore, PTL
  <2>2. QED
    BY <1>1, <1>2, <2>1
<1>8. QED
  BY <1>2, <1>4, <1>5, <1>6, <1>7 DEF Exact

LEMMA InitExact == Init => Exact
  BY DEF Init, StripInit, Exact

LEMMA ExactUnread ==
    ASSUME Exact, UNCHANGED stripVars, lang' = lang PROVE Exact'
<1>1. /\ text' = text /\ out' = out /\ pos' = pos /\ line' = line /\ scan' = scan
  BY DEF stripVars
<1>2. /\ Lexable(text)' = Lexable(text) /\ Guarded(text)' = Guarded(text)
      /\ OpensOnGuarded(text)' = OpensOnGuarded(text)
      /\ Starts(text)' = Starts(text)
      /\ Tokens(text)' = Tokens(text) /\ Comments(text)' = Comments(text)
      /\ \A k : Triggered(text, k)' = Triggered(text, k)
      /\ \A p : InForeign(text, p)' = InForeign(text, p)
  BY <1>1, ReadingKept
<1>3. IsProgram(Tokens(text))' <=> IsProgram(Tokens(text))
  BY <1>2 DEF IsProgram
<1>4. OnTrack' <=> OnTrack
  <2>1. Triggered(text, line)' <=> Triggered(text, line)
    BY <1>1 DEF Triggered, OnLine
  <2>2. InForeign(text, pos)' <=> InForeign(text, pos)
    BY <1>1, <1>2 DEF InForeign
  <2>3. QED
    BY <1>1, <1>2, <2>1, <2>2 DEF OnTrack
<1>5. /\ OnlyComments(text, out)' <=> OnlyComments(text, out)
      /\ AllComments(text, out, pos)' <=> AllComments(text, out, pos)
  BY <1>1, <1>2 DEF OnlyComments, AllComments
<1>6. QED
  BY <1>1, <1>2, <1>3, <1>4, <1>5 DEF Exact

LEMMA NextExact == ASSUME Base, Exact, [Next]_vars PROVE Exact'
<1>1. Scanner /\ LanguageShape(lang) /\ Walk
  BY EntryFacts DEF Base
<1>2. lang' = lang
  BY DEF Next, Visit, Strip, Count, Finish, Returned, entryVars, vars, lang
<1>3. CASE Visit
  <2>1. CASE UNCHANGED stripVars
    BY <1>2, <2>1, ExactUnread
  <2>2. CASE scan' = "doubt"
    BY <2>2, ExactDoubt
  <2>3. CASE Begin(Bytes(files[next]))
    <3>1. files[next] \in File
      BY <1>1, <1>3, EntryFacts DEF Base, Walk, Visit
    <3>2. QED
      BY <1>2, <2>3, <3>1, BeginExact
  <2>4. UNCHANGED stripVars \/ scan' = "doubt" \/ Begin(Bytes(files[next]))
    BY <1>3 DEF Visit
  <2>5. QED
    BY <2>1, <2>2, <2>3, <2>4
<1>4. CASE Strip
  BY <1>1, <1>2, <1>4, StripStepExact DEF Strip
<1>5. CASE Count \/ Finish \/ Returned \/ UNCHANGED vars
  <2>1. UNCHANGED stripVars
    BY <1>5 DEF Count, Finish, Returned, vars
  <2>2. QED
    BY <1>2, <2>1, ExactUnread
<1>6. QED
  BY <1>3, <1>4, <1>5 DEF Next

\* The invariant of the strip.
THEOREM ExactInvariant == Spec => [](Base /\ Exact)
  BY InitBase, InitExact, NextBase, NextExact, PTL DEF Spec

LEMMA ExactGives == ASSUME Base, Exact PROVE StripIsExact
<1> DEFINE comments == {i \in Comments(text) : text[i] \notin {"n", " "}}
<1>1. SUFFICES ASSUME AtCount, Lexable(text), IsProgram(Tokens(text))
               PROVE  Blanked \subseteq comments /\ (~Guarded(text) => comments \subseteq Blanked)
  BY DEF StripIsExact, Comments, Guarded
<1>2. scan = "stripped"
  BY <1>1 DEF AtCount
<1>3. /\ text \in Seq(STRING) /\ Len(text) \in Nat /\ DOMAIN text = 1..Len(text)
      /\ CopyOf(out, text) /\ DOMAIN out = 1..Len(text) /\ LanguageShape(lang)
  BY CopyHasItsSize, EntryFacts DEF Base, Scanner
<1>4. /\ OnlyComments(text, out) /\ pos = Len(text) + 1
      /\ ~Guarded(text) => AllComments(text, out, pos)
  BY <1>1, <1>2 DEF Exact
<1>5. Readable(text)
  BY <1>1, <1>3, ProgramsAreRead
<1>6. ASSUME NEW i \in Blanked PROVE i \in comments
  <2>1. i \in 1..Len(text) /\ out[i] # text[i]
    BY <1>3, <1>6 DEF Blanked
  <2>2. i \in Comments(text) /\ out[i] = " " /\ text[i] # "n"
    BY <1>3, <1>4, <2>1 DEF OnlyComments, CopyOf
  <2>3. QED
    BY <2>1, <2>2
<1>7. ASSUME ~Guarded(text), NEW i \in comments PROVE i \in Blanked
  <2>1. i \in 1..Len(text)
    BY <1>3, <1>5, CommentsInText
  <2>2. i < pos
    <3>1. pos = Len(text) + 1 /\ Len(text) \in Nat
      BY <1>3, <1>4
    <3> HIDE DEF comments
    <3>2. QED
      BY <2>1, <3>1
  <2>3. out[i] = " "
    BY <1>4, <1>7, <2>2 DEF AllComments
  <2>4. QED
    BY <1>3, <1>7, <2>1, <2>3 DEF Blanked
<1>8. QED
  BY <1>6, <1>7

\* The strip of every program the scanner can follow, whatever literals its
\* language has besides the configured ones, is exact: it blanks nothing but
\* comments the language ignores, and outside guarded files all of them.
THEOREM StripAlwaysExact == Spec => []StripIsExact
  BY ExactInvariant, ExactGives, PTL

-----------------------------------------------------------------------------
(* The hazards survive *)

\* A block comment ends with its closer.
LEMMA BlockEndCloses ==
    ASSUME NEW t \in Seq(STRING), NEW open, NEW cl, NEW p \in 1..Len(t),
           Len(open) \in Nat \ {0}, Len(cl) \in Nat \ {0}, BlockEnd(t, p, open, cl) # 0
    PROVE  t[BlockEnd(t, p, open, cl)] = cl[Len(cl)]
<1> DEFINE n == Len(t)
           Closed(e) == e = 0 \/ t[e] = cl[Len(cl)]
<1>1. n \in Nat
  OBVIOUS
<1>2. PICK R : Reads(R, t, open, cl) /\ \A q \in 1..n + 1 : BlockEnd(t, q, open, cl) = R[q][0]
  BY BlockEndReads
<1> DEFINE S == {i \in 1..n + 1 : \A depth \in Int : Closed(R[i][depth])}
<1>3. ASSUME NEW i \in 1..n + 1, \A j \in i + 1..n + 1 : j \in S PROVE i \in S
  <2> SUFFICES ASSUME NEW depth \in Int PROVE Closed(R[i][depth])
    OBVIOUS
  <2>1. R[i][depth] = BlockRest(R, t, open, cl, i, depth)
    BY <1>2 DEF Reads
  <2>2. \A j \in i + 1..n + 1 : \A d \in Int : Closed(R[j][d])
    BY <1>3
  <2>3. depth + 1 \in Int /\ depth - 1 \in Int
    OBVIOUS
  <2> DEFINE Inner == At(t, i, open) /\ (lang.nests \/ depth = 0)
  <2> HIDE DEF S
  <2>4. CASE i > n
    BY <2>1, <2>4 DEF BlockRest
  <2>5. CASE ~(i > n) /\ Inner
    <3>1. i + Len(open) \in i + 1..n + 1
      BY <2>5 DEF At
    <3>2. R[i][depth] = R[i + Len(open)][depth + 1]
      BY <2>1, <2>5 DEF BlockRest
    <3>3. QED
      BY <2>2, <2>3, <3>1, <3>2
  <2>6. CASE ~(i > n) /\ ~Inner /\ At(t, i, cl)
    <3>1. i + Len(cl) \in i + 1..n + 1 /\ t[i + Len(cl) - 1] = cl[Len(cl)]
      BY <2>6, SMTT(30) DEF At
    <3>2. R[i][depth] = IF depth = 1 THEN i + Len(cl) - 1 ELSE R[i + Len(cl)][depth - 1]
      BY <2>1, <2>6 DEF BlockRest
    <3>3. Closed(R[i + Len(cl)][depth - 1])
      BY <2>2, <2>3, <3>1
    <3>4. QED
      BY <3>1, <3>2, <3>3
  <2>7. CASE ~(i > n) /\ ~Inner /\ ~At(t, i, cl)
    <3>1. i + 1 \in i + 1..n + 1
      BY <1>1, <2>7
    <3>2. R[i][depth] = R[i + 1][depth]
      BY <2>1, <2>7 DEF BlockRest
    <3>3. QED
      BY <2>2, <3>1, <3>2
  <2>8. QED
    BY <2>4, <2>5, <2>6, <2>7
<1>4. \A i \in 1..n + 1 : i \in S
  <2> HIDE DEF S
  <2>1. QED
    BY <1>1, <1>3, Descend
<1>5. p \in 1..n + 1 /\ 0 \in Int
  BY <1>1
<1>6. Closed(R[p][0])
  BY <1>4, <1>5
<1>7. QED
  BY <1>2, <1>5, <1>6

\* A byte of a comment is in the comment's token.
LEMMA CommentToken ==
    ASSUME NEW t \in Seq(STRING), NEW i \in Comments(t)
    PROVE  \E p \in 1..Len(t) : /\ Starts(t)[p] /\ i \in p..Ends(t)[p]
                                /\ Token(t, p).kind = "comment" /\ ~\E m \in lang.keep : At(t, p, m)
<1>1. DOMAIN t = 1..Len(t) /\ Len(t) \in Nat
  OBVIOUS
<1> DEFINE at == [q \in DOMAIN t |-> Token(t, q)]
           S == TokenStarts(DOMAIN t, {<<q, at[q].end>> : q \in DOMAIN t})
<1>2. {<<q, at[q].end>> : q \in DOMAIN t} = Spans(t)
  BY DEF Spans
<1>3. S = Starts(t)
  BY <1>2 DEF Starts
<1>4. PICK c \in Tokens(t) : /\ i \in c.from..c.to
                             /\ c.kind = "comment" /\ ~\E m \in lang.keep : At(t, c.from, m)
  BY DEF Comments, CommentBytes
<1>5. PICK p \in {j \in DOMAIN t : S[j]} : c = [from |-> p, to |-> at[p].end, kind |-> at[p].kind]
  BY <1>4 DEF Tokens
<1>6. /\ p \in 1..Len(t) /\ Starts(t)[p] /\ c.from = p /\ c.to = Ends(t)[p]
      /\ c.kind = Token(t, p).kind
  BY <1>1, <1>3, <1>5 DEF Ends
<1>7. QED
  BY <1>4, <1>6

\* Right behind a comment, on its line, a word is not joined to it.
LEMMA CommentEnds ==
    ASSUME LanguageShape(lang), NEW t \in Seq(STRING), Readable(t), NEW h \in lang.hazards,
           NEW i \in Comments(t), i + 1 \in 1..Len(t), i + 1 \notin Comments(t), t[i + 1] # "n"
    PROVE  t[i] \notin h.notAfter
<1>1. PICK p \in 1..Len(t) : /\ Starts(t)[p] /\ i \in p..Ends(t)[p]
                             /\ Token(t, p).kind = "comment" /\ ~\E m \in lang.keep : At(t, p, m)
  BY CommentToken
<1>2. /\ Ends(t)[p] \in p..Len(t) /\ Ends(t)[p] = Token(t, p).end /\ i \in Nat /\ Len(t) \in Nat
  BY <1>1, CommentsInText DEF Readable, Ends
<1>3. Ends(t)[p] = i
  <2>1. ~(i + 1 \in p..Ends(t)[p])
    BY <1>1, TokenByte
  <2>2. QED
    BY <1>1, <1>2, <2>1
<1>4. ~LineMarkAt(t, p) \/ Token(t, p).end # LineEnd(t, p) - 1
  <2>1. SUFFICES ASSUME Token(t, p).end = LineEnd(t, p) - 1 PROVE FALSE
    OBVIOUS
  <2>2. /\ LineEnd(t, p) \in p..Len(t) + 1
        /\ LineEnd(t, p) <= Len(t) => t[LineEnd(t, p)] = "n"
    BY LineEndSpec
  <2>3. LineEnd(t, p) \in Nat
    BY <1>2, <2>2
  <2>4. i + 1 = LineEnd(t, p) /\ i + 1 <= Len(t)
    <3>1. LineEnd(t, p) - 1 = i
      BY <1>2, <1>3, <2>1
    <3>2. QED
      BY <1>2, <2>3, <3>1
  <2>5. QED
    BY <2>2, <2>4
<1>5. PICK m : /\ BlockMarkAt(t, p, m)
               /\ Token(t, p).end = BlockEnd(t, p, lang.blockComments[m][1], lang.blockComments[m][2])
  BY <1>1, <1>4, TokenKinds
<1> DEFINE open == lang.blockComments[m][1]
           cl == lang.blockComments[m][2]
<1>6. m \in DOMAIN lang.blockComments /\ Marker(open) /\ Marker(cl)
  BY <1>5 DEF BlockMarkAt, LanguageShape
<1>7. cl[Len(cl)] \notin h.notAfter
  BY <1>6 DEF LanguageShape, HazardShape
<1>8. t[i] = cl[Len(cl)]
  <2> HIDE DEF open, cl
  <2>1. Len(open) \in Nat \ {0} /\ Len(cl) \in Nat \ {0}
    BY <1>6 DEF Marker
  <2>2. BlockEnd(t, p, open, cl) = i
    BY <1>2, <1>3, <1>5 DEF open, cl
  <2>3. i # 0
    BY CommentsInText
  <2>4. QED
    BY <2>1, <2>2, <2>3, BlockEndCloses
<1>9. QED
  BY <1>7, <1>8

\* Where a comment begins, a word ends.
LEMMA CommentStarts ==
    ASSUME LanguageShape(lang), NEW t \in Seq(STRING), Readable(t), NEW h \in lang.hazards,
           NEW i \in Comments(t), i - 1 \in 1..Len(t), i - 1 \notin Comments(t)
    PROVE  t[i] \notin h.notBefore
<1>1. PICK p \in 1..Len(t) : /\ Starts(t)[p] /\ i \in p..Ends(t)[p]
                             /\ Token(t, p).kind = "comment" /\ ~\E m \in lang.keep : At(t, p, m)
  BY CommentToken
<1>2. /\ Ends(t)[p] \in p..Len(t) /\ i \in Nat /\ Len(t) \in Nat
  BY <1>1, CommentsInText DEF Readable
<1>3. p = i
  <2>1. ~(i - 1 \in p..Ends(t)[p])
    BY <1>1, TokenByte
  <2>2. QED
    BY <1>1, <1>2, <2>1
<1>4. LineMarkAt(t, p) \/ \E m : BlockMarkAt(t, p, m)
  BY <1>1, TokenKinds
<1>5. \A m : Marker(m) /\ At(t, p, m) => t[p] = m[1]
  <2>1. SUFFICES ASSUME NEW m, Marker(m), At(t, p, m) PROVE t[p] = m[1]
    OBVIOUS
  <2>2. Len(m) \in Nat \ {0} /\ p \in Nat
    BY <2>1 DEF Marker
  <2>3. 1 \in 1..Len(m) /\ p + 1 - 1 = p
    BY <2>2
  <2>4. QED
    BY <2>1, <2>3 DEF At
<1>6. HazardShape(lang, h)
  BY DEF LanguageShape
<1>7. ASSUME LineMarkAt(t, p) PROVE t[p] \notin h.notBefore
  <2>1. PICK m \in DOMAIN lang.lineComments : At(t, p, lang.lineComments[m])
    BY <1>7 DEF LineMarkAt
  <2>2. Marker(lang.lineComments[m]) /\ lang.lineComments[m][1] \notin h.notBefore
    BY <1>6 DEF LanguageShape, HazardShape
  <2>3. QED
    BY <1>5, <2>1, <2>2
<1>8. ASSUME NEW m, BlockMarkAt(t, p, m) PROVE t[p] \notin h.notBefore
  <2>1. m \in DOMAIN lang.blockComments /\ At(t, p, lang.blockComments[m][1])
    BY <1>8 DEF BlockMarkAt
  <2>2. Marker(lang.blockComments[m][1]) /\ lang.blockComments[m][1][1] \notin h.notBefore
    BY <1>6, <2>1 DEF LanguageShape, HazardShape
  <2>3. QED
    BY <1>5, <2>1, <2>2
<1>9. QED
  BY <1>3, <1>4, <1>7, <1>8

\* A copy in which some comments are blank, and the text without comments.
LEMMA CodeOfCopy ==
    ASSUME NEW t \in Seq(STRING), NEW u, CopyOf(u, t), OnlyComments(t, u)
    PROVE  /\ DOMAIN Code(t) = 1..Len(t) /\ Len(Code(t)) = Len(t) /\ Len(u) = Len(t)
           /\ Len(t) \in Nat /\ DOMAIN u = 1..Len(t)
           /\ \A i \in 1..Len(t) :
                 /\ Code(t)[i] = IF i \in Comments(t) /\ t[i] # "n" THEN " " ELSE t[i]
                 /\ u[i] = t[i] \/ (u[i] = " " /\ t[i] # "n")
                 /\ i \notin Comments(t) \/ t[i] = "n" => u[i] = Code(t)[i]
                 /\ u[i] # Code(t)[i] => u[i] = t[i]
<1>1. DOMAIN t = 1..Len(t) /\ Len(t) \in Nat /\ Len(u) = Len(t) /\ DOMAIN u = 1..Len(t)
  BY CopyHasItsSize
<1>2. Code(t) = [i \in 1..Len(t) |-> IF i \in Comments(t) /\ t[i] # "n" THEN " " ELSE t[i]]
  BY <1>1 DEF Code, Comments
<1>3. Len(Code(t)) = Len(t)
  <2> DEFINE byte(i) == IF i \in Comments(t) /\ t[i] # "n" THEN " " ELSE t[i]
  <2>1. Code(t) = [i \in 1..Len(t) |-> byte(i)]
    BY <1>2
  <2> HIDE DEF byte
  <2>2. Code(t) \in [1..Len(t) -> {byte(i) : i \in 1..Len(t)}]
    BY <2>1
  <2>3. QED
    BY <1>1, <2>2, FunctionIsSeq
<1>4. ASSUME NEW i \in 1..Len(t)
      PROVE  /\ Code(t)[i] = IF i \in Comments(t) /\ t[i] # "n" THEN " " ELSE t[i]
             /\ u[i] = t[i] \/ (u[i] = " " /\ t[i] # "n")
             /\ i \notin Comments(t) \/ t[i] = "n" => u[i] = Code(t)[i]
             /\ u[i] # Code(t)[i] => u[i] = t[i]
  <2>1. Code(t)[i] = IF i \in Comments(t) /\ t[i] # "n" THEN " " ELSE t[i]
    BY <1>2
  <2>2. u[i] = t[i] \/ (u[i] = " " /\ t[i] # "n")
    BY DEF CopyOf
  <2>3. u[i] # t[i] => i \in Comments(t)
    BY <1>1 DEF OnlyComments
  <2>4. QED
    BY <2>1, <2>2, <2>3
<1>5. QED
  BY <1>1, <1>2, <1>3, <1>4

\* A mark without white space, and the positions of its bytes.
Visible(m) == m \in Seq(STRING) /\ \A i \in DOMAIN m : m[i] \notin {"n", " "}

LEMMA MarkerIsVisible ==
    ASSUME NEW m, m = <<>> \/ Marker(m), m \in Seq(STRING), \A i \in DOMAIN m : m[i] # " "
    PROVE  Visible(m) /\ Len(m) \in Nat
<1>1. Len(m) \in Nat
  BY LenOfSeq
<1>2. \A i \in DOMAIN m : m[i] # "n"
  <2>1. CASE m = <<>>
    BY <2>1
  <2>2. CASE Marker(m)
    BY <2>2 DEF Marker
  <2>3. QED
    BY <2>1, <2>2
<1>3. QED
  BY <1>1, <1>2 DEF Visible

LEMMA MarkerLen == ASSUME NEW m, Marker(m) PROVE Len(m) \in Nat /\ Len(m) >= 1
  BY DEF Marker

LEMMA Positions ==
    ASSUME NEW p \in Nat, p >= 1, NEW n \in Nat, NEW size \in Nat, p + n <= size + 1
    PROVE  /\ \A i \in p..(p + n) - 1 : i - p + 1 \in 1..n /\ p + (i - p + 1) - 1 = i /\ i \in 1..size
           /\ \A i \in 1..n : p + i - 1 \in p..(p + n) - 1
           /\ n >= 1 => /\ p \in p..(p + n) - 1 /\ (p + n) - 1 \in p..(p + n) - 1
                        /\ p + n <= size => p + n \in 1..size
           /\ p > 1 /\ n >= 1 => p - 1 \in 1..size /\ (p - 1) + 1 = p
           /\ \A j \in p + n..size + 1 : j \in Nat /\ j >= 1 /\ \A k \in p + n..j - 1 : k \in 1..size
  OBVIOUS

\* What stands in the text without its comments stands in a copy.
LEMMA MarkInCopy ==
    ASSUME NEW t \in Seq(STRING), NEW u, CopyOf(u, t), OnlyComments(t, u),
           NEW p \in Nat, p >= 1, NEW m, Visible(m), At(Code(t), p, m)
    PROVE  /\ At(u, p, m)
           /\ \A i \in p..(p + Len(m)) - 1 :
                 i \in 1..Len(t) /\ i \notin Comments(t) /\ t[i] # "n" /\ u[i] = t[i]
<1> DEFINE n == Len(m)
<1>1. n \in Nat /\ DOMAIN m = 1..n
  <2>1. m \in Seq(STRING)
    BY DEF Visible
  <2>2. QED
    BY <2>1, LenOfSeq
<1>2. /\ Len(Code(t)) = Len(t) /\ Len(u) = Len(t) /\ Len(t) \in Nat
      /\ \A i \in 1..Len(t) :
                 /\ Code(t)[i] = IF i \in Comments(t) /\ t[i] # "n" THEN " " ELSE t[i]
                 /\ i \notin Comments(t) \/ t[i] = "n" => u[i] = Code(t)[i]
  BY CodeOfCopy
<1>3. p + n <= Len(t) + 1 /\ \A i \in 1..n : Code(t)[p + i - 1] = m[i]
  BY <1>2 DEF At
<1> HIDE DEF n
<1>4. /\ \A i \in p..(p + n) - 1 : i - p + 1 \in 1..n /\ p + (i - p + 1) - 1 = i /\ i \in 1..Len(t)
      /\ \A i \in 1..n : p + i - 1 \in p..(p + n) - 1
  BY <1>1, <1>2, <1>3, Positions
<1>5. ASSUME NEW i \in p..(p + n) - 1
      PROVE  i \in 1..Len(t) /\ i \notin Comments(t) /\ t[i] # "n" /\ u[i] = t[i] /\ u[i] = Code(t)[i]
  <2>1. i - p + 1 \in 1..n /\ p + (i - p + 1) - 1 = i /\ i \in 1..Len(t)
    BY <1>4
  <2>2. Code(t)[i] = m[i - p + 1]
    BY <1>3, <2>1
  <2>3. Code(t)[i] # "n" /\ Code(t)[i] # " "
    BY <1>1, <2>1, <2>2 DEF Visible
  <2>4. QED
    BY <1>2, <2>1, <2>3
<1>6. ASSUME NEW i \in 1..n PROVE u[p + i - 1] = m[i]
  BY <1>3, <1>4, <1>5
<1>7. At(u, p, m)
  BY <1>2, <1>3, <1>6 DEF At, n
<1>8. QED
  BY <1>5, <1>7 DEF n

\* A comment stands inside the match at i, and all comments are blank.
CommentInside(t, i, h) ==
    \E j \in Followers(Code(t), i, h) : \E c \in i + Len(h.name)..j - 1 : c \in Comments(t)
AllBlank(t, u) == \A c \in Comments(t) : t[c] # "n" => u[c] = " "

LEMMA HazardMarks ==
    ASSUME LanguageShape(lang), NEW h \in lang.hazards
    PROVE  Visible(h.name) /\ Visible(h.then) /\ Len(h.name) \in Nat /\ Len(h.name) >= 1
<1>1. HazardShape(lang, h)
  BY DEF LanguageShape
<1>2. /\ Marker(h.name) /\ (h.then = <<>> \/ Marker(h.then))
      /\ h.name \in Seq(STRING) /\ h.then \in Seq(STRING)
      /\ \A k \in DOMAIN h.name : h.name[k] # " "
      /\ \A k \in DOMAIN h.then : h.then[k] # " "
  BY <1>1 DEF HazardShape, HazardSyntax
<1>3. QED
  BY <1>2, MarkerIsVisible, MarkerLen

\* A match survives in a copy if all comments are blank there, or none of them
\* stands inside the match.
LEMMA MatchSurvives ==
    ASSUME LanguageShape(lang), NEW t \in Seq(STRING), Readable(t), NEW h \in lang.hazards,
           NEW u, CopyOf(u, t), OnlyComments(t, u), NEW i \in 1..Len(t), MatchesAt(Code(t), i, h),
           AllBlank(t, u) \/ ~CommentInside(t, i, h)
    PROVE  MatchesAt(u, i, h)
<1> DEFINE code == Code(t)
<1>1. /\ DOMAIN code = 1..Len(t) /\ Len(code) = Len(t) /\ Len(u) = Len(t)
      /\ Len(t) \in Nat /\ DOMAIN u = 1..Len(t)
      /\ \A p \in 1..Len(t) :
                 /\ code[p] = IF p \in Comments(t) /\ t[p] # "n" THEN " " ELSE t[p]
                 /\ u[p] = t[p] \/ (u[p] = " " /\ t[p] # "n")
                 /\ p \notin Comments(t) \/ t[p] = "n" => u[p] = code[p]
                 /\ u[p] # code[p] => u[p] = t[p]
  BY CodeOfCopy
<1>2. MatchesAt(code, i, h)
  OBVIOUS
<1> HIDE DEF code
<1> DEFINE size == Len(h.name)
           end == i + size
<1>3. /\ Visible(h.name) /\ Visible(h.then) /\ size \in Nat /\ size >= 1
      /\ i \in Nat /\ i >= 1
  BY HazardMarks
<1>4. /\ At(code, i, h.name)
      /\ i > 1 => code[i - 1] \notin h.notAfter
      /\ end <= Len(code) => code[end] \notin h.notBefore
      /\ Followers(code, i, h) # {}
  BY <1>2 DEF MatchesAt
<1>5. /\ i \in i..end - 1 /\ end - 1 \in i..end - 1
      /\ end <= Len(t) => end \in 1..Len(t)
      /\ i > 1 => i - 1 \in 1..Len(t) /\ (i - 1) + 1 = i
      /\ \A j \in end..Len(t) + 1 : j \in Nat /\ j >= 1 /\ \A k \in end..j - 1 : k \in 1..Len(t)
  <2>1. i + size <= Len(t) + 1
    BY <1>1, <1>4 DEF At
  <2> HIDE DEF size
  <2>2. QED
    BY <1>1, <1>3, <2>1, Positions
<1>6. CASE AllBlank(t, u)
  <2>1. ASSUME NEW p \in 1..Len(t) PROVE u[p] = code[p]
    BY <1>1, <1>6 DEF AllBlank
  <2>2. u = code
    <3>1. u = [p \in 1..Len(t) |-> u[p]]
      <4>1. u \in [1..Len(t) -> STRING \cup {" "}]
        BY Zenon DEF CopyOf
      <4>2. QED
        BY <4>1
    <3>2. code = [p \in 1..Len(t) |-> code[p]]
      BY <1>1 DEF code, Code
    <3>3. QED
      BY <2>1, <3>1, <3>2
  <2>3. QED
    BY <1>2, <2>2
<1>7. CASE ~CommentInside(t, i, h)
  <2>1. /\ At(u, i, h.name)
        /\ \A p \in i..end - 1 : p \in 1..Len(t) /\ p \notin Comments(t) /\ t[p] # "n" /\ u[p] = t[p]
    <3>1. At(Code(t), i, h.name)
      BY <1>4 DEF code
    <3>2. /\ At(u, i, h.name)
          /\ \A p \in i..(i + Len(h.name)) - 1 :
                p \in 1..Len(t) /\ p \notin Comments(t) /\ t[p] # "n" /\ u[p] = t[p]
      BY <1>3, <3>1, MarkInCopy
    <3>3. QED
      BY <3>2, Zenon DEF end, size
  <2> HIDE DEF end
  <2>2. i > 1 => u[i - 1] \notin h.notAfter
    <3>1. SUFFICES ASSUME i > 1, u[i - 1] # code[i - 1] PROVE u[i - 1] \notin h.notAfter
      BY <1>4
    <3>2. i - 1 \in 1..Len(t) /\ (i - 1) + 1 = i /\ i \in i..end - 1
      BY <1>5, <3>1
    <3>3. i - 1 \in Comments(t) /\ u[i - 1] = t[i - 1]
      BY <1>1, <3>1, <3>2
    <3>4. (i - 1) + 1 \in 1..Len(t) /\ (i - 1) + 1 \notin Comments(t) /\ t[(i - 1) + 1] # "n"
      BY <2>1, <3>2
    <3>5. t[i - 1] \notin h.notAfter
      BY <3>3, <3>4, CommentEnds
    <3>6. QED
      BY <3>3, <3>5
  <2>3. end <= Len(t) => u[end] \notin h.notBefore
    <3>1. SUFFICES ASSUME end <= Len(t), u[end] # code[end] PROVE u[end] \notin h.notBefore
      BY <1>1, <1>4
    <3>2. end \in 1..Len(t) /\ end - 1 \in i..end - 1
      BY <1>5, <3>1
    <3>3. end \in Comments(t) /\ u[end] = t[end]
      BY <1>1, <3>1, <3>2
    <3>4. end - 1 \in 1..Len(t) /\ end - 1 \notin Comments(t)
      BY <2>1, <3>2
    <3>5. t[end] \notin h.notBefore
      BY <3>3, <3>4, CommentStarts
    <3>6. QED
      BY <3>3, <3>5
  <2>4. Followers(u, i, h) # {}
    <3>1. PICK j \in Followers(code, i, h) : TRUE
      BY <1>4
    <3>2. /\ j \in end..Len(t) + 1 /\ At(code, j, h.then)
          /\ \A k \in end..j - 1 : code[k] \in {" ", "n"}
      BY <1>1, <3>1 DEF Followers, end
    <3>3. j \in Nat /\ j >= 1 /\ \A k \in end..j - 1 : k \in 1..Len(t)
      BY <1>5, <3>2
    <3>4. At(u, j, h.then)
      <4>1. At(Code(t), j, h.then)
        BY <3>2 DEF code
      <4>2. QED
        BY <1>3, <3>3, <4>1, MarkInCopy
    <3>5. ASSUME NEW k \in end..j - 1 PROVE u[k] \in {" ", "n"}
      <4>1. k \in 1..Len(t)
        BY <3>3
      <4>2. k \notin Comments(t)
        BY <1>7, <3>1 DEF CommentInside, code, end
      <4>3. u[k] = code[k]
        BY <1>1, <4>1, <4>2
      <4>4. QED
        BY <3>2, <4>3
    <3>6. j \in Followers(u, i, h)
      BY <1>1, <3>2, <3>4, <3>5 DEF Followers, end
    <3>7. QED
      BY <3>6
  <2>5. QED
    BY <1>1, <2>1, <2>2, <2>3, <2>4 DEF MatchesAt, end
<1>8. QED
  BY <1>6, <1>7

\* How a file is read depends on its language only.
LEMMA RunsKept ==
    ASSUME NEW f, lang' = lang
    PROVE  /\ Runs(f)' = Runs(f) /\ Reader(f)' = Reader(f) /\ Bytes(f)' = Bytes(f)
           /\ \A t : /\ Lexable(t)' = Lexable(t) /\ Guarded(t)' = Guarded(t)
                    /\ Code(t)' = Code(t) /\ Comments(t)' = Comments(t)
<1>1. \A t, p, open, cl : BlockEnd(t, p, open, cl)' = BlockEnd(t, p, open, cl)
  BY SMTT(30) DEF BlockEnd, At
<1>2. \A t, p : Token(t, p)' = Token(t, p)
  BY <1>1 DEF Token, CharEnd
<1>3. \A t : Tokens(t)' = Tokens(t)
  BY <1>2 DEF Tokens
<1>4. \A t : Comments(t)' = Comments(t)
  BY <1>3 DEF Comments, CommentBytes
<1>5. ASSUME NEW t PROVE Code(t)' = Code(t)
  <2>1. CommentBytes(t, Tokens(t))' = CommentBytes(t, Tokens(t))
    BY <1>4 DEF Comments
  <2>2. QED
    BY <2>1 DEF Code
<1>6. \A t, k : Triggered(t, k)' = Triggered(t, k)
  BY DEF Triggered, OnLine
<1>7. \A t : Guarded(t)' = Guarded(t)
  BY <1>6 DEF Guarded
<1>8. \A t : Lexable(t)' = Lexable(t)
  BY <1>3 DEF Lexable, Overlaps, Splices, MarkAt
<1>9. Reader(f)' = Reader(f) /\ Bytes(f)' = Bytes(f)
  BY DEF Reader, Bytes
<1>10. Runs(f)' = Runs(f)
  BY <1>3, <1>5, <1>9 DEF Runs
<1>11. QED
  BY <1>4, <1>5, <1>7, <1>8, <1>9, <1>10

\* A match of a scan is one of its hits.
LEMMA MatchIsHit ==
    ASSUME NEW u, NEW i \in DOMAIN u, NEW h \in lang.hazards, MatchesAt(u, i, h), NEW name
    PROVE  \E x \in Hits(name, u) : x.file = name /\ x.at = i /\ x.hazard = h
<1> DEFINE x == [file |-> name, hazard |-> h, line |-> LineOf(u, i, h), at |-> i]
           r == <<i, h>>
<1>1. r \in {m \in (DOMAIN u) \X lang.hazards : MatchesAt(u, m[1], m[2])}
  OBVIOUS
<1>2. x \in Hits(name, u)
  BY <1>1 DEF Hits
<1>3. x.file = name /\ x.at = i /\ x.hazard = h
  OBVIOUS
<1>4. QED
  BY <1>2, <1>3

HitAt(k, i, h) == \E x \in HitsIn(k) : x.at = i /\ x.hazard = h

\* The hazards that file k runs are hit, as FollowedHazardsSurvive has it.
Alive(k, f) ==
    Bytes(f) = Reader(f) /\ (k \in score.notes \/ Lexable(Reader(f))) =>
        \A r \in Runs(f) : HitAt(k, r[1], r[2]) \/ Interrupted(k, Reader(f), r[1], r[2])

CommandsHit ==
    \A c \in DOMAIN commands : \A i \in DOMAIN commands[c], h \in lang.hazards :
        MatchesAt(commands[c], i, h) => HitAt(Len(files) + c, i, h)

\* The hazards of the files counted survive, and those of the commands.
Survived ==
    /\ pc # "failed" => \A k \in Shipped, f \in File : f = files[k] /\ k < next => Alive(k, f)
    /\ pc = "scored" => CommandsHit

\* Every hazard that the file counted runs is in what is scanned of it, or a
\* comment stands inside it that is not stripped.
LEMMA ScanIsEnough ==
    ASSUME Base, Exact, pc = "count", scan \in {"stripped", "doubt"},
           NEW f, f = files[next], Bytes(f) = Reader(f), scan = "doubt" \/ Lexable(text),
           NEW r \in Runs(f)
    PROVE  \/ MatchesAt(Scanned, r[1], r[2])
           \/ (scan = "doubt" \/ Guarded(text)) /\ CommentInside(text, r[1], r[2])
<1>1. /\ LanguageShape(lang) /\ text = Bytes(f) /\ text = Reader(f) /\ text \in Seq(STRING)
      /\ CopyOf(out, text) /\ DOMAIN text = 1..Len(text) /\ Len(text) \in Nat
  BY EntryFacts DEF Base, Walk, Scanner
<1>2. /\ IsProgram(Tokens(text)) /\ r \in (DOMAIN text) \X lang.hazards
      /\ MatchesAt(Code(text), r[1], r[2])
  BY <1>1 DEF Runs
<1>3. /\ r[1] \in 1..Len(text) /\ r[2] \in lang.hazards /\ Readable(text)
  BY <1>1, <1>2, ProgramsAreRead
<1>4. CASE scan = "doubt"
  <2>1. Scanned = text /\ CopyOf(text, text) /\ OnlyComments(text, text)
    BY <1>1, <1>4, CopyOfItself DEF Scanned, OnlyComments
  <2>2. QED
    BY <1>1, <1>2, <1>3, <1>4, <2>1, MatchSurvives
<1>5. CASE scan = "stripped"
  <2>1. Scanned = out /\ Lexable(text)
    BY <1>5 DEF Scanned
  <2>2. OnlyComments(text, out) /\ (~Guarded(text) => AllComments(text, out, Len(text) + 1))
    BY <1>2, <1>5, <2>1 DEF Exact
  <2>3. ~Guarded(text) => AllBlank(text, out)
    <3>1. \A c \in Comments(text) : c < Len(text) + 1
      <4>1. \A c \in Comments(text) : c \in 1..Len(text)
        BY <1>1, <1>3, CommentsInText
      <4>2. \A c \in 1..Len(text) : c < Len(text) + 1
        BY <1>1
      <4>3. QED
        BY <4>1, <4>2
    <3>2. QED
      BY <2>2, <3>1 DEF AllComments, AllBlank
  <2>4. AllBlank(text, out) \/ ~CommentInside(text, r[1], r[2]) => MatchesAt(out, r[1], r[2])
    BY <1>1, <1>2, <1>3, <2>2, MatchSurvives
  <2>5. QED
    BY <2>1, <2>3, <2>4
<1>6. QED
  BY <1>4, <1>5

LEMMA InitSurvived == ASSUME Init PROVE Survived
<1>1. next = 1 /\ pc = "walk" /\ LanguageShape(lang)
  BY LanguagesAssumption DEF Init, lang
<1>2. DOMAIN files = 1..Len(files)
  BY EntriesAssumption DEF Init
<1>3. \A k \in Shipped : ~(k < next)
  BY <1>1, <1>2 DEF Shipped
<1>4. QED
  BY <1>1, <1>3 DEF Survived

\* What is said of a file stays true as long as its hits and its note do.
LEMMA AliveKept ==
    ASSUME NEW k, NEW f, lang' = lang, HitsIn(k)' = HitsIn(k),
           (k \in score.notes)' <=> k \in score.notes, Alive(k, f)
    PROVE  Alive(k, f)'
<1>1. /\ Runs(f)' = Runs(f) /\ Reader(f)' = Reader(f) /\ Bytes(f)' = Bytes(f)
      /\ \A t : /\ Lexable(t)' = Lexable(t) /\ Guarded(t)' = Guarded(t)
               /\ Code(t)' = Code(t) /\ Comments(t)' = Comments(t)
  BY RunsKept
<1>2. \A t, i, h : Interrupted(k, t, i, h)' <=> Interrupted(k, t, i, h)
  BY <1>1 DEF Interrupted, Comments
<1>3. \A i, h : HitAt(k, i, h)' <=> HitAt(k, i, h)
  BY DEF HitAt
<1>4. QED
  BY <1>1, <1>2, <1>3 DEF Alive

\* As long as neither the hits nor what is counted changes.
LEMMA SurvivedKept ==
    ASSUME Survived, lang' = lang, files' = files, commands' = commands, Shipped' = Shipped,
           score'.hits = score.hits, score'.notes = score.notes, pc # "failed",
           \A k \in Shipped : k < next' => k < next,
           pc' = "scored" => pc = "scored"
    PROVE  Survived'
<1>1. \A k : HitsIn(k)' = HitsIn(k)
  BY DEF HitsIn
<1>2. ASSUME NEW k \in Shipped', NEW f \in File, f = files'[k], k < next' PROVE Alive(k, f)'
  <2>1. Alive(k, f)
    BY <1>2 DEF Survived
  <2>2. QED
    BY <1>1, <2>1, AliveKept
<1>3. (pc = "scored" => CommandsHit)'
  BY <1>1 DEF Survived, CommandsHit, HitAt
<1>4. QED
  BY <1>2, <1>3 DEF Survived

\* Count counts the next file, and touches no other.
LEMMA CountSurvived == ASSUME Base, Exact, Survived, Count PROVE Survived'
<1>1. /\ lang' = lang /\ files' = files /\ commands' = commands /\ Shipped' = Shipped
  BY EntryKept DEF Base, Count
<1>2. /\ pc = "count" /\ scan \in {"stripped", "doubt"} /\ next' = next + 1 /\ pc' = "walk"
      /\ score'.hits = score.hits \cup Hits(next, Scanned)
      /\ score'.notes = IF scan = "doubt" THEN score.notes \cup {next} ELSE score.notes
  BY DEF Count
<1>3. /\ DOMAIN files = 1..Len(files) /\ next \in Nat /\ Len(files) \in Nat
      /\ next \notin score.notes /\ text = Bytes(files[next]) /\ CopyOf(out, text)
      /\ text \in Seq(STRING)
  <2>1. next \in 1..Len(files) + 1 /\ score.notes \subseteq 1..next - 1
    BY DEF Base, Walk, Located
  <2>2. QED
    BY <1>2, <2>1, EntryFacts DEF Base, Walk, Scanner
<1>4. \A x \in Hits(next, Scanned) : x.file = next
  BY DEF Hits
<1>5. ASSUME NEW k \in Shipped, NEW f \in File, f = files[k], k < next' PROVE Alive(k, f)'
  <2>1. k \in 1..Len(files)
    BY <1>3 DEF Shipped
  <2>2. CASE k # next
    <3>1. k < next
      BY <1>2, <1>3, <1>5, <2>1, <2>2
    <3>2. HitsIn(k)' = HitsIn(k)
      BY <1>2, <1>4, <2>2 DEF HitsIn
    <3>3. (k \in score.notes)' <=> k \in score.notes
      BY <1>2, <2>2
    <3>4. Alive(k, f)
      BY <1>2, <1>5, <3>1 DEF Survived
    <3>5. QED
      BY <1>1, <3>2, <3>3, <3>4, AliveKept
  <2>3. CASE k = next
    <3>1. /\ Runs(f)' = Runs(f) /\ Reader(f)' = Reader(f) /\ Bytes(f)' = Bytes(f)
          /\ \A t : /\ Lexable(t)' = Lexable(t) /\ Guarded(t)' = Guarded(t)
                   /\ Code(t)' = Code(t) /\ Comments(t)' = Comments(t)
      BY <1>1, RunsKept
    <3>2. SUFFICES ASSUME Bytes(f) = Reader(f), k \in score'.notes \/ Lexable(Reader(f)),
                          NEW r \in Runs(f)
                   PROVE  HitAt(k, r[1], r[2])' \/ Interrupted(k, Reader(f), r[1], r[2])'
      BY <3>1 DEF Alive
    <3>3. f = files[next] /\ text = Bytes(f) /\ text = Reader(f)
      BY <1>3, <1>5, <2>3, <3>2
    <3>4. k \in score'.notes <=> scan = "doubt"
      BY <1>2, <1>3, <2>3
    <3>5. \/ MatchesAt(Scanned, r[1], r[2])
          \/ (scan = "doubt" \/ Guarded(text)) /\ CommentInside(text, r[1], r[2])
      BY <1>2, <3>2, <3>3, <3>4, ScanIsEnough
    <3>6. CASE MatchesAt(Scanned, r[1], r[2])
      <4>1. r[1] \in DOMAIN Scanned /\ r[2] \in lang.hazards
        <5>1. r[1] \in DOMAIN text /\ r[2] \in lang.hazards
          BY <3>3 DEF Runs
        <5>2. DOMAIN out = DOMAIN text
          BY <1>3, CopyHasItsSize
        <5>3. QED
          BY <5>1, <5>2 DEF Scanned
      <4>2. PICK x \in Hits(next, Scanned) : x.file = next /\ x.at = r[1] /\ x.hazard = r[2]
        BY <3>6, <4>1, MatchIsHit
      <4>3. x \in HitsIn(k)'
        BY <1>2, <2>3, <4>2 DEF HitsIn
      <4>4. QED
        BY <4>2, <4>3 DEF HitAt
    <3>7. CASE (scan = "doubt" \/ Guarded(text)) /\ CommentInside(text, r[1], r[2])
      <4>1. \A t, i, h : (k \in score'.notes \/ Guarded(t)) /\ CommentInside(t, i, h) =>
                            Interrupted(k, t, i, h)'
        BY <3>1 DEF Interrupted, CommentInside, Comments
      <4>2. QED
        BY <3>1, <3>3, <3>4, <3>7, <4>1
    <3>8. QED
      BY <3>5, <3>6, <3>7
  <2>4. QED
    BY <2>2, <2>3
<1>6. QED
  BY <1>1, <1>2, <1>5 DEF Survived

\* The commands are hit under names of their own.
LEMMA FinishSurvived == ASSUME Base, Survived, Finish PROVE Survived'
<1>1. /\ lang' = lang /\ files' = files /\ commands' = commands /\ Shipped' = Shipped
  BY EntryKept DEF Base, Finish
<1>2. CASE pc' = "failed"
  BY <1>2 DEF Survived
<1>3. CASE pc' # "failed"
  <2> DEFINE new == UNION {Hits(Len(files) + c, commands[c]) : c \in DOMAIN commands}
  <2>1. /\ pc = "walk" /\ pc' = "scored" /\ next' = next
        /\ score'.hits = score.hits \cup new /\ score'.notes = score.notes
    <3>1. /\ pc = "walk" /\ pc' = "scored" /\ next' = next
          /\ score' = [score EXCEPT !.hits = @ \cup new]
      BY <1>3 DEF Finish
    <3> HIDE DEF new
    <3>2. QED
      BY <3>1
  <2>2. DOMAIN files = 1..Len(files) /\ Len(files) \in Nat /\ DOMAIN commands = 1..Len(commands)
        /\ Len(commands) \in Nat
    BY EntryFacts DEF Base
  <2>3. ASSUME NEW x \in new PROVE x.file \notin DOMAIN files
    <3>1. PICK c \in DOMAIN commands : x \in Hits(Len(files) + c, commands[c])
      OBVIOUS
    <3>2. x.file = Len(files) + c
      BY <3>1 DEF Hits
    <3>3. QED
      BY <2>2, <3>2
  <2>4. ASSUME NEW c \in DOMAIN commands, NEW i \in DOMAIN commands[c], NEW h \in lang.hazards,
               MatchesAt(commands[c], i, h)
        PROVE  \E x \in new : x.file = Len(files) + c /\ x.at = i /\ x.hazard = h
    <3>1. \E x \in Hits(Len(files) + c, commands[c]) :
              x.file = Len(files) + c /\ x.at = i /\ x.hazard = h
      BY <2>4, MatchIsHit
    <3>2. QED
      BY <3>1
  <2> HIDE DEF new
  <2>5. \A k \in DOMAIN files : HitsIn(k)' = HitsIn(k)
    BY <2>1, <2>3 DEF HitsIn
  <2>6. ASSUME NEW k \in Shipped, NEW f \in File, f = files[k], k < next PROVE Alive(k, f)'
    <3>1. k \in DOMAIN files /\ Alive(k, f)
      BY <2>1, <2>6 DEF Survived, Shipped
    <3>2. QED
      BY <1>1, <2>1, <2>5, <3>1, AliveKept
  <2>7. CommandsHit'
    <3>1. ASSUME NEW c \in DOMAIN commands, NEW i \in DOMAIN commands[c], NEW h \in lang.hazards,
                 MatchesAt(commands[c], i, h)
          PROVE  HitAt(Len(files) + c, i, h)'
      <4>1. PICK x \in new : x.file = Len(files) + c /\ x.at = i /\ x.hazard = h
        BY <2>4, <3>1
      <4>2. \A k : x.file = k => x \in HitsIn(k)'
        BY <2>1 DEF HitsIn
      <4>3. QED
        BY <1>1, <4>1, <4>2 DEF HitAt
    <3>2. QED
      BY <1>1, <3>1 DEF CommandsHit
  <2>8. QED
    BY <1>1, <2>1, <2>6, <2>7 DEF Survived
<1>4. QED
  BY <1>2, <1>3

LEMMA VisitSurvived == ASSUME Base, Survived, Visit PROVE Survived'
<1> DEFINE f == files[next]
<1>1. /\ lang' = lang /\ files' = files /\ commands' = commands /\ Shipped' = Shipped
  BY EntryKept DEF Base, Visit
<1>2. /\ DOMAIN files = 1..Len(files) /\ next \in 1..Len(files) /\ Len(files) \in Nat /\ pc = "walk"
  BY EntryFacts DEF Base, Walk, Visit
<1>3. CASE Admission(f) = "skipped"
  <2>1. next' = next + 1 /\ pc' = pc /\ score' = score
    BY <1>3 DEF Visit
  <2>2. next \notin Shipped
    BY <1>3 DEF Admission, Shipped
  <2>3. \A k \in Shipped : k < next' => k < next
    BY <1>2, <2>1, <2>2 DEF Shipped
  <2>4. QED
    BY <1>1, <1>2, <2>1, <2>3, SurvivedKept
<1>4. CASE Admission(f) = "refused"
  <2>1. pc' = "failed"
    BY <1>4 DEF Visit
  <2>2. QED
    BY <2>1 DEF Survived
<1>5. CASE Admission(f) = "visited"
  <2>1. /\ score' = [score EXCEPT !.vendored = @ + Vendored(f), !.files = @ + 1]
        /\ pc' = "count" /\ next' = next
    BY <1>5 DEF Visit
  <2>2. score'.hits = score.hits /\ score'.notes = score.notes
    BY <2>1
  <2>3. QED
    BY <1>1, <1>2, <2>1, <2>2, SurvivedKept
<1>6. QED
  BY <1>3, <1>4, <1>5 DEF Admission

LEMMA NextSurvived == ASSUME Base, Exact, Survived, [Next]_vars PROVE Survived'
<1>1. CASE Count
  BY <1>1, CountSurvived
<1>2. CASE Finish
  BY <1>2, FinishSurvived
<1>3. CASE Visit
  BY <1>3, VisitSurvived
<1>4. CASE Strip
  <2>1. /\ lang' = lang /\ files' = files /\ commands' = commands /\ Shipped' = Shipped
    BY <1>4, EntryKept DEF Base, Strip
  <2>2. pc = "count" /\ pc' = pc /\ next' = next /\ score' = score
    BY <1>4 DEF Strip
  <2>3. QED
    BY <2>1, <2>2, SurvivedKept
<1>5. CASE UNCHANGED vars
  <2>1. UNCHANGED <<entryVars, text, pos, line, out, scan, next, score, pc>>
    BY <1>5 DEF vars, stripVars
  <2>2. /\ lang' = lang /\ files' = files /\ commands' = commands /\ Shipped' = Shipped
    BY <2>1, EntryKept DEF Base
  <2>3. CASE pc = "failed"
    BY <2>1, <2>3 DEF Survived
  <2>4. CASE pc # "failed"
    BY <2>1, <2>2, <2>4, SurvivedKept
  <2>5. QED
    BY <2>3, <2>4
<1>6. QED
  BY <1>1, <1>2, <1>3, <1>4, <1>5 DEF Next, Returned

\* The hazards of the files counted survive, throughout.
THEOREM SurvivedInvariant == Spec => [](Base /\ Exact /\ Survived)
  BY InitBase, InitExact, InitSurvived, NextBase, NextExact, NextSurvived, PTL DEF Spec

LEMMA SurvivedGives == ASSUME Base, Survived PROVE FollowedHazardsSurvive
<1>1. SUFFICES ASSUME pc = "scored" PROVE FollowedHazardsSurvive
  BY DEF FollowedHazardsSurvive
<1>2. next = Len(files) + 1 /\ DOMAIN files = 1..Len(files) /\ Len(files) \in Nat
      /\ \A k \in 1..Len(files) : files[k] \in File
  BY <1>1, EntryFacts DEF Base, Walk
<1>3. ASSUME NEW k \in Shipped PROVE Alive(k, files[k])
  <2>1. k \in 1..Len(files) /\ k < next
    BY <1>2 DEF Shipped
  <2>2. files[k] \in File
    BY <1>2, <2>1
  <2>3. QED
    BY <1>1, <2>1, <2>2 DEF Survived
<1>4. CommandsHit
  BY <1>1 DEF Survived
<1>5. QED
  BY <1>1, <1>3, <1>4 DEF FollowedHazardsSurvive, Alive, CommandsHit, HitAt

\* In every entry of every language, no hazard that the language runs is hidden
\* in a file that the walk reads as the language does: it is a hit, unless a
\* comment that is not stripped stands inside its match.
THEOREM HazardsAlwaysSurvive == Spec => []FollowedHazardsSurvive
  BY SurvivedInvariant, SurvivedGives, PTL
=============================================================================
