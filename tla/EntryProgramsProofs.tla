------------------------- MODULE EntryProgramsProofs -------------------------
(***************************************************************************)
(* Proofs about the entries' programs, one part for each.  The range       *)
(* operators, for every version: the entry compares with an upper bound    *)
(* that is computed in uint64, the meaning has no bound at all.  Base58,   *)
(* for every base and every sequence of digits.  The URL parser, for every *)
(* text: the places it splits at are the ones the grammar means.  The next *)
(* fire time, for every expression and calendar: the search is long        *)
(* enough.                                                                 *)
(***************************************************************************)
EXTENDS EntryPrograms, Induction, TLAPS

-----------------------------------------------------------------------------
(* Versions and ranges *)

Versions == Components \X Components \X Components

\* The next component still fits a uint64 (parseVersion, main.go, stops at 2^63 - 1).
LEMMA NextFits == ASSUME NEW n \in Components PROVE Wrap(n + 1) = n + 1
<1>1. n + 1 \in 0..(2 * (MaxComponent + 1) - 1)
  BY MaxComponentAssumption DEF Components
<1>2. ASSUME NEW m \in Nat, NEW k \in 0..(m - 1) PROVE k % m = k
  BY <1>2
<1>3. 2 * (MaxComponent + 1) \in Nat
  BY MaxComponentAssumption
<1>4. QED
  BY <1>1, <1>2, <1>3 DEF Wrap

\* compareVersions tells every two versions apart.
LEMMA CompareIsTheOrder ==
    ASSUME NEW a \in Versions, NEW b \in Versions
    PROVE  /\ Compare(a, b) < 0 <=> Less(a, b)
           /\ Compare(a, b) > 0 <=> Less(b, a)
           /\ Compare(a, b) = 0 <=> a = b
<1>1. /\ a[1] \in Int /\ a[2] \in Int /\ a[3] \in Int
      /\ b[1] \in Int /\ b[2] \in Int /\ b[3] \in Int
  BY MaxComponentAssumption DEF Versions, Components
<1>2. a = b <=> a[1] = b[1] /\ a[2] = b[2] /\ a[3] = b[3]
  BY DEF Versions
<1>3. QED
  BY <1>1, <1>2 DEF Compare, Less

LEMMA Parts ==
    ASSUME NEW c \in Versions
    PROVE  /\ c[1] \in Components /\ c[2] \in Components /\ c[3] \in Components
           /\ c = <<c[1], c[2], c[3]>>
  BY DEF Versions

LEMMA AgreeSays ==
    ASSUME NEW c \in Versions, NEW v \in Versions
    PROVE  /\ Agree(c, v, 1) <=> c[1] = v[1]
           /\ Agree(c, v, 2) <=> c[1] = v[1] /\ c[2] = v[2]
           /\ Agree(c, v, 3) <=> c[1] = v[1] /\ c[2] = v[2] /\ c[3] = v[3]
  BY DEF Agree

\* "Below the next minor version" is the same as "of this minor version", for
\* a version that is not older.
LEMMA TildeUpper ==
    ASSUME NEW c \in Versions, NEW v \in Versions, ~Less(v, c)
    PROVE  Compare(v, <<c[1], Wrap(c[2] + 1), 0>>) < 0 <=> Agree(c, v, 2)
<1> DEFINE upper == <<c[1], Wrap(c[2] + 1), 0>>
<1>1. upper[1] = c[1] /\ upper[2] = c[2] + 1 /\ upper[3] = 0
  BY Parts, NextFits
<1>2. /\ c[1] \in Nat /\ c[2] \in Nat /\ c[3] \in Nat
      /\ v[1] \in Nat /\ v[2] \in Nat /\ v[3] \in Nat
  BY Parts, MaxComponentAssumption DEF Components
<1>3. Compare(v, upper) < 0 <=> Less(v, upper)
  BY DEF Compare
<1>4. Less(v, upper) <=> c[1] = v[1] /\ c[2] = v[2]
  BY <1>1, <1>2 DEF Less
<1>5. QED
  BY <1>3, <1>4, AgreeSays

\* The same for the caret, whose bound is on the first component that is not 0.
LEMMA CaretUpperSays ==
    ASSUME NEW c \in Versions, NEW v \in Versions, ~Less(v, c)
    PROVE  Compare(v, CaretUpper(c)) < 0 <=>
               Agree(c, v, IF c[1] # 0 THEN 1 ELSE IF c[2] # 0 THEN 2 ELSE 3)
<1>1. /\ c[1] \in Nat /\ c[2] \in Nat /\ c[3] \in Nat
      /\ v[1] \in Nat /\ v[2] \in Nat /\ v[3] \in Nat
  BY Parts, MaxComponentAssumption DEF Components
<1>2. Compare(v, CaretUpper(c)) < 0 <=> Less(v, CaretUpper(c))
  BY DEF Compare
<1>3. CASE c[1] # 0
  <2>1. CaretUpper(c) = <<c[1] + 1, 0, 0>>
    BY <1>3, Parts, NextFits DEF CaretUpper
  <2>2. Less(v, CaretUpper(c)) <=> c[1] = v[1]
    BY <1>1, <2>1 DEF Less
  <2>3. QED
    BY <1>2, <1>3, <2>2, AgreeSays
<1>4. CASE c[1] = 0 /\ c[2] # 0
  <2>1. CaretUpper(c) = <<0, c[2] + 1, 0>>
    BY <1>4, Parts, NextFits DEF CaretUpper
  <2>2. Less(v, CaretUpper(c)) <=> c[1] = v[1] /\ c[2] = v[2]
    BY <1>1, <1>4, <2>1 DEF Less
  <2>3. QED
    BY <1>2, <1>4, <2>2, AgreeSays
<1>5. CASE c[1] = 0 /\ c[2] = 0
  <2>1. CaretUpper(c) = <<0, 0, c[3] + 1>>
    BY <1>5, Parts, NextFits DEF CaretUpper
  <2>2. Less(v, CaretUpper(c)) <=> c[1] = v[1] /\ c[2] = v[2] /\ c[3] = v[3]
    BY <1>1, <1>5, <2>1 DEF Less
  <2>3. QED
    BY <1>2, <1>5, <2>2, AgreeSays
<1>6. QED
  BY <1>3, <1>4, <1>5

\* The entry decides every comparator as its meaning says, for every two
\* versions whose components parseVersion accepts: no bound wraps around.
THEOREM ComparatorsMeanWhatTheySay ==
    ASSUME NEW op, NEW c \in Versions, NEW v \in Versions
    PROVE  Matches(op, c, v) <=> Means(op, c, v)
<1>1. /\ Compare(v, c) < 0 <=> Less(v, c)
      /\ Compare(v, c) > 0 <=> Less(c, v)
      /\ Compare(v, c) = 0 <=> v = c
      /\ Compare(v, c) <= 0 <=> Less(v, c) \/ v = c
      /\ Compare(v, c) >= 0 <=> Less(c, v) \/ v = c
  BY CompareIsTheOrder DEF Compare
<1>2. Less(c, v) \/ v = c <=> ~Less(v, c)
  BY <1>1 DEF Compare
<1>3. Less(c, v) \/ v = c =>
          /\ Compare(v, <<c[1], Wrap(c[2] + 1), 0>>) < 0 <=> Agree(c, v, 2)
          /\ Compare(v, CaretUpper(c)) < 0 <=>
                 Agree(c, v, IF c[1] # 0 THEN 1 ELSE IF c[2] # 0 THEN 2 ELSE 3)
  BY <1>2, TildeUpper, CaretUpperSays
<1>4. CASE op = <<"<">>
  BY <1>1, <1>4 DEF Matches, Means
<1>5. CASE op = <<"<", "=">>
  BY <1>1, <1>5 DEF Matches, Means
<1>6. CASE op = <<">">>
  BY <1>1, <1>6 DEF Matches, Means
<1>7. CASE op = <<">", "=">>
  BY <1>1, <1>7 DEF Matches, Means
<1>8. CASE op = <<"~">>
  BY <1>1, <1>3, <1>8 DEF Matches, Means
<1>9. CASE op = <<"^">>
  BY <1>1, <1>3, <1>9 DEF Matches, Means
<1>10. CASE op \notin {<<"<">>, <<"<", "=">>, <<">">>, <<">", "=">>, <<"~">>, <<"^">>}
  BY <1>1, <1>10 DEF Matches, Means
<1>11. QED
  BY <1>4, <1>5, <1>6, <1>7, <1>8, <1>9, <1>10

\* A version that parseVersion accepts.
LEMMA IsVersionSays ==
    ASSUME NEW v \in Seq(Int)
    PROVE  IsVersion(v) <=> v \in Versions
<1>1. ASSUME IsVersion(v) PROVE v \in Versions
  <2>1. v = <<v[1], v[2], v[3]>> /\ v[1] \in Components /\ v[2] \in Components /\ v[3] \in Components
    BY <1>1 DEF IsVersion
  <2>2. QED
    BY <2>1 DEF Versions
<1>2. ASSUME v \in Versions PROVE IsVersion(v)
  BY <1>2 DEF Versions, IsVersion
<1>3. QED
  BY <1>1, <1>2

LEMMA OpsAre ==
    /\ \A k \in 1..2 : Len(Ops[k]) = 2
    /\ \A k \in 3..7 : Len(Ops[k]) = 1
    /\ \A j, k \in 1..7 : j < k /\ (j # 1 \/ k # 3) /\ (j # 2 \/ k # 4) => Ops[j][1] # Ops[k][1]
<1>1. /\ Ops[1] = <<"<", "=">> /\ Ops[2] = <<">", "=">> /\ Ops[3] = <<"<">> /\ Ops[4] = <<">">>
      /\ Ops[5] = <<"=">> /\ Ops[6] = <<"^">> /\ Ops[7] = <<"~">>
  BY DEF Ops
<1>2. /\ Len(Ops[1]) = 2 /\ Len(Ops[2]) = 2 /\ Len(Ops[3]) = 1 /\ Len(Ops[4]) = 1
      /\ Len(Ops[5]) = 1 /\ Len(Ops[6]) = 1 /\ Len(Ops[7]) = 1
  BY <1>1
<1>3. /\ Ops[1][1] = "<" /\ Ops[2][1] = ">" /\ Ops[3][1] = "<" /\ Ops[4][1] = ">"
      /\ Ops[5][1] = "=" /\ Ops[6][1] = "^" /\ Ops[7][1] = "~"
  BY <1>1
<1>4. \A k \in 1..7 : k = 1 \/ k = 2 \/ k = 3 \/ k = 4 \/ k = 5 \/ k = 6 \/ k = 7
  OBVIOUS
<1>5. QED
  BY <1>2, <1>3, <1>4

\* The operator that is cut off a field leaves no mark exactly if the marks are
\* an operator: the longer one is always tried before its prefix.
LEMMA OperatorsAreRead ==
    ASSUME NEW f, f.marks \in Seq(STRING)
    PROVE  OpOf(f) = f.marks <=> f.marks \in Operators
<1> DEFINE Prefix(p) == Len(p) <= Len(f.marks) /\ SubSeq(f.marks, 1, Len(p)) = p
           hit == {k \in DOMAIN Ops : Prefix(Ops[k])}
           first == CHOOSE k \in hit : \A j \in hit : k <= j
<1>1. OpOf(f) = IF hit = {} THEN <<>> ELSE Ops[first]
  BY DEF OpOf
<1>2. DOMAIN Ops = 1..7 /\ \A k \in 1..7 : Ops[k] \in Operators
  BY DEF Ops, Operators
<1>3. hit \in SUBSET (1..7)
  BY <1>2
<1>4. hit # {} => first \in hit
  <2> HIDE DEF hit
  <2>1. QED
    BY <1>3, ChosenLeast, SMTT(30)
<1>5. OpOf(f) \in Operators
  BY <1>1, <1>2, <1>3, <1>4 DEF Operators
<1>6. ASSUME NEW k \in hit, \A j \in 1..k - 1 : j \notin hit PROVE first = k
  <2> HIDE DEF hit
  <2>1. first \in hit /\ first <= k
    BY <1>3, ChosenLeast
  <2>2. first \in 1..7 /\ k \in 1..7
    BY <1>3, <1>6, <2>1
  <2>3. ~(first \in 1..k - 1)
    BY <1>6, <2>1
  <2> HIDE DEF first
  <2>4. QED
    BY <2>1, <2>2, <2>3
<1>7. ASSUME NEW k \in 1..7, f.marks = Ops[k] PROVE OpOf(f) = f.marks
  <2>1. k \in hit
    BY <1>2, <1>7
  <2>2. ASSUME NEW j \in 1..k - 1, Prefix(Ops[j]) PROVE FALSE
    <3>1. Len(Ops[j]) <= Len(Ops[k]) /\ SubSeq(Ops[k], 1, Len(Ops[j])) = Ops[j]
      BY <1>7, <2>2
    <3>2. j \in 1..7 /\ k \in 1..7 /\ j < k
      OBVIOUS
    <3>3. Len(Ops[j]) = Len(Ops[k]) /\ (j \in 1..2 <=> k \in 1..2)
      <4>1. /\ j \in 1..2 \/ j \in 3..7
            /\ k \in 1..2 \/ k \in 3..7
            /\ ~(j \in 3..7 /\ k \in 1..2)
            /\ ~(k \in 3..7 /\ k \in 1..2)
        BY <3>2
      <4>2. /\ j \in 1..2 => Len(Ops[j]) = 2
            /\ j \in 3..7 => Len(Ops[j]) = 1
            /\ k \in 1..2 => Len(Ops[k]) = 2
            /\ k \in 3..7 => Len(Ops[k]) = 1
        BY OpsAre
      <4>3. CASE j \in 1..2
        <5>1. ASSUME k \in 3..7 PROVE FALSE
          <6>1. Len(Ops[j]) = 2 /\ Len(Ops[k]) = 1 /\ Len(Ops[j]) <= Len(Ops[k])
            BY <3>1, <4>2, <4>3, <5>1
          <6>2. 2 <= 1
            BY <6>1
          <6>3. QED
            BY <6>2
        <5>2. QED
          BY <4>1, <4>2, <4>3, <5>1
      <4>4. CASE j \in 3..7
        BY <4>1, <4>2, <4>4
      <4>5. QED
        BY <4>1, <4>3, <4>4
    <3>4. Ops[j][1] # Ops[k][1]
      <4>1. (j # 1 \/ k # 3) /\ (j # 2 \/ k # 4)
        BY <3>3
      <4>2. QED
        BY <3>2, <4>1, OpsAre
    <3>5. Ops[k] \in Seq(STRING)
      BY <1>7
    <3>6. SubSeq(Ops[k], 1, Len(Ops[k])) = Ops[k]
      BY <3>5
    <3>7. QED
      BY <3>1, <3>3, <3>4, <3>6
  <2>3. first = k
    BY <1>6, <2>1, <2>2
  <2> HIDE DEF hit
  <2>4. QED
    BY <1>1, <1>7, <2>1, <2>3
<1>8. ASSUME f.marks = <<>> PROVE OpOf(f) = f.marks
  <2>1. hit = {}
    BY <1>2, <1>8 DEF Ops
  <2>2. QED
    BY <1>1, <1>8, <2>1
<1>9. QED
  BY <1>2, <1>5, <1>7, <1>8 DEF Operators

-----------------------------------------------------------------------------
(* What a run has answered *)

\* The arguments of a run stay what they were, and its answer is that of its
\* program.
Ran ==
    /\ program = "semver" => args \in SemverRuns
    /\ program = "url" => args \in Urls
    /\ program = "base58" => args \in Codes
    /\ Answered("semver") =>
           LET answer == InRange(args[1], args[2])
           IN  out = IF answer = "error" THEN Error ELSE Answer(answer)
    /\ Answered("url") =>
           LET parsed == ParseURL(args) IN out = IF parsed.ok THEN Answer(parsed.url) ELSE Error
    /\ Answered("base58") =>
           LET decoded == Decode(args)
           IN  out = IF decoded.ok THEN Answer(decoded.payload) ELSE Error

LEMMA RanStep == Ran /\ [Next]_vars => Ran'
<1> SUFFICES ASSUME Ran, [Next]_vars PROVE Ran'
  OBVIOUS
<1>1. CASE CronParse \/ CronSearch
  BY <1>1 DEF CronParse, CronSearch, Finish, Ran, Answered
<1>2. CASE SemverAnswer
  BY <1>2 DEF SemverAnswer, Finish, Ran, Answered
<1>3. CASE UrlAnswer
  BY <1>3 DEF UrlAnswer, Finish, Ran, Answered
<1>4. CASE Base58Answer
  BY <1>4 DEF Base58Answer, Finish, Ran, Answered
<1>5. CASE UNCHANGED vars
  BY <1>5 DEF vars, Ran, Answered
<1>6. QED
  BY <1>1, <1>2, <1>3, <1>4, <1>5 DEF Next

LEMMA RanInvariant == Spec => []Ran
<1>1. Init => Ran
  BY DEF Init, Ran, Answered
<1>2. QED
  BY <1>1, RanStep, PTL DEF Spec

\* semver-range-check (main.go:120-167) answers a range with what its operators
\* mean for the version, and with an error exactly what is no range or version,
\* whatever the largest component is: no bound wraps around.
THEOREM SemverAlwaysMeansIntervals == Spec => []SemverMeansIntervals
<1>1. ASSUME Ran, Answered("semver") PROVE SemverMeansIntervals
  <2> DEFINE range == args[1]
             v == args[2]
  <2>1. range \in Seq(Seq([marks : Seq(STRING), version : Seq(Int)])) /\ v \in Seq(Int)
    BY <1>1, RunsAssumption DEF Ran, Answered
  <2>2. out = IF InRange(range, v) = "error" THEN Error ELSE Answer(InRange(range, v))
    BY <1>1 DEF Ran
  <2> HIDE DEF range, v
  <2>3. ASSUME NEW k \in DOMAIN range, NEW j \in DOMAIN range[k]
        PROVE  /\ IsField(range[k][j]) <=>
                      range[k][j].marks \in Operators /\ IsVersion(range[k][j].version)
               /\ IsField(range[k][j]) => OpOf(range[k][j]) = range[k][j].marks
               /\ range[k][j].version \in Seq(Int)
    <3> DEFINE Fields == [marks : Seq(STRING), version : Seq(Int)]
    <3>1. range[k][j] \in Fields
      <4> HIDE DEF Fields
      <4>1. range \in Seq(Seq(Fields))
        BY <2>1 DEF Fields
      <4>2. range[k] \in Seq(Fields)
        BY <4>1
      <4>3. QED
        BY <4>2
    <3>2. QED
      BY <3>1, OperatorsAreRead DEF IsField
  <2>4. ASSUME NEW k \in DOMAIN range, NEW j \in DOMAIN range[k], IsField(range[k][j]), IsVersion(v)
        PROVE  Matches(OpOf(range[k][j]), range[k][j].version, v) <=>
               Means(range[k][j].marks, range[k][j].version, v)
    <3>1. range[k][j].version \in Versions /\ v \in Versions /\ OpOf(range[k][j]) = range[k][j].marks
      BY <2>1, <2>3, <2>4, IsVersionSays
    <3>2. QED
      BY <3>1, ComparatorsMeanWhatTheySay
  <2> DEFINE wellFormed ==
                /\ IsVersion(v)
                /\ \A k \in DOMAIN range :
                      /\ range[k] # <<>>
                      /\ \A j \in DOMAIN range[k] :
                            range[k][j].marks \in Operators /\ IsVersion(range[k][j].version)
             some == \E k \in DOMAIN range : \A j \in DOMAIN range[k] :
                        Matches(OpOf(range[k][j]), range[k][j].version, v)
             meant == \E k \in DOMAIN range : \A j \in DOMAIN range[k] :
                        Means(range[k][j].marks, range[k][j].version, v)
  <2>5. wellFormed <=> IsRange(range) /\ IsVersion(v)
    BY <2>3 DEF IsRange
  <2>6. wellFormed => (some <=> meant)
    BY <2>4, <2>5 DEF IsRange
  <2>7. InRange(range, v) = IF ~wellFormed THEN "error" ELSE IF some THEN "yes" ELSE "no"
    BY <2>5 DEF InRange
  <2> HIDE DEF wellFormed, some, meant
  <2>8. out.ok <=> wellFormed
    BY <2>2, <2>7 DEF Error, Answer
  <2>9. wellFormed => (out.value = "yes" <=> meant)
    BY <2>2, <2>6, <2>7 DEF Error, Answer
  <2>10. QED
    BY <2>8, <2>9 DEF SemverMeansIntervals, wellFormed, meant, range, v
<1>2. Ran => SemverMeansIntervals
  BY <1>1 DEF SemverMeansIntervals
<1>3. QED
  BY <1>2, RanInvariant, PTL

-----------------------------------------------------------------------------
(* Numbers and their digits, in any base *)

LEMMA Division ==
    ASSUME NEW b \in Nat, b >= 2, NEW m \in Nat
    PROVE  /\ m \div b \in Nat /\ m % b \in 0..b - 1 /\ m = b * (m \div b) + (m % b)
           /\ m # 0 => m \div b \in 0..m - 1
<1>1. m \div b \in Nat /\ m % b \in 0..b - 1 /\ m = b * (m \div b) + (m % b)
  OBVIOUS
<1>2. ASSUME NEW q \in Nat, NEW r \in Nat, m = b * q + r, m # 0 PROVE q \in 0..m - 1
  BY <1>2
<1>3. QED
  BY <1>1, <1>2

LEMMA DivisionIsUnique ==
    ASSUME NEW b \in Nat, b >= 2, NEW v \in Nat, NEW d \in 0..b - 1
    PROVE  (b * v + d) \div b = v /\ (b * v + d) % b = d
  OBVIOUS

LEMMA StepType == ASSUME NEW b \in Nat, NEW v \in Nat, NEW d \in Nat PROVE b * v + d \in Nat
OBVIOUS

\* The values of the beginnings of a sequence of digits.
IsValues(b, s, V) ==
    V \in [0..Len(s) -> Nat] /\ V[0] = 0 /\ \A i \in 1..Len(s) : V[i] = b * V[i - 1] + s[i]

LEMMA ValuesExist ==
    ASSUME NEW b \in Nat, NEW s \in Seq(Nat)
    PROVE  \E V : IsValues(b, s, V) /\ ValueIn(b, s) = V[Len(s)]
<1> DEFINE n == Len(s)
           Body(V, i) == IF i = 0 THEN 0 ELSE b * V[i - 1] + s[i]
           G == [i \in 0..n |-> [h \in [0..i - 1 -> Nat] |-> Body(h, i)]]
           W == CHOOSE V : V = [i \in 0..n |-> Body(V, i)]
<1>1. n \in Nat
  OBVIOUS
<1>2. \A i \in 0..n : \A h \in [0..i - 1 -> Nat] : G[i][h] = Body(h, i) /\ Body(h, i) \in Nat
  <2>1. ASSUME NEW i \in 0..n, NEW h \in [0..i - 1 -> Nat], i # 0 PROVE b * h[i - 1] + s[i] \in Nat
    <3>1. h[i - 1] \in Nat /\ s[i] \in Nat
      BY <2>1
    <3>2. QED
      BY <3>1
  <2>2. QED
    BY <2>1
<1>3. PICK f \in [0..n -> Nat] : \A i \in 0..n : f[i] = G[i][[j \in 0..i - 1 |-> f[j]]]
  <2>1. Steps(n, Nat, G)
    <3> HIDE DEF G
    <3>1. QED
      BY <1>2 DEF Steps
  <2>2. \E f : Follows(f, n, Nat, G)
    <3> HIDE DEF G, n
    <3>1. QED
      BY <1>1, <2>1, Recursion
  <2>3. QED
    BY <2>2 DEF Follows
<1>4. ASSUME NEW i \in 0..n PROVE f[i] = Body(f, i)
  <2> DEFINE h == [j \in 0..i - 1 |-> f[j]]
  <2>1. \A j \in 0..i - 1 : j \in 0..n
    OBVIOUS
  <2>2. h \in [0..i - 1 -> Nat]
    BY <2>1
  <2>3. f[i] = Body(h, i)
    <3> HIDE DEF G, Body
    <3>1. f[i] = G[i][h]
      BY <1>3
    <3> HIDE DEF h
    <3>2. QED
      BY <1>2, <2>2, <3>1
  <2>4. i # 0 => h[i - 1] = f[i - 1]
    OBVIOUS
  <2>5. QED
    BY <2>3, <2>4
<1>5. f = [i \in 0..n |-> Body(f, i)]
  <2> HIDE DEF Body
  <2>1. QED
    BY <1>4
<1>6. W = [i \in 0..n |-> Body(W, i)]
  <2> HIDE DEF Body
  <2>1. QED
    BY <1>5
<1>7. ValueIn(b, s) = W[n]
  BY DEF ValueIn
<1> HIDE DEF W
<1>8. \A i \in 0..n : W[i] = Body(W, i)
  <2> HIDE DEF Body
  <2>1. QED
    BY <1>6
<1>9. W[0] = 0 /\ \A i \in 1..n : W[i] = b * W[i - 1] + s[i]
  BY <1>1, <1>8
<1>10. \A i \in 0..n : W[i] \in Nat
  <2> DEFINE S == {i \in 0..n : W[i] \in Nat}
  <2>1. 0 \in S
    BY <1>1, <1>9
  <2>2. ASSUME NEW i \in 0..n - 1, i \in S PROVE i + 1 \in S
    <3>1. i + 1 \in 1..n /\ i + 1 \in 0..n /\ i + 1 - 1 = i
      OBVIOUS
    <3>2. W[i + 1] = b * W[i] + s[i + 1] /\ s[i + 1] \in Nat /\ W[i] \in Nat
      BY <1>9, <2>2, <3>1
    <3>3. b * W[i] + s[i + 1] \in Nat
      BY <3>2, StepType
    <3>4. QED
      BY <3>1, <3>2, <3>3
  <2> HIDE DEF S
  <2>3. \A i \in 0..n : i \in S
    BY <1>1, <2>1, <2>2, Climb
  <2>4. QED
    BY <2>3 DEF S
<1>11. W \in [0..n -> Nat]
  <2> HIDE DEF Body
  <2>1. QED
    BY <1>6, <1>10
<1>12. IsValues(b, s, W)
  BY <1>9, <1>11 DEF IsValues
<1>13. QED
  BY <1>7, <1>12

\* The value of one more digit.
LEMMA ValueSteps ==
    ASSUME NEW b \in Nat
    PROVE  /\ ValueIn(b, <<>>) = 0
           /\ \A s \in Seq(Nat) : ValueIn(b, s) \in Nat
           /\ \A s \in Seq(Nat), d \in Nat : ValueIn(b, Append(s, d)) = b * ValueIn(b, s) + d
<1>1. ValueIn(b, <<>>) = 0
  <2>1. <<>> \in Seq(Nat) /\ Len(<<>>) = 0
    OBVIOUS
  <2>2. PICK V : IsValues(b, <<>>, V) /\ ValueIn(b, <<>>) = V[Len(<<>>)]
    BY <2>1, ValuesExist
  <2>3. QED
    BY <2>1, <2>2 DEF IsValues
<1>2. ASSUME NEW s \in Seq(Nat) PROVE ValueIn(b, s) \in Nat
  <2>1. PICK V : IsValues(b, s, V) /\ ValueIn(b, s) = V[Len(s)]
    BY ValuesExist
  <2>2. QED
    BY <2>1 DEF IsValues
<1>3. ASSUME NEW s \in Seq(Nat), NEW d \in Nat PROVE ValueIn(b, Append(s, d)) = b * ValueIn(b, s) + d
  <2> DEFINE n == Len(s)
             t == Append(s, d)
  <2>1. t \in Seq(Nat) /\ Len(t) = n + 1 /\ n \in Nat /\ t[n + 1] = d /\ \A i \in 1..n : t[i] = s[i]
    OBVIOUS
  <2>2. PICK V : IsValues(b, s, V) /\ ValueIn(b, s) = V[n]
    BY ValuesExist
  <2> HIDE DEF t
  <2>3. PICK W : IsValues(b, t, W) /\ ValueIn(b, t) = W[n + 1]
    BY <2>1, ValuesExist
  <2> DEFINE S == {i \in 0..n : W[i] = V[i]}
  <2>4. 0 \in S
    BY <2>1, <2>2, <2>3 DEF IsValues
  <2>5. ASSUME NEW i \in 0..n - 1, i \in S PROVE i + 1 \in S
    <3>1. i + 1 \in 0..n /\ i + 1 \in 1..n /\ i + 1 \in 1..n + 1 /\ i + 1 - 1 = i
      BY <2>1
    <3>2. V[i + 1] = b * V[i + 1 - 1] + s[i + 1]
      BY <2>2, <3>1 DEF IsValues
    <3>3. W[i + 1] = b * W[i + 1 - 1] + t[i + 1]
      BY <2>1, <2>3, <3>1 DEF IsValues
    <3>4. t[i + 1] = s[i + 1] /\ W[i] = V[i]
      BY <2>1, <2>5, <3>1
    <3>5. W[i + 1] = V[i + 1]
      BY <3>1, <3>2, <3>3, <3>4
    <3>6. QED
      BY <3>1, <3>5
  <2>6. W[n] = V[n]
    <3> HIDE DEF S
    <3>1. \A i \in 0..n : i \in S
      BY <2>1, <2>4, <2>5, Climb
    <3>2. n \in 0..n
      BY <2>1
    <3>3. QED
      BY <3>1, <3>2 DEF S
  <2>7. W[n + 1] = b * W[n] + d
    <3>1. n + 1 \in 1..n + 1 /\ n + 1 - 1 = n
      BY <2>1
    <3>2. ASSUME NEW m \in 1..n + 1, m = n + 1 PROVE W[m] = b * W[n] + t[m]
      <4>1. W[m] = b * W[m - 1] + t[m]
        BY <2>1, <2>3 DEF IsValues
      <4>2. m - 1 = n
        BY <2>1, <3>2
      <4>3. QED
        BY <4>1, <4>2
    <3>3. QED
      BY <2>1, <3>1, <3>2
  <2>8. QED
    BY <2>2, <2>3, <2>6, <2>7 DEF t
<1>4. QED
  BY <1>1, <1>2, <1>3

\* The digits of the numbers up to n.
IsDigits(b, n, D) ==
    /\ D \in [0..n -> Seq(0..b - 1)] /\ D[0] = <<>>
    /\ \A m \in 1..n : D[m] = Append(D[m \div b], m % b)

LEMMA DigitsExist ==
    ASSUME NEW b \in Nat, b >= 2, NEW n \in Nat
    PROVE  \E D : IsDigits(b, n, D) /\ DigitsIn(b, n) = D[n]
<1> DEFINE Strings == Seq(0..b - 1)
           Body(D, m) == IF m = 0 THEN <<>> ELSE Append(D[m \div b], m % b)
           G == [m \in 0..n |-> [h \in [0..m - 1 -> Strings] |-> Body(h, m)]]
           W == CHOOSE D : D = [m \in 0..n |-> Body(D, m)]
<1>1. ASSUME NEW m \in 0..n, m # 0 PROVE m \div b \in 0..m - 1 /\ m % b \in 0..b - 1
  <2>1. m \in Nat
    OBVIOUS
  <2>2. QED
    BY <1>1, <2>1, Division
<1>2. \A m \in 0..n : \A h \in [0..m - 1 -> Strings] : G[m][h] = Body(h, m) /\ Body(h, m) \in Strings
  <2>1. ASSUME NEW m \in 0..n, NEW h \in [0..m - 1 -> Strings] PROVE Body(h, m) \in Strings
    <3>1. <<>> \in Strings
      OBVIOUS
    <3>2. CASE m # 0
      <4>1. h[m \div b] \in Strings /\ m % b \in 0..b - 1
        BY <1>1, <3>2
      <4>2. Append(h[m \div b], m % b) \in Strings
        BY <4>1
      <4>3. QED
        BY <3>2, <4>2
    <3>3. QED
      BY <3>1, <3>2
  <2> HIDE DEF Body
  <2>2. QED
    BY <2>1
<1>3. PICK f \in [0..n -> Strings] : \A m \in 0..n : f[m] = G[m][[j \in 0..m - 1 |-> f[j]]]
  <2> HIDE DEF Strings
  <2>1. Steps(n, Strings, G)
    <3> HIDE DEF G
    <3>1. QED
      BY <1>2 DEF Steps
  <2>2. \E f : Follows(f, n, Strings, G)
    <3> HIDE DEF G
    <3>1. QED
      BY <2>1, Recursion
  <2>3. QED
    BY <2>2 DEF Follows
<1>4. ASSUME NEW m \in 0..n PROVE f[m] = Body(f, m)
  <2> DEFINE h == [j \in 0..m - 1 |-> f[j]]
  <2>1. \A j \in 0..m - 1 : j \in 0..n
    OBVIOUS
  <2>2. h \in [0..m - 1 -> Strings]
    <3> HIDE DEF Strings
    <3>1. QED
      BY <2>1
  <2>3. f[m] = Body(h, m)
    <3> HIDE DEF G, Body
    <3>1. f[m] = G[m][h]
      BY <1>3
    <3> HIDE DEF h
    <3>2. QED
      BY <1>2, <2>2, <3>1
  <2>4. m # 0 => h[m \div b] = f[m \div b]
    BY <1>1
  <2> HIDE DEF h
  <2>5. QED
    BY <2>3, <2>4
<1>5. f = [m \in 0..n |-> Body(f, m)]
  <2> HIDE DEF Body
  <2>1. QED
    BY <1>4
<1>6. W = [m \in 0..n |-> Body(W, m)]
  <2> HIDE DEF Body
  <2>1. QED
    BY <1>5
<1>7. DigitsIn(b, n) = W[n]
  BY DEF DigitsIn
<1> HIDE DEF W
<1>8. \A m \in 0..n : W[m] = Body(W, m)
  <2> HIDE DEF Body
  <2>1. QED
    BY <1>6
<1>9. W[0] = <<>> /\ \A m \in 1..n : W[m] = Append(W[m \div b], m % b)
  <2>1. 0 \in 0..n /\ \A m \in 1..n : m \in 0..n /\ m # 0
    OBVIOUS
  <2>2. QED
    BY <1>8, <2>1
<1>10. \A m \in 0..n : W[m] \in Strings
  <2> DEFINE S == {m \in Nat : m \in 0..n => W[m] \in Strings}
  <2>1. ASSUME NEW m \in Nat, \A j \in 0..m - 1 : j \in S PROVE m \in S
    <3>1. CASE m = 0
      <4>1. W[0] \in Strings
        BY <1>9
      <4>2. QED
        BY <3>1, <4>1
    <3>2. CASE m \in 1..n
      <4>1. m \div b \in 0..m - 1 /\ m \div b \in 0..n /\ m % b \in 0..b - 1
        <5>1. m \in 0..n /\ m # 0
          BY <3>2
        <5>2. m \div b \in 0..m - 1 /\ m % b \in 0..b - 1
          BY <1>1, <5>1
        <5>3. \A j \in 0..m - 1 : j \in 0..n
          BY <5>1
        <5>4. QED
          BY <5>2, <5>3
      <4>2. W[m \div b] \in Strings
        BY <2>1, <4>1
      <4>3. Append(W[m \div b], m % b) \in Strings
        BY <4>1, <4>2
      <4>4. W[m] \in Strings
        <5> HIDE DEF Strings
        <5>1. QED
          BY <1>9, <3>2, <4>3
      <4>5. QED
        BY <4>4
    <3>3. QED
      BY <3>1, <3>2
  <2>2. Nat \subseteq S
    <3> HIDE DEF S
    <3>1. QED
      BY <2>1, Complete
  <2> HIDE DEF Strings
  <2>3. QED
    BY <2>2
<1>11. W \in [0..n -> Strings]
  <2> HIDE DEF Body, Strings
  <2>1. QED
    BY <1>6, <1>10
<1>12. IsDigits(b, n, W)
  BY <1>9, <1>11 DEF IsDigits
<1>13. QED
  BY <1>7, <1>12

\* The digits of a number are those of the number without its last, and that.
LEMMA DigitSteps ==
    ASSUME NEW b \in Nat, b >= 2
    PROVE  /\ DigitsIn(b, 0) = <<>>
           /\ \A n \in Nat : DigitsIn(b, n) \in Seq(0..b - 1)
           /\ \A n \in Nat : n # 0 => DigitsIn(b, n) = Append(DigitsIn(b, n \div b), n % b)
<1>1. DigitsIn(b, 0) = <<>>
  <2>1. PICK D : IsDigits(b, 0, D) /\ DigitsIn(b, 0) = D[0]
    BY DigitsExist
  <2>2. QED
    BY <2>1 DEF IsDigits
<1>2. ASSUME NEW n \in Nat PROVE DigitsIn(b, n) \in Seq(0..b - 1)
  <2>1. PICK D : IsDigits(b, n, D) /\ DigitsIn(b, n) = D[n]
    BY DigitsExist
  <2>2. n \in 0..n
    OBVIOUS
  <2>3. QED
    BY <2>1, <2>2 DEF IsDigits
<1>3. ASSUME NEW n \in Nat, n # 0 PROVE DigitsIn(b, n) = Append(DigitsIn(b, n \div b), n % b)
  <2> DEFINE k == n \div b
  <2>1. k \in Nat /\ k < n /\ n \in 1..n
    <3>1. k \in 0..n - 1
      BY <1>3, Division
    <3>2. QED
      BY <3>1
  <2>2. PICK D : IsDigits(b, n, D) /\ DigitsIn(b, n) = D[n]
    BY DigitsExist
  <2> HIDE DEF k
  <2>3. PICK E : IsDigits(b, k, E) /\ DigitsIn(b, k) = E[k]
    BY <2>1, DigitsExist
  <2> DEFINE S == {m \in Nat : m \in 0..k => D[m] = E[m]}
  <2>4. ASSUME NEW m \in Nat, \A j \in 0..m - 1 : j \in S PROVE m \in S
    <3>1. CASE m = 0
      BY <2>2, <2>3, <3>1 DEF IsDigits
    <3>2. CASE m \in 1..k
      <4>1. m \div b \in 0..m - 1 /\ m \div b \in 0..k
        <5>1. m # 0 /\ \A j \in 0..m - 1 : j \in 0..k
          BY <2>1, <3>2
        <5>2. m \div b \in 0..m - 1
          BY <5>1, Division
        <5>3. QED
          BY <5>1, <5>2
      <4>2. D[m \div b] = E[m \div b]
        BY <2>4, <4>1
      <4>3. m \in 1..n
        BY <2>1, <3>2
      <4>4. D[m] = Append(D[m \div b], m % b) /\ E[m] = Append(E[m \div b], m % b)
        BY <2>2, <2>3, <3>2, <4>3 DEF IsDigits
      <4>5. QED
        BY <4>2, <4>4
    <3>3. QED
      BY <2>1, <3>1, <3>2
  <2>5. D[k] = E[k]
    <3>1. Nat \subseteq S
      <4> HIDE DEF S
      <4>1. QED
        BY <2>4, Complete
    <3>2. k \in S /\ k \in 0..k
      BY <2>1, <3>1
    <3>3. QED
      BY <3>2
  <2>6. D[n] = Append(D[k], n % b)
    BY <2>1, <2>2 DEF IsDigits, k
  <2>7. QED
    BY <2>2, <2>3, <2>5, <2>6 DEF k
<1>4. QED
  BY <1>1, <1>2, <1>3

\* A sequence of digits that is the whole of its number.
Headed(s) == s = <<>> \/ s[1] # 0

LEMMA DigitsOfValue ==
    ASSUME NEW b \in Nat, b >= 2
    PROVE  \A s \in Seq(0..b - 1) : Headed(s) =>
               DigitsIn(b, ValueIn(b, s)) = s /\ (s # <<>> => ValueIn(b, s) # 0)
<1> DEFINE D == 0..b - 1
           S == {s \in Seq(D) : Headed(s) =>
                    DigitsIn(b, ValueIn(b, s)) = s /\ (s # <<>> => ValueIn(b, s) # 0)}
<1>1. <<>> \in S
  <2>1. ValueIn(b, <<>>) = 0 /\ DigitsIn(b, 0) = <<>>
    BY ValueSteps, DigitSteps
  <2>2. <<>> \in Seq(D)
    OBVIOUS
  <2>3. QED
    BY <2>1, <2>2
<1>2. ASSUME NEW s \in Seq(D), NEW d \in D, s \in S PROVE Append(s, d) \in S
  <2> DEFINE t == Append(s, d)
             v == ValueIn(b, s)
  <2>1. t \in Seq(D)
    OBVIOUS
  <2>2. s \in Seq(Nat) /\ d \in Nat
    <3>1. D \subseteq Nat
      OBVIOUS
    <3>2. QED
      BY <3>1
  <2>3. v \in Nat /\ ValueIn(b, t) = b * v + d
    BY <2>2, ValueSteps
  <2>4. ASSUME b * v + d # 0, DigitsIn(b, v) = s
        PROVE  DigitsIn(b, ValueIn(b, t)) = t /\ ValueIn(b, t) # 0
    <3> DEFINE n == b * v + d
    <3> HIDE DEF v
    <3>1. n \in Nat /\ n # 0
      BY <2>2, <2>3, <2>4, StepType
    <3>2. n \div b = v /\ n % b = d
      BY <2>3, DivisionIsUnique
    <3> HIDE DEF n
    <3>3. DigitsIn(b, n) = Append(DigitsIn(b, n \div b), n % b)
      BY <3>1, DigitSteps
    <3>4. DigitsIn(b, n) = t
      BY <2>4, <3>2, <3>3
    <3> HIDE DEF t
    <3>5. ValueIn(b, t) = n
      BY <2>3 DEF n
    <3>6. QED
      BY <3>1, <3>4, <3>5
  <2>5. ASSUME Headed(t) PROVE DigitsIn(b, ValueIn(b, t)) = t /\ ValueIn(b, t) # 0
    <3>1. CASE s = <<>>
      <4>1. v = 0 /\ d # 0 /\ DigitsIn(b, v) = s
        <5>1. t[1] = d /\ t # <<>>
          BY <3>1
        <5>2. v = 0
          BY <3>1, ValueSteps
        <5>3. DigitsIn(b, 0) = <<>>
          BY DigitSteps
        <5>4. QED
          BY <2>5, <3>1, <5>1, <5>2, <5>3 DEF Headed
      <4>2. b * v + d # 0
        BY <4>1
      <4>3. QED
        BY <2>4, <4>1, <4>2
    <3>2. CASE s # <<>>
      <4>1. t[1] = s[1] /\ t # <<>>
        BY <3>2
      <4>2. Headed(s)
        BY <2>5, <4>1 DEF Headed
      <4>3. v # 0 /\ DigitsIn(b, v) = s
        BY <1>2, <3>2, <4>2
      <4> HIDE DEF v
      <4>4. b * v + d # 0
        BY <2>3, <4>3
      <4>5. QED
        BY <2>4, <4>3, <4>4
    <3>3. QED
      BY <3>1, <3>2
  <2> HIDE DEF t
  <2>6. QED
    BY <2>1, <2>5 DEF t
<1>3. Seq(D) \subseteq S
  <2> HIDE DEF S, D
  <2>1. QED
    BY <1>1, <1>2, Lists
<1>4. QED
  BY <1>3

LEMMA ValueOfDigits ==
    ASSUME NEW b \in Nat, b >= 2
    PROVE  \A n \in Nat : ValueIn(b, DigitsIn(b, n)) = n /\ Headed(DigitsIn(b, n))
<1> DEFINE S == {n \in Nat : /\ ValueIn(b, DigitsIn(b, n)) = n /\ Headed(DigitsIn(b, n))
                             /\ n # 0 => DigitsIn(b, n) # <<>>}
<1>1. ASSUME NEW n \in Nat, \A m \in 0..n - 1 : m \in S PROVE n \in S
  <2>1. CASE n = 0
    <3>1. DigitsIn(b, n) = <<>> /\ ValueIn(b, <<>>) = 0
      BY <2>1, ValueSteps, DigitSteps
    <3>2. QED
      BY <2>1, <3>1 DEF Headed
  <2>2. CASE n # 0
    <3> DEFINE q == n \div b
               d == n % b
               s == DigitsIn(b, q)
               t == DigitsIn(b, n)
    <3>1. q \in 0..n - 1 /\ q \in Nat /\ d \in 0..b - 1 /\ n = b * q + d
      BY <2>2, Division
    <3>2. t = Append(s, d)
      BY <2>2, DigitSteps
    <3> HIDE DEF q, d
    <3>3. s \in Seq(0..b - 1)
      BY <3>1, DigitSteps
    <3>4. ValueIn(b, s) = q /\ Headed(s) /\ (q # 0 => s # <<>>)
      BY <1>1, <3>1
    <3>5. q = 0 => s = <<>>
      BY DigitSteps
    <3> HIDE DEF s, t
    <3>6. s \in Seq(Nat) /\ d \in Nat
      <4>1. 0..b - 1 \subseteq Nat
        OBVIOUS
      <4>2. QED
        BY <3>1, <3>3, <4>1
    <3>7. ValueIn(b, t) = n
      BY <3>1, <3>2, <3>4, <3>6, ValueSteps
    <3>8. t # <<>>
      BY <3>2, <3>6
    <3>9. Headed(t)
      <4>1. CASE q = 0
        <5>1. d # 0
          BY <2>2, <3>1, <4>1
        <5>2. t[1] = d
          BY <3>2, <3>5, <4>1
        <5>3. QED
          BY <5>1, <5>2 DEF Headed
      <4>2. CASE q # 0
        <5>1. t[1] = s[1] /\ s[1] # 0
          BY <3>2, <3>3, <3>4, <4>2 DEF Headed
        <5>2. QED
          BY <5>1 DEF Headed
      <4>3. QED
        BY <4>1, <4>2
    <3>10. QED
      BY <3>7, <3>8, <3>9 DEF t
  <2>3. QED
    BY <2>1, <2>2
<1>2. Nat \subseteq S
  <2> HIDE DEF S
  <2>1. QED
    BY <1>1, Complete
<1>3. QED
  BY <1>2

LEMMA Widen == ASSUME NEW D, NEW E, D \subseteq E, NEW s \in Seq(D) PROVE s \in Seq(E)
OBVIOUS

LEMMA Elements == ASSUME NEW D, NEW s \in Seq(D) PROVE \A i \in DOMAIN s : s[i] \in D
OBVIOUS

LEMMA Concat ==
    ASSUME NEW D, NEW s \in Seq(D), NEW t \in Seq(D)
    PROVE  /\ s \o t \in Seq(D) /\ Len(s \o t) = Len(s) + Len(t)
           /\ \A i \in 1..Len(s) : (s \o t)[i] = s[i]
           /\ \A i \in 1..Len(t) : (s \o t)[Len(s) + i] = t[i]
OBVIOUS

LEMMA SameSequence ==
    ASSUME NEW D, NEW s \in Seq(D), NEW t \in Seq(D), Len(s) = Len(t),
           \A i \in 1..Len(s) : s[i] = t[i]
    PROVE  s = t
OBVIOUS

\* A sequence cut in two and put together again, and the other way round.
LEMMA Rejoined ==
    ASSUME NEW D, NEW s \in Seq(D), NEW k \in 0..Len(s)
    PROVE  SubSeq(s, 1, k) \o SubSeq(s, k + 1, Len(s)) = s
<1> DEFINE u == SubSeq(s, 1, k)
           t == SubSeq(s, k + 1, Len(s))
           w == u \o t
<1>1. k \in Nat /\ Len(s) \in Nat /\ k <= Len(s)
  OBVIOUS
<1>2. u \in Seq(D) /\ Len(u) = k /\ \A i \in 1..k : u[i] = s[i]
  BY <1>1
<1>3. t \in Seq(D) /\ Len(t) = Len(s) - k /\ \A i \in 1..Len(s) - k : t[i] = s[i + k]
  BY <1>1
<1> HIDE DEF u, t
<1>4. /\ w \in Seq(D) /\ Len(w) = Len(s)
      /\ \A i \in 1..k : w[i] = u[i]
      /\ \A i \in 1..Len(s) - k : w[k + i] = t[i]
  BY <1>1, <1>2, <1>3, Concat
<1> HIDE DEF w
<1>5. ASSUME NEW i \in 1..Len(s) PROVE w[i] = s[i]
  <2>1. CASE i <= k
    <3>1. i \in 1..k
      BY <1>1, <2>1
    <3>2. QED
      BY <1>2, <1>4, <3>1
  <2>2. CASE i > k
    <3>1. i - k \in 1..Len(s) - k /\ k + (i - k) = i /\ i - k + k = i
      BY <1>1, <2>2
    <3>2. w[k + (i - k)] = t[i - k] /\ t[i - k] = s[i - k + k]
      BY <1>3, <1>4, <3>1
    <3>3. QED
      BY <3>1, <3>2
  <2>3. QED
    BY <1>1, <2>1, <2>2
<1>6. w = s
  BY <1>4, <1>5, SameSequence
<1>7. QED
  BY <1>6 DEF w, u, t

LEMMA Parted ==
    ASSUME NEW D, NEW s \in Seq(D), NEW t \in Seq(D)
    PROVE  /\ SubSeq(s \o t, 1, Len(s)) = s
           /\ SubSeq(s \o t, Len(s) + 1, Len(s \o t)) = t
OBVIOUS

\* The zeros in front of a sequence of digits: as many as can be, and nothing
\* of its value.
LEMMA ZerosGrow ==
    ASSUME NEW k \in Nat
    PROVE  /\ Zeros(k) \in Seq(Nat) /\ Len(Zeros(k)) = k /\ \A i \in 1..k : Zeros(k)[i] = 0
           /\ Zeros(0) = <<>> /\ Zeros(k + 1) = Append(Zeros(k), 0)
  BY DEF Zeros

LEMMA ValueWithZeros ==
    ASSUME NEW b \in Nat, NEW k \in Nat
    PROVE  \A s \in Seq(Nat) : ValueIn(b, Zeros(k) \o s) = ValueIn(b, s)
<1>1. ValueIn(b, Zeros(k)) = 0
  <2> DEFINE S == {m \in 0..k : ValueIn(b, Zeros(m)) = 0}
  <2>1. 0 \in S
    BY ZerosGrow, ValueSteps
  <2>2. ASSUME NEW m \in 0..k - 1, m \in S PROVE m + 1 \in S
    <3>1. m \in Nat /\ m + 1 \in 0..k /\ 0 \in Nat
      OBVIOUS
    <3>2. Zeros(m) \in Seq(Nat) /\ Zeros(m + 1) = Append(Zeros(m), 0)
      BY <3>1, ZerosGrow
    <3>3. ValueIn(b, Append(Zeros(m), 0)) = b * ValueIn(b, Zeros(m)) + 0
      BY <3>1, <3>2, ValueSteps
    <3>4. b * 0 + 0 = 0
      OBVIOUS
    <3>5. QED
      BY <2>2, <3>1, <3>2, <3>3, <3>4
  <2>3. \A m \in 0..k : m \in S
    <3> HIDE DEF S
    <3>1. QED
      BY <2>1, <2>2, Climb
  <2>4. QED
    BY <2>3
<1> DEFINE S == {s \in Seq(Nat) : ValueIn(b, Zeros(k) \o s) = ValueIn(b, s)}
<1>2. Zeros(k) \in Seq(Nat)
  BY ZerosGrow
<1>3. <<>> \in S
  <2>1. Zeros(k) \o <<>> = Zeros(k) /\ <<>> \in Seq(Nat)
    BY <1>2
  <2>2. QED
    BY <1>1, <2>1, ValueSteps
<1>4. ASSUME NEW s \in Seq(Nat), NEW d \in Nat, s \in S PROVE Append(s, d) \in S
  <2>1. Zeros(k) \o Append(s, d) = Append(Zeros(k) \o s, d)
    BY <1>2
  <2>2. Zeros(k) \o s \in Seq(Nat) /\ Append(s, d) \in Seq(Nat)
    BY <1>2
  <2>3. ValueIn(b, Append(Zeros(k) \o s, d)) = b * ValueIn(b, Zeros(k) \o s) + d
    BY <2>2, ValueSteps, ZenonT(30)
  <2>4. ValueIn(b, Append(s, d)) = b * ValueIn(b, s) + d
    BY ValueSteps
  <2>5. QED
    BY <1>4, <2>1, <2>2, <2>3, <2>4
<1>5. Seq(Nat) \subseteq S
  <2> DEFINE D == Nat
  <2>1. \A s \in Seq(D), d \in D : s \in S => Append(s, d) \in S
    BY <1>4
  <2>2. Seq(D) \subseteq S
    <3> HIDE DEF S, D
    <3>1. QED
      BY <1>3, <2>1, Lists
  <2>3. QED
    BY <2>2
<1>6. QED
  BY <1>5

LEMMA LeadingZerosIs ==
    ASSUME NEW s \in Seq(Nat)
    PROVE  /\ LeadingZeros(s) \in 0..Len(s) /\ \A i \in 1..LeadingZeros(s) : s[i] = 0
           /\ LeadingZeros(s) < Len(s) => s[LeadingZeros(s) + 1] # 0
<1> DEFINE S == {k \in 0..Len(s) : \A i \in 1..k : s[i] = 0}
           z == CHOOSE k \in S : \A j \in S : j <= k
<1>1. S \in SUBSET (0..Len(s)) /\ 0 \in S /\ Len(s) \in Nat
  OBVIOUS
<1>2. z \in S /\ \A j \in S : j <= z
  <2> HIDE DEF S
  <2>1. \E k \in S : \A j \in S : j <= k
    BY <1>1, Largest
  <2>2. QED
    BY <2>1
<1>3. LeadingZeros(s) = z
  BY DEF LeadingZeros
<1> HIDE DEF z
<1>4. ASSUME z < Len(s), s[z + 1] = 0 PROVE FALSE
  <2>1. z + 1 \in 0..Len(s) /\ \A i \in 1..z + 1 : i \in 1..z \/ i = z + 1
    BY <1>1, <1>2, <1>4
  <2>2. z + 1 \in S
    BY <1>2, <1>4, <2>1
  <2>3. QED
    BY <1>2, <2>1, <2>2
<1>5. QED
  BY <1>2, <1>3, <1>4

\* Whatever stands behind the zeros is the whole of its number.
LEMMA ZerosSplit ==
    ASSUME NEW D \in SUBSET Nat, NEW s \in Seq(D)
    PROVE  \E t \in Seq(D) : Headed(t) /\ s = Zeros(LeadingZeros(s)) \o t
<1> DEFINE k == LeadingZeros(s)
           t == SubSeq(s, k + 1, Len(s))
<1>1. s \in Seq(Nat)
  BY Widen
<1>2. /\ k \in 0..Len(s) /\ \A i \in 1..k : s[i] = 0
      /\ k < Len(s) => s[k + 1] # 0
  BY <1>1, LeadingZerosIs
<1> HIDE DEF k
<1>3. k \in Nat /\ k <= Len(s) /\ Len(s) \in Nat
  BY <1>2
<1>4. t \in Seq(D) /\ Len(t) = Len(s) - k /\ \A i \in 1..Len(s) - k : t[i] = s[i + k]
  BY <1>3
<1>5. Headed(t)
  <2>1. CASE k = Len(s)
    <3>1. t = <<>>
      BY <1>3, <2>1
    <3>2. QED
      BY <3>1 DEF Headed
  <2>2. CASE k < Len(s)
    <3>1. t[1] = s[k + 1]
      BY <1>3, <1>4, <2>2
    <3>2. QED
      BY <1>2, <2>2, <3>1 DEF Headed
  <2>3. QED
    BY <1>3, <2>1, <2>2
<1>6. s = Zeros(k) \o t
  <2> HIDE DEF t
  <2>1. Zeros(k) \in Seq(Nat) /\ t \in Seq(Nat) /\ Len(Zeros(k)) = k /\ \A i \in 1..k : Zeros(k)[i] = 0
    BY <1>3, <1>4, ZerosGrow, Widen
  <2> DEFINE u == Zeros(k) \o t
  <2>2. /\ u \in Seq(Nat) /\ Len(u) = Len(s)
        /\ \A i \in 1..k : u[i] = 0
        /\ \A i \in 1..Len(t) : u[k + i] = t[i]
    BY <1>3, <1>4, <2>1, Concat
  <2> HIDE DEF u
  <2>3. ASSUME NEW i \in 1..Len(s) PROVE u[i] = s[i]
    <3>1. CASE i <= k
      <4>1. i \in 1..k
        BY <1>3, <3>1
      <4>2. QED
        BY <1>2, <2>2, <4>1
    <3>2. CASE i > k
      <4>1. i - k \in 1..Len(s) - k /\ i - k + k = i /\ k + (i - k) = i
        BY <1>3, <3>2
      <4>2. u[k + (i - k)] = t[i - k]
        BY <1>4, <2>2, <4>1
      <4>3. t[i - k] = s[i - k + k]
        BY <1>4, <4>1
      <4>4. QED
        BY <4>1, <4>2, <4>3
    <3>3. QED
      BY <1>3, <3>1, <3>2
  <2>4. s = u
    BY <1>1, <2>2, <2>3, SameSequence
  <2>5. QED
    BY <2>4 DEF u
<1>7. QED
  BY <1>4, <1>5, <1>6 DEF k

LEMMA ZerosCounted ==
    ASSUME NEW D \in SUBSET Nat, NEW t \in Seq(D), Headed(t), NEW k \in Nat
    PROVE  LeadingZeros(Zeros(k) \o t) = k
<1> DEFINE s == Zeros(k) \o t
           z == LeadingZeros(s)
<1>1. t \in Seq(Nat) /\ Zeros(k) \in Seq(Nat) /\ Len(Zeros(k)) = k /\ \A i \in 1..k : Zeros(k)[i] = 0
  BY ZerosGrow, Widen
<1>2. /\ s \in Seq(Nat) /\ Len(s) = k + Len(t) /\ \A i \in 1..k : s[i] = 0
      /\ t # <<>> => s[k + 1] # 0 /\ Len(t) > 0
  <2>1. s \in Seq(Nat) /\ Len(s) = k + Len(t)
    BY <1>1, SMTT(30)
  <2>2. \A i \in 1..k : s[i] = 0
    BY <1>1
  <2>3. t # <<>> => Len(t) \in Nat /\ Len(t) > 0
    BY <1>1
  <2>4. t # <<>> => s[k + 1] = t[1]
    BY <1>1, <2>3
  <2>5. QED
    BY <2>1, <2>2, <2>3, <2>4 DEF Headed
<1> HIDE DEF s
<1>3. /\ z \in 0..Len(s) /\ \A i \in 1..z : s[i] = 0
      /\ z < Len(s) => s[z + 1] # 0
  BY <1>2, LeadingZerosIs
<1> HIDE DEF z
<1>4. ~(z < k)
  <2>1. ASSUME z < k PROVE z + 1 \in 1..k /\ z < Len(s)
    BY <1>1, <1>2, <1>3, <2>1
  <2>2. QED
    BY <1>2, <1>3, <2>1
<1>5. ~(z > k)
  <2>1. ASSUME z > k PROVE k + 1 \in 1..z /\ t # <<>>
    BY <1>1, <1>2, <1>3, <2>1
  <2>2. QED
    BY <1>2, <1>3, <2>1
<1>6. z = k
  BY <1>3, <1>4, <1>5
<1>7. QED
  BY <1>6 DEF s, z

-----------------------------------------------------------------------------
(* Base58Check *)

\* The number a sequence of digits writes in base a, written in base b, with
\* as many zeros in front.
Converted(a, b, s) == Zeros(LeadingZeros(s)) \o DigitsIn(b, ValueIn(a, s))

LEMMA ConversionReturns ==
    ASSUME NEW a \in Nat, a >= 2, NEW b \in Nat, b >= 2, NEW s \in Seq(0..a - 1)
    PROVE  Converted(a, b, s) \in Seq(0..b - 1) /\ Converted(b, a, Converted(a, b, s)) = s
<1> DEFINE k == LeadingZeros(s)
           v == ValueIn(a, s)
           d == DigitsIn(b, v)
           u == Zeros(k) \o d
<1>1. /\ 0..a - 1 \in SUBSET Nat /\ 0..b - 1 \in SUBSET Nat
      /\ 0 \in 0..b - 1
  OBVIOUS
<1>2. s \in Seq(Nat)
  BY <1>1, Widen
<1>3. k \in Nat /\ v \in Nat
  <2>1. k \in 0..Len(s)
    BY <1>2, LeadingZerosIs
  <2>2. k \in Nat
    BY <1>2, <2>1
  <2>3. v \in Nat
    BY <1>2, ValueSteps
  <2>4. QED
    BY <2>2, <2>3
<1> HIDE DEF v, k
<1>4. d \in Seq(0..b - 1) /\ Headed(d) /\ ValueIn(b, d) = v
  BY <1>3, DigitSteps, ValueOfDigits
<1> HIDE DEF d
<1>5. d \in Seq(Nat)
  BY <1>1, <1>4, Widen
<1>6. u \in Seq(0..b - 1)
  <2>1. Zeros(k) \in Seq(0..b - 1)
    BY <1>1, <1>3 DEF Zeros
  <2>2. QED
    BY <1>4, <2>1, Concat
<1>7. LeadingZeros(u) = k
  BY <1>1, <1>3, <1>4, ZerosCounted
<1>8. ValueIn(b, u) = v
  BY <1>3, <1>4, <1>5, ValueWithZeros
<1>9. PICK t \in Seq(0..a - 1) : Headed(t) /\ s = Zeros(k) \o t
  BY <1>1, ZerosSplit DEF k
<1>10. v = ValueIn(a, t)
  <2>1. t \in Seq(Nat)
    BY <1>1, <1>9, Widen
  <2>2. ValueIn(a, Zeros(k) \o t) = ValueIn(a, t)
    BY <1>3, <2>1, ValueWithZeros
  <2>3. QED
    BY <1>9, <2>2 DEF v
<1>11. DigitsIn(a, v) = t
  BY <1>9, <1>10, DigitsOfValue
<1>12. Converted(a, b, s) = u
  BY DEF Converted, u, d, v, k
<1> HIDE DEF u
<1>13. Converted(b, a, u) = s
  BY <1>7, <1>8, <1>9, <1>11 DEF Converted
<1>14. QED
  BY <1>6, <1>12, <1>13

\* base58check-decode (main.go) decodes exactly what is the Base58Check form of
\* a payload, to that payload: for every payload, every checksum function, every
\* two bases, and the zero bytes in front.
THEOREM Base58AlwaysInverts == Spec => []Base58Inverts
<1>1. ASSUME Ran, Answered("base58") PROVE Base58Inverts
  <2> DEFINE full == DecodeBase58(args)
             cut == Len(full) - ChecksumLen
             payload == SubSeq(full, 1, cut)
             fits == Checksum(payload) = SubSeq(full, cut + 1, Len(full))
             strange == \E i \in DOMAIN args : args[i] = -1
  <2>1. args \in Seq(-1..Base - 1) /\ Base \in Nat /\ ByteBase \in Nat /\ Base >= 2 /\ ByteBase >= 2
        /\ ChecksumLen \in Nat
    BY <1>1, RunsAssumption, BasesAssumption DEF Ran, Answered
  <2>2. full = Converted(Base, ByteBase, args)
    BY DEF DecodeBase58, Converted
  <2>3. \A p : Encode(p) = Converted(ByteBase, Base, p \o Checksum(p))
    BY DEF Encode, Converted
  <2>4. out = IF strange \/ cut < 0 \/ ~fits THEN Error ELSE Answer(payload)
    BY <1>1 DEF Ran, Decode
  <2>5. ASSUME ~strange PROVE args \in Seq(0..Base - 1)
    <3>1. \A i \in DOMAIN args : args[i] \in 0..Base - 1
      BY <2>1, <2>5
    <3>2. QED
      BY <2>1, <3>1
  <2>6. ASSUME out.ok PROVE Encode(out.value) = args
    <3>1. ~strange /\ ~(cut < 0) /\ fits /\ out.value = payload
      BY <2>4, <2>6 DEF Error, Answer
    <3>2. full \in Seq(0..ByteBase - 1) /\ Converted(ByteBase, Base, full) = args
      BY <2>1, <2>2, <2>5, <3>1, ConversionReturns
    <3> HIDE DEF full
    <3>3. cut \in 0..Len(full)
      BY <2>1, <3>1, <3>2
    <3>4. payload \o SubSeq(full, cut + 1, Len(full)) = full
      BY <3>2, <3>3, Rejoined
    <3>5. QED
      BY <2>3, <3>1, <3>2, <3>4
  <2>7. ASSUME NEW p \in Payloads, Encode(p) = args PROVE out = Answer(p)
    <3> DEFINE D == 0..ByteBase - 1
               c == Checksum(p)
    <3>1. p \in Seq(D) /\ c \in Seq(D) /\ Len(c) = ChecksumLen
      <4>1. c \in [1..ChecksumLen -> D]
        BY <2>7, RunsAssumption
      <4>2. QED
        BY <2>1, <2>7, <4>1, RunsAssumption
    <3> HIDE DEF c
    <3>2. p \o c \in Seq(D) /\ Len(p \o c) = Len(p) + ChecksumLen
      BY <3>1, Concat
    <3>3. args = Converted(ByteBase, Base, p \o c)
      BY <2>3, <2>7 DEF c
    <3>4. args \in Seq(0..Base - 1) /\ full = p \o c
      BY <2>1, <2>2, <3>2, <3>3, ConversionReturns
    <3> HIDE DEF full
    <3>5. ~strange
      <4>1. \A i \in DOMAIN args : args[i] \in 0..Base - 1
        BY <3>4, Elements
      <4>2. -1 \notin 0..Base - 1
        BY <2>1
      <4>3. QED
        BY <4>1, <4>2
    <3>6. cut = Len(p)
      BY <2>1, <3>1, <3>2, <3>4
    <3>7. payload = p /\ SubSeq(full, cut + 1, Len(full)) = c
      BY <3>1, <3>2, <3>4, <3>6, Parted, SMTT(30)
    <3>8. fits /\ ~(cut < 0)
      <4>1. Len(p) \in Nat
        BY <3>1
      <4>2. ~(cut < 0)
        BY <3>6, <4>1
      <4>3. fits
        BY <3>7 DEF c
      <4>4. QED
        BY <4>2, <4>3
    <3>9. QED
      BY <2>4, <3>5, <3>7, <3>8
  <2>8. QED
    BY <2>6, <2>7 DEF Base58Inverts
<1>2. Ran => Base58Inverts
  BY <1>1 DEF Base58Inverts
<1>3. QED
  BY <1>2, RanInvariant, PTL

-----------------------------------------------------------------------------
(* Texts put together and split at a delimiter *)

LEMMA Grouped ==
    ASSUME NEW D, NEW s \in Seq(D), NEW t \in Seq(D), NEW u \in Seq(D)
    PROVE  (s \o t) \o u = s \o (t \o u)
OBVIOUS

LEMMA WithEmpty == ASSUME NEW D, NEW s \in Seq(D) PROVE s \o <<>> = s /\ <<>> \o s = s
OBVIOUS

LEMMA OneOf == ASSUME NEW D, NEW c \in D PROVE <<c>> \in Seq(D) /\ Len(<<c>>) = 1 /\ <<c>>[1] = c
OBVIOUS

LEMMA Single == ASSUME NEW c \in Characters PROVE <<c>> \in Texts /\ Len(<<c>>) = 1 /\ <<c>>[1] = c
<1>1. \A D : c \in D => <<c>> \in Seq(D)
  BY OneOf
<1>2. QED
  BY <1>1, OneOf DEF Texts

LEMMA Sized ==
    ASSUME NEW s \in Texts
    PROVE  Len(s) \in Nat /\ DOMAIN s = 1..Len(s)
BY DEF Texts

LEMMA CharacterAt == ASSUME NEW s \in Texts, NEW i \in 1..Len(s) PROVE s[i] \in Characters
BY DEF Texts

LEMMA Joined ==
    ASSUME NEW s \in Texts, NEW t \in Texts
    PROVE  /\ s \o t \in Texts /\ Len(s \o t) = Len(s) + Len(t)
           /\ \A i \in 1..Len(s) : (s \o t)[i] = s[i]
           /\ \A i \in 1..Len(t) : (s \o t)[Len(s) + i] = t[i]
BY Concat DEF Texts

\* A character in front.
LEMMA InFront ==
    ASSUME NEW t \in Texts, NEW c \in Characters
    PROVE  LET x == <<c>> \o t
           IN  x \in Texts /\ Len(x) = 1 + Len(t) /\ x[1] = c /\ \A k \in 1..Len(t) : x[1 + k] = t[k]
<1> DEFINE h == <<c>>
<1>1. h \in Texts /\ Len(h) = 1 /\ h[1] = c
  BY Single
<1> HIDE DEF h
<1>2. /\ h \o t \in Texts /\ Len(h \o t) = Len(h) + Len(t)
      /\ \A i \in 1..Len(h) : (h \o t)[i] = h[i]
      /\ \A i \in 1..Len(t) : (h \o t)[Len(h) + i] = t[i]
  BY <1>1, Joined
<1>3. QED
  BY <1>1, <1>2 DEF h

\* A word of Cat is a word of L and a word of M.
LEMMA CatSays ==
    ASSUME NEW L, NEW M, NEW w \in Texts
    PROVE  w \in Cat(L, M) <=> \E u \in Texts, v \in Texts : u \in L /\ v \in M /\ w = u \o v
<1>1. ASSUME NEW i \in 0..Len(w), SubSeq(w, 1, i) \in L, SubSeq(w, i + 1, Len(w)) \in M
      PROVE  \E u \in Texts, v \in Texts : u \in L /\ v \in M /\ w = u \o v
  <2>1. SubSeq(w, 1, i) \in Texts /\ SubSeq(w, i + 1, Len(w)) \in Texts
    BY DEF Texts
  <2>2. w = SubSeq(w, 1, i) \o SubSeq(w, i + 1, Len(w))
    BY Rejoined DEF Texts
  <2>3. QED
    BY <1>1, <2>1, <2>2
<1>2. ASSUME NEW u \in Texts, NEW v \in Texts, u \in L, v \in M, w = u \o v
      PROVE  \E i \in 0..Len(w) : SubSeq(w, 1, i) \in L /\ SubSeq(w, i + 1, Len(w)) \in M
  <2>1. Len(u) \in 0..Len(w)
    BY <1>2, Concat DEF Texts
  <2>2. SubSeq(w, 1, Len(u)) = u /\ SubSeq(w, Len(u) + 1, Len(w)) = v
    BY <1>2, Parted DEF Texts
  <2>3. QED
    BY <1>2, <2>1, <2>2
<1>3. QED
  BY <1>1, <1>2 DEF Cat

Without(s, c) == \A i \in DOMAIN s : s[i] # c

LEMMA WithoutJoined ==
    ASSUME NEW s \in Texts, NEW t \in Texts, NEW c
    PROVE  Without(s \o t, c) <=> Without(s, c) /\ Without(t, c)
<1> DEFINE w == s \o t
<1>1. /\ w \in Texts /\ Len(w) = Len(s) + Len(t)
      /\ \A i \in 1..Len(s) : w[i] = s[i]
      /\ \A i \in 1..Len(t) : w[Len(s) + i] = t[i]
  BY Concat DEF Texts
<1>2. DOMAIN w = 1..Len(w) /\ DOMAIN s = 1..Len(s) /\ DOMAIN t = 1..Len(t) /\ Len(s) \in Nat /\ Len(t) \in Nat
  BY <1>1 DEF Texts
<1> HIDE DEF w
<1>3. ASSUME Without(w, c) PROVE Without(s, c) /\ Without(t, c)
  <2>1. ASSUME NEW i \in 1..Len(s) PROVE s[i] # c
    <3>1. i \in 1..Len(w)
      BY <1>1, <1>2
    <3>2. QED
      BY <1>1, <1>2, <1>3, <3>1 DEF Without
  <2>2. ASSUME NEW i \in 1..Len(t) PROVE t[i] # c
    <3>1. Len(s) + i \in 1..Len(w)
      BY <1>1, <1>2
    <3>2. QED
      BY <1>1, <1>2, <1>3, <3>1 DEF Without
  <2>3. QED
    BY <1>2, <2>1, <2>2 DEF Without
<1>4. ASSUME Without(s, c), Without(t, c) PROVE Without(w, c)
  <2>1. ASSUME NEW i \in 1..Len(w) PROVE w[i] # c
    <3>1. CASE i <= Len(s)
      <4>1. i \in 1..Len(s)
        BY <1>2, <3>1
      <4>2. QED
        BY <1>1, <1>2, <1>4, <4>1 DEF Without
    <3>2. CASE i > Len(s)
      <4>1. i - Len(s) \in 1..Len(t) /\ Len(s) + (i - Len(s)) = i
        BY <1>1, <1>2, <3>2
      <4>2. w[i] = t[i - Len(s)]
        BY <1>1, <4>1
      <4>3. QED
        BY <1>2, <1>4, <4>1, <4>2 DEF Without
    <3>3. QED
      BY <1>2, <3>1, <3>2
  <2>2. QED
    BY <1>2, <2>1 DEF Without
<1>5. QED
  BY <1>3, <1>4 DEF w

LEMMA IndexSays ==
    ASSUME NEW s \in Texts, NEW c
    PROVE  \/ IndexByte(s, c) = 0 /\ Without(s, c)
           \/ /\ IndexByte(s, c) \in DOMAIN s /\ s[IndexByte(s, c)] = c
              /\ \A j \in DOMAIN s : s[j] = c => IndexByte(s, c) <= j
<1> DEFINE at == {i \in DOMAIN s : s[i] = c}
<1>1. at \in SUBSET Nat
  BY DEF Texts
<1>2. CASE at = {}
  BY <1>2 DEF IndexByte, Without
<1>3. CASE at # {}
  <2> DEFINE m == CHOOSE i \in at : \A j \in at : i <= j
  <2>1. m \in at /\ \A j \in at : m <= j
    <3> HIDE DEF at
    <3>1. QED
      BY <1>1, <1>3, ChosenLeast
  <2>2. IndexByte(s, c) = m
    BY <1>3 DEF IndexByte
  <2> HIDE DEF m
  <2>3. QED
    BY <2>1, <2>2
<1>4. QED
  BY <1>2, <1>3

\* The first delimiter of what is put together with one.
LEMMA IndexOfJoined ==
    ASSUME NEW u \in Texts, NEW v \in Texts, NEW c \in Characters, Without(u, c)
    PROVE  LET s == u \o (<<c>> \o v)
           IN  IndexByte(s, c) = Len(u) + 1 /\ Upto(s, Len(u) + 1) = u /\ After(s, Len(u) + 1) = v
<1> DEFINE t == <<c>> \o v
           s == u \o t
           i == Len(u) + 1
<1>1. Len(u) \in Nat /\ Len(v) \in Nat
  BY Sized
<1>2. t \in Texts /\ Len(t) = 1 + Len(v) /\ t[1] = c /\ \A k \in 1..Len(v) : t[1 + k] = v[k]
  BY InFront
<1> HIDE DEF t
<1>3. /\ s \in Texts /\ Len(s) = Len(u) + Len(t)
      /\ \A k \in 1..Len(u) : s[k] = u[k]
      /\ \A k \in 1..Len(t) : s[Len(u) + k] = t[k]
  BY <1>2, Joined
<1>4. SubSeq(s, 1, Len(u)) = u
  BY <1>2, Parted DEF Texts
<1>5. SubSeq(s, Len(u) + 1 + 1, Len(s)) = v
  <2> DEFINE w == SubSeq(s, Len(u) + 1 + 1, Len(s))
  <2> HIDE DEF s
  <2>1. w \in Texts /\ Len(w) = Len(v) /\ \A k \in 1..Len(v) : w[k] = s[Len(u) + (1 + k)]
    BY <1>1, <1>2, <1>3 DEF Texts
  <2>2. \A k \in 1..Len(v) : 1 + k \in 1..Len(t)
    BY <1>1, <1>2
  <2>3. \A k \in 1..Len(v) : w[k] = v[k]
    BY <1>2, <1>3, <2>1, <2>2
  <2> HIDE DEF w
  <2>4. w = v
    BY <2>1, <2>3, SameSequence DEF Texts
  <2>5. QED
    BY <2>4 DEF w
<1>6. i \in DOMAIN s /\ s[i] = c
  <2> HIDE DEF s
  <2>1. 1 \in 1..Len(t) /\ DOMAIN s = 1..Len(s) /\ i \in 1..Len(s)
    BY <1>1, <1>2, <1>3, Sized
  <2>2. s[Len(u) + 1] = t[1]
    BY <1>3, <2>1
  <2>3. QED
    BY <1>2, <2>1, <2>2
<1>7. \A j \in DOMAIN s : s[j] = c => i <= j
  <2> HIDE DEF s
  <2> SUFFICES ASSUME NEW j \in DOMAIN s, ~(i <= j) PROVE s[j] # c
    OBVIOUS
  <2>1. j \in 1..Len(u) /\ DOMAIN u = 1..Len(u)
    <3>1. j \in 1..Len(s) /\ DOMAIN u = 1..Len(u)
      BY <1>3, Sized
    <3>2. QED
      BY <1>1, <3>1
  <2>2. QED
    BY <1>3, <2>1 DEF Without
<1>8. IndexByte(s, c) = i
  <2> HIDE DEF s
  <2>1. ~Without(s, c)
    BY <1>6 DEF Without
  <2>2. IndexByte(s, c) \in DOMAIN s /\ IndexByte(s, c) <= i /\ i <= IndexByte(s, c)
    BY <1>3, <1>6, <1>7, <2>1, IndexSays
  <2>3. DOMAIN s \subseteq Nat
    BY <1>3 DEF Texts
  <2> DEFINE k == IndexByte(s, c)
  <2>4. k \in Nat /\ k <= i /\ i <= k
    BY <2>2, <2>3
  <2> HIDE DEF k
  <2>5. k = i
    BY <1>1, <2>4
  <2>6. QED
    BY <2>5 DEF k
<1>9. Len(u) + 1 - 1 = Len(u)
  BY <1>1
<1>10. QED
  BY <1>4, <1>5, <1>8, <1>9 DEF Upto, After, t

Part == {Absent} \cup {Given(t) : t \in Texts}

\* A component behind or in front of its delimiter.
Behind(part, c) == IF part.has THEN <<c>> \o part.text ELSE <<>>
Ahead(part, c) == IF part.has THEN part.text \o <<c>> ELSE <<>>

LEMMA PartType ==
    ASSUME NEW p \in Part, NEW c \in Characters
    PROVE  /\ p.has \in BOOLEAN /\ p.text \in Texts /\ Behind(p, c) \in Texts /\ Ahead(p, c) \in Texts
           /\ ~p.has => p = Absent /\ p.text = <<>> /\ Behind(p, c) = <<>> /\ Ahead(p, c) = <<>>
           /\ p.has => p = Given(p.text)
<1>1. /\ <<>> \in Texts
      /\ \A s \in Texts : <<c>> \o s \in Texts /\ s \o <<c>> \in Texts
  <2>1. <<>> \in Texts
    BY DEF Texts
  <2>2. QED
    BY <2>1, Single, Joined
<1>2. p = Absent \/ \E t \in Texts : p = Given(t)
  BY DEF Part
<1>3. CASE p = Absent
  BY <1>1, <1>3 DEF Absent, Behind, Ahead
<1>4. ASSUME NEW t \in Texts, p = Given(t) PROVE p.has = TRUE /\ p.text = t
  BY <1>4 DEF Given
<1>5. ASSUME NEW t \in Texts, p = Given(t)
      PROVE  p.text \in Texts /\ Behind(p, c) \in Texts /\ Ahead(p, c) \in Texts
  <2>1. Behind(p, c) = <<c>> \o t /\ Ahead(p, c) = t \o <<c>>
    BY <1>4, <1>5 DEF Behind, Ahead
  <2>2. QED
    BY <1>1, <1>4, <1>5, <2>1
<1>6. QED
  BY <1>2, <1>3, <1>4, <1>5

\* What is split off is what was put behind the delimiter.
LEMMA SplitOffJoined ==
    ASSUME NEW r \in Texts, NEW p \in Part, NEW c \in Characters, Without(r, c)
    PROVE  SplitOff(r \o Behind(p, c), c) = [rest |-> r, tail |-> p]
<1>1. CASE ~p.has
  <2>1. r \o Behind(p, c) = r /\ p = Absent
    BY <1>1, PartType, WithEmpty DEF Texts
  <2>2. IndexByte(r, c) = 0
    BY IndexSays DEF Without
  <2>3. QED
    BY <2>1, <2>2 DEF SplitOff
<1>2. CASE p.has
  <2> DEFINE s == r \o (<<c>> \o p.text)
  <2>1. p = Given(p.text) /\ p.text \in Texts /\ r \o Behind(p, c) = s
    BY <1>2, PartType DEF Behind
  <2>2. IndexByte(s, c) = Len(r) + 1 /\ Upto(s, Len(r) + 1) = r /\ After(s, Len(r) + 1) = p.text
    BY <2>1, IndexOfJoined
  <2>3. Len(r) + 1 # 0
    BY DEF Texts
  <2>4. QED
    BY <2>1, <2>2, <2>3 DEF SplitOff
<1>3. QED
  BY <1>1, <1>2, PartType

LEMMA Slice ==
    ASSUME NEW s \in Texts, NEW i \in 0..Len(s), NEW j \in i..Len(s)
    PROVE  LET w == SubSeq(s, i + 1, j)
           IN  w \in Texts /\ Len(w) = j - i /\ \A k \in 1..j - i : w[k] = s[i + k]
BY DEF Texts

\* And the other way round.
LEMMA CutAt ==
    ASSUME NEW s \in Texts, NEW c \in Characters, NEW i \in DOMAIN s, s[i] = c,
           \A j \in DOMAIN s : s[j] = c => i <= j
    PROVE  /\ Upto(s, i) \in Texts /\ After(s, i) \in Texts /\ Without(Upto(s, i), c)
           /\ s = Upto(s, i) \o (<<c>> \o After(s, i))
           /\ SubSeq(s, i, Len(s)) = <<c>> \o After(s, i)
<1> DEFINE u == SubSeq(s, 1, i - 1)
           v == SubSeq(s, i + 1, Len(s))
           w == SubSeq(s, i, Len(s))
<1>1. i \in Nat /\ i >= 1 /\ i <= Len(s) /\ Len(s) \in Nat /\ DOMAIN s = 1..Len(s) /\ i - 1 \in 0..Len(s) /\ i - 1 + 1 = i
  BY DEF Texts
<1>2. u \in Texts /\ Len(u) = i - 1 /\ \A k \in 1..i - 1 : u[k] = s[k]
  BY <1>1 DEF Texts
<1>3. v \in Texts /\ Len(v) = Len(s) - i /\ \A k \in 1..Len(s) - i : v[k] = s[i + k]
  <2>1. i \in 0..Len(s) /\ Len(s) \in i..Len(s)
    BY <1>1
  <2>2. QED
    BY <2>1, Slice
<1>4. w \in Texts /\ Len(w) = Len(s) - i + 1 /\ \A k \in 1..Len(s) - i + 1 : w[k] = s[i + k - 1]
  BY <1>1 DEF Texts
<1>5. s = u \o w
  BY <1>1, Rejoined DEF Texts
<1> DEFINE x == <<c>> \o v
<1> HIDE DEF u, v, w
<1>6. x \in Texts /\ Len(x) = 1 + Len(v) /\ x[1] = c /\ \A k \in 1..Len(v) : x[1 + k] = v[k]
  BY <1>3, InFront
<1> HIDE DEF x
<1>7. w = x
  <2>1. ASSUME NEW k \in 1..Len(w) PROVE w[k] = x[k]
    <3>1. CASE k = 1
      <4>1. 1 \in 1..Len(s) - i + 1 /\ i + 1 - 1 = i
        BY <1>1
      <4>2. w[1] = s[i]
        BY <1>4, <4>1
      <4>3. QED
        BY <1>6, <3>1, <4>2
    <3>2. CASE k # 1
      <4>1. k - 1 \in 1..Len(v) /\ 1 + (k - 1) = k /\ i + (k - 1) = i + k - 1
        BY <1>1, <1>3, <1>4, <3>2
      <4>2. x[k] = v[k - 1] /\ v[k - 1] = s[i + k - 1]
        BY <1>3, <1>6, <4>1
      <4>3. QED
        BY <1>4, <4>2
    <3>3. QED
      BY <3>1, <3>2
  <2>2. Len(w) = Len(x)
    BY <1>1, <1>3, <1>4, <1>6
  <2>3. QED
    BY <1>4, <1>6, <2>1, <2>2, SameSequence DEF Texts
<1>8. Without(u, c)
  <2>1. ASSUME NEW k \in 1..i - 1 PROVE u[k] # c
    <3>1. k \in DOMAIN s /\ ~(i <= k)
      BY <1>1
    <3>2. QED
      BY <1>2, <3>1
  <2>2. DOMAIN u = 1..i - 1
    BY <1>2 DEF Texts
  <2>3. QED
    BY <2>1, <2>2 DEF Without
<1>9. QED
  BY <1>2, <1>3, <1>5, <1>7, <1>8 DEF u, v, w, x, Upto, After

LEMMA SplitOffGives ==
    ASSUME NEW s \in Texts, NEW c \in Characters
    PROVE  LET p == SplitOff(s, c)
           IN  /\ p.rest \in Texts /\ p.tail \in Part /\ Without(p.rest, c)
               /\ s = p.rest \o Behind(p.tail, c)
<1> DEFINE i == IndexByte(s, c)
<1>1. CASE i = 0
  <2>1. SplitOff(s, c).rest = s /\ SplitOff(s, c).tail = Absent
    BY <1>1 DEF SplitOff
  <2>2. Absent \in Part /\ ~Absent.has
    BY DEF Part, Absent
  <2>3. Without(s, c)
    <3>1. 0 \notin DOMAIN s
      BY DEF Texts
    <3>2. QED
      BY <1>1, <3>1, IndexSays
  <2>4. s = s \o Behind(Absent, c)
    BY <2>2, WithEmpty DEF Behind, Texts
  <2>5. QED
    BY <2>1, <2>2, <2>3, <2>4
<1>2. CASE i # 0
  <2>1. i \in DOMAIN s /\ s[i] = c /\ \A j \in DOMAIN s : s[j] = c => i <= j
    BY <1>2, IndexSays
  <2>2. SplitOff(s, c).rest = Upto(s, i) /\ SplitOff(s, c).tail = Given(After(s, i))
    BY <1>2 DEF SplitOff
  <2> HIDE DEF i
  <2>3. /\ Upto(s, i) \in Texts /\ After(s, i) \in Texts /\ Without(Upto(s, i), c)
        /\ s = Upto(s, i) \o (<<c>> \o After(s, i))
    BY <2>1, CutAt
  <2>4. Given(After(s, i)) \in Part /\ Behind(Given(After(s, i)), c) = <<c>> \o After(s, i)
    BY <2>3 DEF Part, Given, Behind
  <2>5. QED
    BY <2>2, <2>3, <2>4
<1>3. QED
  BY <1>1, <1>2

-----------------------------------------------------------------------------
(* The classes of the grammar *)

Reg(extra) == Unreserved \cup SubDelims \cup extra

\* A text of the class is a number of characters and percent triples.
ClassOf(L, extra) == \A w : w \in L <=> w \in Char(Reg(extra)) \/ w \in PctEncoded

LEMMA Hex == ASSUME NEW c \in HexDigits PROVE c # "%" /\ c \in Unreserved
BY DEF HexDigits, Unreserved, Letters

Triple(s, i) == i + 2 <= Len(s) /\ s[i + 1] \in HexDigits /\ s[i + 2] \in HexDigits

LEMMA ClassSays ==
    ASSUME NEW s, NEW extra
    PROVE  ValidPctClass(s, extra) <=>
               \A i \in DOMAIN s : s[i] \in Reg(extra) \/ (s[i] = "%" /\ Triple(s, i))
BY DEF ValidPctClass, Reg, Triple

\* Every position of a text of Star is in one of its pieces.
LEMMA PieceAt ==
    ASSUME NEW L, NEW s \in Star(L), NEW k \in 1..Len(s)
    PROVE  /\ s \in Texts
           /\ \E i \in 0..Len(s), j \in 0..Len(s) : i < k /\ k <= j /\ SubSeq(s, i + 1, j) \in L
<1> DEFINE n == Len(s)
<1>1. s \in Texts
  BY DEF Star
<1>2. n \in Nat
  BY <1>1, Sized
<1>3. PICK cuts \in SUBSET (0..n) :
        /\ {0, n} \subseteq cuts
        /\ \A i \in cuts \ {n} : \E j \in cuts : i < j /\ SubSeq(s, i + 1, j) \in L
  BY DEF Star
<1> HIDE DEF n
<1>4. k \in 1..n
  BY DEF n
<1> DEFINE B == {i \in cuts : i < k}
<1>5. PICK i \in B : \A j \in B : j <= i
  <2>1. B \in SUBSET (0..n)
    OBVIOUS
  <2>2. 0 \in B
    <3>1. 0 \in cuts /\ 0 < k
      BY <1>2, <1>3, <1>4
    <3>2. QED
      BY <3>1
  <2> HIDE DEF B
  <2>3. QED
    BY <1>2, <2>1, <2>2, Largest
<1>6. i \in 0..n /\ i # n
  BY <1>2, <1>4, <1>5
<1>7. PICK j \in cuts : i < j /\ SubSeq(s, i + 1, j) \in L
  BY <1>3, <1>6
<1>8. k <= j /\ j \in 0..n
  <2>1. ~(j \in B)
    BY <1>5, <1>6, <1>7
  <2>2. QED
    BY <1>2, <1>4, <2>1
<1>9. QED
  BY <1>1, <1>5, <1>6, <1>7, <1>8 DEF n

\* What is cut into texts of the class is valid.
LEMMA StarIsValid ==
    ASSUME NEW L, NEW extra, ClassOf(L, extra), NEW s \in Star(L)
    PROVE  s \in Texts /\ ValidPctClass(s, extra)
<1> DEFINE n == Len(s)
<1>1. s \in Texts /\ n \in Nat /\ DOMAIN s = 1..n
  <2>1. s \in Texts
    BY DEF Star
  <2>2. QED
    BY <2>1, Sized
<1> HIDE DEF n
<1>2. ASSUME NEW k \in 1..n PROVE s[k] \in Reg(extra) \/ (s[k] = "%" /\ Triple(s, k))
  <2>1. PICK i \in 0..n, j \in 0..n : i < k /\ k <= j /\ SubSeq(s, i + 1, j) \in L
    BY PieceAt DEF n
  <2>2. i \in 0..n /\ j \in i..n /\ i < k /\ k <= j /\ i \in Nat /\ j \in Nat
    BY <1>1, <2>1
  <2> DEFINE w == SubSeq(s, i + 1, j)
  <2>3. w \in Texts /\ Len(w) = j - i /\ \A l \in 1..j - i : w[l] = s[i + l]
    BY <1>1, <2>2, Slice DEF n
  <2>4. w \in Char(Reg(extra)) \/ w \in PctEncoded
    BY <2>1 DEF ClassOf
  <2> HIDE DEF w
  <2>5. CASE w \in Char(Reg(extra))
    <3>1. PICK c \in Reg(extra) : w = <<c>>
      BY <2>5 DEF Char
    <3>2. Len(w) = 1 /\ w[1] = c
      BY <3>1
    <3>3. k = i + 1 /\ 1 \in 1..j - i
      <4>1. j - i = 1
        BY <2>3, <3>2
      <4>2. QED
        BY <2>2, <4>1
    <3>4. s[k] = c
      BY <2>3, <3>2, <3>3
    <3>5. QED
      BY <3>4
  <2>6. CASE w \in PctEncoded
    <3>1. PICK h \in HexDigits, g \in HexDigits : w = <<"%", h, g>>
      BY <2>6 DEF PctEncoded
    <3>2. Len(w) = 3 /\ w[1] = "%" /\ w[2] = h /\ w[3] = g
      BY <3>1
    <3>3. j - i = 3 /\ 1 \in 1..j - i /\ 2 \in 1..j - i /\ 3 \in 1..j - i
      <4>1. j - i = 3
        BY <2>3, <3>2
      <4>2. QED
        BY <4>1
    <3>4. s[i + 1] = "%" /\ s[i + 2] = h /\ s[i + 3] = g
      BY <2>3, <3>2, <3>3
    <3>5. k = i + 1 \/ k = i + 2 \/ k = i + 3
      BY <2>2, <3>3
    <3>6. CASE k = i + 1
      <4>1. k + 1 = i + 2 /\ k + 2 = i + 3 /\ k + 2 <= n
        BY <1>1, <2>2, <3>3, <3>6
      <4>2. QED
        BY <3>4, <3>6, <4>1 DEF Triple, n
    <3>7. CASE k # i + 1
      BY <3>4, <3>5, <3>7, Hex DEF Reg
    <3>8. QED
      BY <3>6, <3>7
  <2>7. QED
    BY <2>4, <2>5, <2>6
<1>3. QED
  BY <1>1, <1>2, ClassSays

\* A valid text can be cut: everywhere but in a triple.
LEMMA ValidIsStar ==
    ASSUME NEW L, NEW extra, ClassOf(L, extra), "%" \notin extra,
           NEW s \in Texts, ValidPctClass(s, extra)
    PROVE  s \in Star(L)
<1> DEFINE n == Len(s)
           cuts == {i \in 0..n : (i >= 1 => s[i] # "%") /\ (i >= 2 => s[i - 1] # "%")}
<1>1. n \in Nat /\ DOMAIN s = 1..n
  BY Sized
<1> HIDE DEF n
<1>2. \A i \in 1..n : s[i] \in Reg(extra) \/ (s[i] = "%" /\ Triple(s, i))
  BY <1>1, ClassSays
<1>3. "%" \notin Reg(extra)
  BY DEF Reg, Unreserved, SubDelims, Letters
<1>4. 0 \in cuts
  BY <1>1
<1>5. n \in cuts
  <2>1. ASSUME n >= 1 PROVE s[n] # "%"
    <3>1. n \in 1..n /\ ~(n + 2 <= n)
      BY <1>1, <2>1
    <3>2. QED
      BY <1>2, <1>3, <3>1 DEF Triple, n
  <2>2. ASSUME n >= 2 PROVE s[n - 1] # "%"
    <3>1. n - 1 \in 1..n /\ ~(n - 1 + 2 <= n)
      BY <1>1, <2>2
    <3>2. QED
      BY <1>2, <1>3, <3>1 DEF Triple, n
  <2>3. n \in 0..n
    BY <1>1
  <2>4. QED
    BY <2>1, <2>2, <2>3
<1>6. ASSUME NEW i \in cuts \ {n} PROVE \E j \in cuts : i < j /\ SubSeq(s, i + 1, j) \in L
  <2>1. i \in 0..n /\ i \in Nat /\ i < n /\ i + 1 \in 1..n /\ i + 1 \in 0..n /\ (i >= 1 => s[i] # "%")
    BY <1>1, <1>6
  <2>2. CASE s[i + 1] \in Reg(extra)
    <3> DEFINE w == SubSeq(s, i + 1, i + 1)
    <3>1. w \in Texts /\ Len(w) = 1 /\ w[1] = s[i + 1]
      <4>1. i + 1 \in i..n /\ i + 1 - i = 1 /\ 1 \in 1..1
        BY <1>1, <2>1
      <4>2. QED
        BY <2>1, <4>1, Slice DEF n
    <3> HIDE DEF w
    <3>2. w = <<s[i + 1]>>
      <4>1. s[i + 1] \in Characters
        BY <2>1, CharacterAt DEF n
      <4>2. <<s[i + 1]>> \in Texts /\ Len(<<s[i + 1]>>) = 1 /\ <<s[i + 1]>>[1] = s[i + 1]
        BY <4>1, Single
      <4>3. QED
        BY <3>1, <4>2, SameSequence DEF Texts
    <3>3. w \in L
      BY <2>2, <3>2 DEF ClassOf, Char
    <3>4. i + 1 \in cuts
      <4>1. s[i + 1] # "%"
        BY <1>3, <2>2
      <4>2. i + 1 >= 2 => s[i + 1 - 1] # "%"
        BY <2>1
      <4>3. QED
        BY <2>1, <4>1, <4>2
    <3>5. i < i + 1
      BY <2>1
    <3>6. QED
      BY <3>3, <3>4, <3>5 DEF w
  <2>3. CASE s[i + 1] = "%" /\ Triple(s, i + 1)
    <3> DEFINE w == SubSeq(s, i + 1, i + 3)
    <3>1. i + 3 <= n /\ s[i + 2] \in HexDigits /\ s[i + 3] \in HexDigits
      <4>1. i + 1 + 1 = i + 2 /\ i + 1 + 2 = i + 3
        BY <2>1
      <4>2. QED
        BY <2>3, <4>1 DEF Triple, n
    <3>2. i + 3 \in i..n /\ i + 3 - i = 3 /\ i + 3 \in 0..n /\ i + 3 - 1 = i + 2 /\ i < i + 3
      BY <1>1, <2>1, <3>1
    <3>3. w \in Texts /\ Len(w) = 3 /\ w[1] = s[i + 1] /\ w[2] = s[i + 2] /\ w[3] = s[i + 3]
      <4>1. 1 \in 1..3 /\ 2 \in 1..3 /\ 3 \in 1..3
        OBVIOUS
      <4>2. QED
        BY <2>1, <3>2, <4>1, Slice DEF n
    <3> HIDE DEF w
    <3>4. w = <<s[i + 1], s[i + 2], s[i + 3]>>
      BY <3>3 DEF Texts
    <3>5. w \in L
      BY <2>3, <3>1, <3>4 DEF ClassOf, PctEncoded
    <3>6. i + 3 \in cuts
      BY <3>1, <3>2, Hex
    <3>7. QED
      BY <3>2, <3>5, <3>6 DEF w
  <2>4. QED
    BY <1>2, <2>1, <2>2, <2>3
<1>7. cuts \in SUBSET (0..n)
  OBVIOUS
<1>8. QED
  <2> HIDE DEF cuts
  <2>1. QED
    BY <1>4, <1>5, <1>6, <1>7 DEF Star, n

LEMMA StarSays ==
    ASSUME NEW L, NEW extra, ClassOf(L, extra), "%" \notin extra, NEW s \in Texts
    PROVE  s \in Star(L) <=> ValidPctClass(s, extra)
  BY StarIsValid, ValidIsStar

\* A port is any number of digits.
LEMMA PortSays ==
    ASSUME NEW s \in Texts
    PROVE  s \in Star(Char({"1"})) <=> ValidPort(s)
<1> DEFINE n == Len(s)
           L == Char({"1"})
<1>1. n \in Nat /\ DOMAIN s = 1..n
  BY Sized
<1> HIDE DEF n
<1>2. ASSUME s \in Star(L), NEW k \in 1..n PROVE s[k] = "1"
  <2>1. PICK i \in 0..n, j \in 0..n : i < k /\ k <= j /\ SubSeq(s, i + 1, j) \in L
    BY <1>2, PieceAt DEF n
  <2>2. i \in 0..n /\ j \in i..n /\ i < k /\ k <= j /\ i \in Nat /\ j \in Nat
    BY <1>1, <2>1
  <2> DEFINE w == SubSeq(s, i + 1, j)
  <2>3. w \in Texts /\ Len(w) = j - i /\ \A l \in 1..j - i : w[l] = s[i + l]
    BY <1>1, <2>2, Slice DEF n
  <2>4. w = <<"1">>
    BY <2>1 DEF Char
  <2> HIDE DEF w
  <2>5. Len(w) = 1 /\ w[1] = "1"
    BY <2>4
  <2>6. k = i + 1 /\ 1 \in 1..j - i
    <3>1. j - i = 1
      BY <2>3, <2>5
    <3>2. QED
      BY <2>2, <3>1
  <2>7. QED
    BY <2>3, <2>5, <2>6
<1>3. ASSUME \A k \in 1..n : s[k] = "1" PROVE s \in Star(L)
  <2> DEFINE cuts == 0..n
  <2>1. ASSUME NEW i \in cuts \ {n} PROVE i + 1 \in cuts /\ i < i + 1 /\ SubSeq(s, i + 1, i + 1) \in L
    <3> DEFINE w == SubSeq(s, i + 1, i + 1)
    <3>1. i \in 0..n /\ i + 1 \in i..n /\ i + 1 \in 1..n /\ i + 1 - i = 1 /\ 1 \in 1..1 /\ i + 1 \in 0..n /\ i < i + 1
      BY <1>1
    <3>2. w \in Texts /\ Len(w) = 1 /\ w[1] = s[i + 1]
      BY <3>1, Slice DEF n
    <3>3. w[1] = "1"
      BY <1>3, <3>1, <3>2
    <3> HIDE DEF w
    <3>4. w = <<"1">>
      BY <3>2, <3>3, Single, SameSequence DEF Texts
    <3>5. QED
      BY <3>1, <3>4 DEF w, Char
  <2>2. {0, n} \subseteq cuts
    BY <1>1
  <2>3. \A i \in cuts \ {n} : \E j \in cuts : i < j /\ SubSeq(s, i + 1, j) \in L
    BY <2>1
  <2> HIDE DEF cuts, L
  <2>4. QED
    <3>1. cuts \in SUBSET (0..n)
      BY DEF cuts
    <3>2. QED
      BY <2>2, <2>3, <3>1 DEF Star, n
<1>4. QED
  BY <1>1, <1>2, <1>3 DEF ValidPort

-----------------------------------------------------------------------------
(* The anatomy of a URL *)

Anatomy ==
    [scheme : Texts, userinfo : Part, host : Texts, port : Part,
     path : Part, query : Part, fragment : Part]

Slashes == <<"/", "/">>
AuthorityOf(a) == Ahead(a.userinfo, "@") \o (a.host \o Behind(a.port, ":"))
TailOf(a) == Behind(a.query, "?") \o Behind(a.fragment, "#")
HierOf(a) == Slashes \o (AuthorityOf(a) \o Behind(a.path, "/"))
BodyOf(a) == a.scheme \o (<<":">> \o HierOf(a))
Whole(a) == BodyOf(a) \o TailOf(a)

\* The components are what the grammar wants.
Sound(a) ==
    /\ ValidScheme(a.scheme) /\ ValidUserinfo(a.userinfo.text) /\ ValidHost(a.host)
    /\ ValidPort(a.port.text) /\ ValidPath(Behind(a.path, "/"))
    /\ ValidQueryOrFragment(a.query.text) /\ ValidQueryOrFragment(a.fragment.text)

\* No delimiter stands in a component in front of it.
Apart(a) ==
    /\ Without(a.scheme, ":")
    /\ Without(a.userinfo.text, "@") /\ Without(a.host, ":")
    /\ ~a.userinfo.has => Without(a.host \o Behind(a.port, ":"), "@")
    /\ Without(AuthorityOf(a), "/")
    /\ Without(BodyOf(a), "?") /\ Without(BodyOf(a), "#") /\ Without(Behind(a.query, "?"), "#")

LEMMA GroupedTexts ==
    ASSUME NEW s \in Texts, NEW t \in Texts, NEW u \in Texts
    PROVE  (s \o t) \o u = s \o (t \o u)
BY Grouped DEF Texts

LEMMA Delimiters == {":", "/", "@", "?", "#", "1"} \subseteq Characters
BY DEF Characters, Unreserved, SubDelims, Letters

LEMMA SlashesAre ==
    Slashes \in Texts /\ Len(Slashes) = 2 /\ Slashes[1] = "/" /\ Slashes[2] = "/"
<1>1. ASSUME NEW D, NEW c \in D PROVE <<c, c>> \in Seq(D)
  OBVIOUS
<1>2. Slashes \in Texts
  BY <1>1, Delimiters DEF Slashes, Texts
<1>3. QED
  BY <1>2 DEF Slashes

LEMMA AnatomyType ==
    ASSUME NEW a \in Anatomy
    PROVE  /\ a.scheme \in Texts /\ a.host \in Texts
           /\ a.userinfo \in Part /\ a.port \in Part /\ a.path \in Part
           /\ a.query \in Part /\ a.fragment \in Part
           /\ Ahead(a.userinfo, "@") \in Texts /\ Behind(a.port, ":") \in Texts
           /\ Behind(a.path, "/") \in Texts
           /\ Behind(a.query, "?") \in Texts /\ Behind(a.fragment, "#") \in Texts
           /\ AuthorityOf(a) \in Texts /\ TailOf(a) \in Texts /\ HierOf(a) \in Texts
           /\ BodyOf(a) \in Texts /\ Whole(a) \in Texts
<1>1. /\ a.scheme \in Texts /\ a.host \in Texts
      /\ a.userinfo \in Part /\ a.port \in Part /\ a.path \in Part
      /\ a.query \in Part /\ a.fragment \in Part
  BY DEF Anatomy
<1>2. /\ Ahead(a.userinfo, "@") \in Texts /\ Behind(a.port, ":") \in Texts
      /\ Behind(a.path, "/") \in Texts
      /\ Behind(a.query, "?") \in Texts /\ Behind(a.fragment, "#") \in Texts
  BY <1>1, PartType, Delimiters
<1>3. AuthorityOf(a) \in Texts /\ TailOf(a) \in Texts
  BY <1>1, <1>2, Joined DEF AuthorityOf, TailOf
<1>4. HierOf(a) \in Texts
  BY <1>2, <1>3, SlashesAre, Joined DEF HierOf
<1>5. BodyOf(a) \in Texts
  <2>1. <<":">> \in Texts
    BY Single, Delimiters
  <2>2. QED
    BY <1>1, <1>4, <2>1, Joined DEF BodyOf
<1>6. Whole(a) \in Texts
  BY <1>3, <1>5, Joined DEF Whole
<1>7. QED
  BY <1>1, <1>2, <1>3, <1>4, <1>5, <1>6

\* What is behind the two slashes, and the other way round.
LEMMA BehindSlashes ==
    ASSUME NEW t \in Texts
    PROVE  LET h == Slashes \o t
           IN  Len(h) >= 2 /\ h[1] = "/" /\ h[2] = "/" /\ SubSeq(h, 3, Len(h)) = t
<1> DEFINE h == Slashes \o t
<1>1. /\ h \in Texts /\ Len(h) = Len(Slashes) + Len(t)
      /\ \A i \in 1..Len(Slashes) : h[i] = Slashes[i]
  BY SlashesAre, Joined
<1>2. Len(t) \in Nat
  BY Sized
<1>3. SubSeq(h, Len(Slashes) + 1, Len(h)) = t
  BY SlashesAre, Parted DEF Texts
<1> HIDE DEF h
<1>4. Len(h) >= 2
  BY <1>1, <1>2, SlashesAre
<1>5. h[1] = "/" /\ h[2] = "/"
  <2>1. 1 \in 1..Len(Slashes) /\ 2 \in 1..Len(Slashes)
    BY SlashesAre
  <2>2. QED
    BY <1>1, <2>1, SlashesAre
<1>6. SubSeq(h, 3, Len(h)) = t
  <2>1. Len(Slashes) + 1 = 3
    BY SlashesAre
  <2>2. QED
    BY <1>3, <2>1
<1>7. QED
  BY <1>4, <1>5, <1>6 DEF h

LEMMA TwoSlashes ==
    ASSUME NEW h \in Texts, Len(h) >= 2, h[1] = "/", h[2] = "/"
    PROVE  SubSeq(h, 3, Len(h)) \in Texts /\ h = Slashes \o SubSeq(h, 3, Len(h))
<1> DEFINE t == SubSeq(h, 3, Len(h))
           u == SubSeq(h, 1, 2)
<1>1. 2 \in 0..Len(h) /\ Len(h) \in Nat
  BY Sized
<1>2. h = u \o t
  <2>1. SubSeq(h, 1, 2) \o SubSeq(h, 2 + 1, Len(h)) = h
    BY <1>1, Rejoined DEF Texts
  <2>2. QED
    BY <2>1
<1>3. t \in Texts
  BY <1>1 DEF Texts
<1>4. u \in Texts /\ Len(u) = 2 /\ u[1] = h[1] /\ u[2] = h[2]
  BY <1>1 DEF Texts
<1> HIDE DEF u
<1>5. u = Slashes
  <2>1. \A i \in 1..2 : i = 1 \/ i = 2
    OBVIOUS
  <2>2. \A i \in 1..Len(u) : u[i] = Slashes[i]
    BY <1>4, <2>1, SlashesAre
  <2>3. QED
    BY <1>4, <2>2, SlashesAre, SameSequence DEF Texts
<1>6. QED
  BY <1>2, <1>3, <1>5

LEMMA AuthoritySplit ==
    ASSUME NEW ui \in Part, NEW host \in Texts, NEW port \in Part,
           Without(ui.text, "@"), Without(host, ":"),
           ~ui.has => Without(host \o Behind(port, ":"), "@")
    PROVE  SplitAuthority(Ahead(ui, "@") \o (host \o Behind(port, ":"))) =
               [userinfo |-> ui, host |-> host, port |-> port]
<1> DEFINE hp == host \o Behind(port, ":")
           s == Ahead(ui, "@") \o hp
<1>1. hp \in Texts
  BY PartType, Delimiters, Joined
<1>2. SplitOff(hp, ":") = [rest |-> host, tail |-> port]
  BY SplitOffJoined, Delimiters
<1> HIDE DEF hp
<1>3. CASE ~ui.has
  <2>1. ui = Absent /\ Ahead(ui, "@") = <<>>
    BY <1>3, PartType, Delimiters
  <2>2. s = hp
    BY <1>1, <2>1, WithEmpty DEF Texts
  <2>3. IndexByte(hp, "@") = 0
    <3>1. Without(hp, "@")
      BY <1>3 DEF hp
    <3>2. QED
      BY <1>1, <3>1, IndexSays DEF Without
  <2>4. SplitAuthority(hp) = [userinfo |-> ui, host |-> host, port |-> port]
    BY <1>2, <2>1, <2>3 DEF SplitAuthority
  <2> HIDE DEF s
  <2>5. QED
    BY <2>2, <2>4 DEF s, hp
<1>4. CASE ui.has
  <2>1. ui = Given(ui.text) /\ ui.text \in Texts
    BY <1>4, PartType, Delimiters
  <2>2. s = ui.text \o (<<"@">> \o hp)
    <3>1. Ahead(ui, "@") = ui.text \o <<"@">> /\ <<"@">> \in Texts
      BY <1>4, Delimiters, Single DEF Ahead
    <3>2. (ui.text \o <<"@">>) \o hp = ui.text \o (<<"@">> \o hp)
      BY <1>1, <2>1, <3>1, GroupedTexts
    <3>3. QED
      BY <3>1, <3>2
  <2>3. /\ IndexByte(s, "@") = Len(ui.text) + 1 /\ Upto(s, Len(ui.text) + 1) = ui.text
        /\ After(s, Len(ui.text) + 1) = hp
    <3> HIDE DEF s
    <3>1. QED
      BY <1>1, <2>1, <2>2, IndexOfJoined, Delimiters
  <2>4. Len(ui.text) + 1 # 0
    BY <2>1, Sized
  <2> HIDE DEF s
  <2>5. SplitAuthority(s) = [userinfo |-> ui, host |-> host, port |-> port]
    BY <1>2, <2>1, <2>3, <2>4 DEF SplitAuthority
  <2>6. QED
    BY <2>5 DEF s, hp
<1>5. QED
  BY <1>3, <1>4, PartType, Delimiters

-----------------------------------------------------------------------------
(* The parser takes a URL apart *)

LEMMA AuthorityGives ==
    ASSUME NEW t \in Texts
    PROVE  LET p == SplitAuthority(t)
           IN  /\ p.userinfo \in Part /\ p.host \in Texts /\ p.port \in Part
               /\ t = Ahead(p.userinfo, "@") \o (p.host \o Behind(p.port, ":"))
<1> DEFINE i == IndexByte(t, "@")
           hp == IF i = 0 THEN t ELSE After(t, i)
           ui == IF i = 0 THEN Absent ELSE Given(Upto(t, i))
           split == SplitOff(hp, ":")
<1>1. hp \in Texts /\ ui \in Part /\ t = Ahead(ui, "@") \o hp
  <2>1. CASE i = 0
    <3>1. hp = t /\ ui = Absent /\ Absent \in Part
      BY <2>1 DEF Part
    <3>2. Ahead(Absent, "@") = <<>>
      BY DEF Ahead, Absent
    <3>3. QED
      BY <3>1, <3>2, WithEmpty DEF Texts
  <2>2. CASE i # 0
    <3>1. i \in DOMAIN t /\ t[i] = "@" /\ \A j \in DOMAIN t : t[j] = "@" => i <= j
      BY <2>2, IndexSays
    <3>2. hp = After(t, i) /\ ui = Given(Upto(t, i))
      BY <2>2
    <3> HIDE DEF i, hp, ui
    <3>3. /\ Upto(t, i) \in Texts /\ After(t, i) \in Texts
          /\ t = Upto(t, i) \o (<<"@">> \o After(t, i))
      BY <3>1, CutAt, Delimiters
    <3>4. ui \in Part /\ Ahead(ui, "@") = Upto(t, i) \o <<"@">>
      BY <3>2, <3>3 DEF Part, Ahead, Given
    <3>5. <<"@">> \in Texts
      BY Single, Delimiters
    <3>6. (Upto(t, i) \o <<"@">>) \o After(t, i) = Upto(t, i) \o (<<"@">> \o After(t, i))
      BY <3>3, <3>5, GroupedTexts
    <3>7. QED
      BY <3>2, <3>3, <3>4, <3>6
  <2>3. QED
    BY <2>1, <2>2
<1>2. SplitAuthority(t) = [userinfo |-> ui, host |-> split.rest, port |-> split.tail]
  BY DEF SplitAuthority
<1> HIDE DEF hp, ui
<1>3. split.rest \in Texts /\ split.tail \in Part /\ hp = split.rest \o Behind(split.tail, ":")
  BY <1>1, SplitOffGives, Delimiters
<1> HIDE DEF split
<1> DEFINE p == SplitAuthority(t)
<1>4. p.userinfo = ui /\ p.host = split.rest /\ p.port = split.tail
  BY <1>2
<1> HIDE DEF p
<1>5. t = Ahead(p.userinfo, "@") \o (p.host \o Behind(p.port, ":"))
  BY <1>1, <1>3, <1>4
<1>6. p.userinfo \in Part /\ p.host \in Texts /\ p.port \in Part
  BY <1>1, <1>3, <1>4
<1>7. QED
  BY <1>5, <1>6 DEF p

\* The authority ends at the first slash, the path begins there.
LEMMA PathSplit ==
    ASSUME NEW r \in Texts
    PROVE  LET slash == IndexByte(r, "/")
           IN  /\ (IF slash = 0 THEN r ELSE Upto(r, slash)) = SplitOff(r, "/").rest
               /\ (IF slash = 0 THEN <<>> ELSE SubSeq(r, slash, Len(r))) = Behind(SplitOff(r, "/").tail, "/")
<1> DEFINE i == IndexByte(r, "/")
<1>1. CASE i = 0
  <2>1. SplitOff(r, "/") = [rest |-> r, tail |-> Absent]
    BY <1>1 DEF SplitOff
  <2>2. Behind(Absent, "/") = <<>>
    BY DEF Behind, Absent
  <2>3. QED
    BY <1>1, <2>1, <2>2
<1>2. CASE i # 0
  <2>1. SplitOff(r, "/") = [rest |-> Upto(r, i), tail |-> Given(After(r, i))]
    BY <1>2 DEF SplitOff
  <2>2. i \in DOMAIN r /\ r[i] = "/" /\ \A j \in DOMAIN r : r[j] = "/" => i <= j
    BY <1>2, IndexSays
  <2> HIDE DEF i
  <2>3. SubSeq(r, i, Len(r)) = <<"/">> \o After(r, i)
    BY <2>2, CutAt, Delimiters
  <2>4. Behind(Given(After(r, i)), "/") = <<"/">> \o After(r, i)
    BY DEF Behind, Given
  <2> DEFINE p == SplitOff(r, "/")
  <2>5. p.rest = Upto(r, i) /\ p.tail = Given(After(r, i))
    BY <2>1
  <2> HIDE DEF p
  <2>6. /\ (IF i = 0 THEN r ELSE Upto(r, i)) = p.rest
        /\ (IF i = 0 THEN <<>> ELSE SubSeq(r, i, Len(r))) = Behind(p.tail, "/")
    BY <1>2, <2>3, <2>4, <2>5
  <2>7. QED
    BY <2>6 DEF i, p
<1>3. QED
  BY <1>1, <1>2

\* What the parser makes of the pieces it cuts a text into.
Parsed(a) ==
    IF Sound(a)
    THEN [ok |-> TRUE,
          url |-> [scheme |-> ToLower(a.scheme), userinfo |-> a.userinfo, host |-> a.host,
                   port |-> a.port, path |-> Behind(a.path, "/"),
                   query |-> a.query, fragment |-> a.fragment]]
    ELSE [ok |-> FALSE, url |-> <<>>]

LEMMA ParseOfPieces ==
    ASSUME NEW s, NEW body, NEW hier, NEW t, NEW auth, NEW a \in Anatomy,
           SplitTail(s) = [rest |-> body, query |-> a.query, fragment |-> a.fragment],
           IndexByte(body, ":") > 0,
           Upto(body, IndexByte(body, ":")) = a.scheme, After(body, IndexByte(body, ":")) = hier,
           Len(hier) >= 2, hier[1] = "/", hier[2] = "/", SubSeq(hier, 3, Len(hier)) = t,
           t \in Texts,
           SplitOff(t, "/") = [rest |-> auth, tail |-> a.path],
           SplitAuthority(auth) = [userinfo |-> a.userinfo, host |-> a.host, port |-> a.port]
    PROVE  ParseURL(s) = Parsed(a)
<1> DEFINE tail == SplitTail(s)
           colon == IndexByte(tail.rest, ":")
           h == After(tail.rest, colon)
           rest == SubSeq(h, 3, Len(h))
           slash == IndexByte(rest, "/")
           au == SplitAuthority(IF slash = 0 THEN rest ELSE Upto(rest, slash))
           path == IF slash = 0 THEN <<>> ELSE SubSeq(rest, slash, Len(rest))
<1>1. tail.rest = body /\ tail.query = a.query /\ tail.fragment = a.fragment
  OBVIOUS
<1>2. h = hier /\ rest = t /\ Upto(tail.rest, colon) = a.scheme /\ colon > 0
  BY <1>1
<1>3. /\ (IF slash = 0 THEN rest ELSE Upto(rest, slash)) = auth
      /\ path = Behind(a.path, "/")
  <2> HIDE DEF h, rest
  <2>1. QED
    BY <1>2, PathSplit
<1>4. au.userinfo = a.userinfo /\ au.host = a.host /\ au.port = a.port
  <2> HIDE DEF rest, slash
  <2>1. QED
    BY <1>3
<1>5. ParseURL(s) =
        IF /\ colon > 0 /\ ValidScheme(Upto(tail.rest, colon))
           /\ (Len(h) >= 2 /\ h[1] = "/" /\ h[2] = "/") /\ ValidPath(path)
           /\ ValidQueryOrFragment(tail.query.text) /\ ValidQueryOrFragment(tail.fragment.text)
           /\ ValidUserinfo(au.userinfo.text) /\ ValidHost(au.host) /\ ValidPort(au.port.text)
        THEN [ok |-> TRUE,
              url |-> [scheme |-> ToLower(Upto(tail.rest, colon)), userinfo |-> au.userinfo, host |-> au.host,
                       port |-> au.port, path |-> path,
                       query |-> tail.query, fragment |-> tail.fragment]]
        ELSE [ok |-> FALSE, url |-> <<>>]
  BY DEF ParseURL
<1> HIDE DEF tail, colon, h, rest, slash, au, path
<1>6. QED
  BY <1>1, <1>2, <1>3, <1>4, <1>5 DEF Sound, Parsed

\* A URL put together from components without delimiters is parsed into them.
LEMMA ParseOfWhole ==
    ASSUME NEW a \in Anatomy, Apart(a)
    PROVE  ParseURL(Whole(a)) = Parsed(a)
<1> DEFINE s == Whole(a)
           body == BodyOf(a)
           hier == HierOf(a)
           auth == AuthorityOf(a)
           t == auth \o Behind(a.path, "/")
           q == Behind(a.query, "?")
           f == Behind(a.fragment, "#")
<1>1. body \in Texts /\ hier \in Texts /\ auth \in Texts /\ q \in Texts /\ f \in Texts
      /\ a.scheme \in Texts /\ a.query \in Part /\ a.fragment \in Part /\ a.path \in Part
  BY AnatomyType
<1>2. SplitTail(s) = [rest |-> body, query |-> a.query, fragment |-> a.fragment]
  <2>1. s = (body \o q) \o f
    <3>1. s = body \o (q \o f)
      BY DEF Whole, TailOf
    <3>2. (body \o q) \o f = body \o (q \o f)
      <4>1. body \in Texts /\ q \in Texts /\ f \in Texts
        BY <1>1
      <4> HIDE DEF s, body, q, f, hier, auth, t
      <4>2. QED
        BY <4>1, GroupedTexts, Zenon
    <3> HIDE DEF s, body, q, f
    <3>3. QED
      BY <3>1, <3>2
  <2>2. body \o q \in Texts /\ Without(body \o q, "#")
    <3>1. Without(body, "#") /\ Without(q, "#")
      BY DEF Apart
    <3> HIDE DEF body, q
    <3>2. QED
      BY <1>1, <3>1, WithoutJoined, Joined
  <2>3. Without(body, "?")
    BY DEF Apart
  <2> HIDE DEF s, body
  <2>4. SplitOff(s, "#") = [rest |-> body \o q, tail |-> a.fragment]
    <3>1. "#" \in Characters
      BY Delimiters
    <3> HIDE DEF q
    <3>2. SplitOff((body \o q) \o Behind(a.fragment, "#"), "#") = [rest |-> body \o q, tail |-> a.fragment]
      BY <1>1, <2>2, <3>1, SplitOffJoined
    <3>3. QED
      BY <2>1, <3>2
  <2>5. SplitOff(body \o q, "?") = [rest |-> body, tail |-> a.query]
    BY <1>1, <2>3, SplitOffJoined, Delimiters
  <2> HIDE DEF q, f
  <2>6. SplitOff(s, "#").rest = body \o q /\ SplitOff(s, "#").tail = a.fragment
    BY <2>4
  <2>7. SplitOff(body \o q, "?").rest = body /\ SplitOff(body \o q, "?").tail = a.query
    BY <2>5
  <2>8. SplitTail(s) = [rest |-> SplitOff(SplitOff(s, "#").rest, "?").rest,
                        query |-> SplitOff(SplitOff(s, "#").rest, "?").tail,
                        fragment |-> SplitOff(s, "#").tail]
    BY DEF SplitTail
  <2>9. QED
    BY <2>6, <2>7, <2>8
<1>3. /\ IndexByte(body, ":") = Len(a.scheme) + 1
      /\ Upto(body, IndexByte(body, ":")) = a.scheme /\ After(body, IndexByte(body, ":")) = hier
  <2>1. body = a.scheme \o (<<":">> \o hier) /\ Without(a.scheme, ":")
    BY DEF BodyOf, Apart
  <2> HIDE DEF body, hier
  <2>2. ":" \in Characters
    BY Delimiters
  <2>3. QED
    BY <1>1, <2>1, <2>2, IndexOfJoined
<1>4. t \in Texts
  BY <1>1, AnatomyType, Joined
<1>5. Len(hier) >= 2 /\ hier[1] = "/" /\ hier[2] = "/" /\ SubSeq(hier, 3, Len(hier)) = t
  <2>1. hier = Slashes \o t
    BY DEF HierOf
  <2> HIDE DEF hier, t
  <2>2. QED
    BY <1>4, <2>1, BehindSlashes
<1>6. SplitOff(t, "/") = [rest |-> auth, tail |-> a.path]
  <2>1. Without(auth, "/")
    BY DEF Apart
  <2> HIDE DEF auth
  <2>2. QED
    BY <1>1, <2>1, SplitOffJoined, Delimiters
<1>7. SplitAuthority(auth) = [userinfo |-> a.userinfo, host |-> a.host, port |-> a.port]
  BY AnatomyType, AuthoritySplit DEF AuthorityOf, Apart
<1>8. IndexByte(body, ":") > 0
  <2>1. Len(a.scheme) \in Nat
    BY <1>1, Sized
  <2> HIDE DEF body
  <2>2. QED
    BY <1>3, <2>1
<1> HIDE DEF s, body, hier, auth, t
<1>9. ParseURL(s) = Parsed(a)
  BY <1>2, <1>3, <1>4, <1>5, <1>6, <1>7, <1>8, ParseOfPieces
<1>10. QED
  BY <1>9 DEF s

\* A text that is parsed is put together from sound components.
LEMMA ParsedIsWhole ==
    ASSUME NEW s \in Texts, ParseURL(s).ok
    PROVE  \E a \in Anatomy : Sound(a) /\ s = Whole(a)
<1> DEFINE fr == SplitOff(s, "#")
           qu == SplitOff(fr.rest, "?")
           body == qu.rest
           colon == IndexByte(body, ":")
           hier == After(body, colon)
           t == SubSeq(hier, 3, Len(hier))
           pa == SplitOff(t, "/")
           au == SplitAuthority(pa.rest)
           a == [scheme |-> Upto(body, colon), userinfo |-> au.userinfo, host |-> au.host,
                 port |-> au.port, path |-> pa.tail, query |-> qu.tail, fragment |-> fr.tail]
<1>1. fr.rest \in Texts /\ fr.tail \in Part /\ s = fr.rest \o Behind(fr.tail, "#")
  BY SplitOffGives, Delimiters
<1>2. qu.rest \in Texts /\ qu.tail \in Part /\ fr.rest = qu.rest \o Behind(qu.tail, "?")
  <2> HIDE DEF fr
  <2>1. QED
    BY <1>1, SplitOffGives, Delimiters
<1>3. SplitTail(s) = [rest |-> body, query |-> qu.tail, fragment |-> fr.tail]
  BY DEF SplitTail
<1>4. colon > 0 /\ Len(hier) >= 2 /\ hier[1] = "/" /\ hier[2] = "/"
  <2> HIDE DEF fr, qu
  <2>1. colon > 0 /\ (Len(hier) >= 2 /\ hier[1] = "/" /\ hier[2] = "/")
    BY <1>3 DEF ParseURL
  <2>2. QED
    BY <2>1
<1> HIDE DEF fr, qu
<1>5. Upto(body, colon) \in Texts /\ hier \in Texts /\ body = Upto(body, colon) \o (<<":">> \o hier)
  <2>1. colon \in DOMAIN body /\ body[colon] = ":" /\ \A j \in DOMAIN body : body[j] = ":" => colon <= j
    <3>1. colon # 0
      BY <1>4
    <3>2. QED
      BY <1>2, <3>1, IndexSays
  <2>2. body \in Texts /\ ":" \in Characters
    BY <1>2, Delimiters
  <2> HIDE DEF colon, body
  <2>3. QED
    BY <2>1, <2>2, CutAt
<1> HIDE DEF body, colon
<1>6. t \in Texts /\ hier = Slashes \o t
  <2> HIDE DEF hier
  <2>1. QED
    BY <1>4, <1>5, TwoSlashes
<1> HIDE DEF t
<1>7. pa.rest \in Texts /\ pa.tail \in Part /\ t = pa.rest \o Behind(pa.tail, "/")
  BY <1>6, SplitOffGives, Delimiters
<1> HIDE DEF pa
<1>8. /\ au.userinfo \in Part /\ au.host \in Texts /\ au.port \in Part
      /\ pa.rest = Ahead(au.userinfo, "@") \o (au.host \o Behind(au.port, ":"))
  BY <1>7, AuthorityGives
<1> HIDE DEF au, hier
<1>9. a \in Anatomy
  BY <1>1, <1>2, <1>5, <1>7, <1>8 DEF Anatomy
<1>10. s = Whole(a)
  <2>1. AuthorityOf(a) = pa.rest
    BY <1>8 DEF AuthorityOf
  <2>2. HierOf(a) = hier
    BY <1>6, <1>7, <2>1 DEF HierOf
  <2>3. BodyOf(a) = body
    BY <1>5, <2>2 DEF BodyOf
  <2>4. TailOf(a) = Behind(qu.tail, "?") \o Behind(fr.tail, "#")
    BY DEF TailOf
  <2>5. Behind(qu.tail, "?") \in Texts /\ Behind(fr.tail, "#") \in Texts /\ body \in Texts
    BY <1>1, <1>2, PartType, Delimiters DEF body
  <2>6. s = (body \o Behind(qu.tail, "?")) \o Behind(fr.tail, "#")
    BY <1>1, <1>2 DEF body
  <2>7. s = body \o (Behind(qu.tail, "?") \o Behind(fr.tail, "#"))
    BY <2>5, <2>6, GroupedTexts
  <2> HIDE DEF a
  <2>8. QED
    BY <2>3, <2>4, <2>7, ZenonT(30) DEF Whole
<1>11. ParseURL(s) = Parsed(a)
  <2>1. /\ a.query = qu.tail /\ a.fragment = fr.tail /\ a.scheme = Upto(body, colon) /\ a.path = pa.tail
        /\ a.userinfo = au.userinfo /\ a.host = au.host /\ a.port = au.port
    OBVIOUS
  <2> HIDE DEF a
  <2>2. SplitTail(s) = [rest |-> body, query |-> a.query, fragment |-> a.fragment]
    BY <1>3, <2>1 DEF body
  <2>3. /\ IndexByte(body, ":") > 0 /\ Upto(body, IndexByte(body, ":")) = a.scheme
        /\ After(body, IndexByte(body, ":")) = hier /\ SubSeq(hier, 3, Len(hier)) = t
    BY <1>4, <2>1 DEF colon, hier, t
  <2>4. SplitOff(t, "/") = [rest |-> pa.rest, tail |-> a.path]
    BY <2>1 DEF pa, SplitOff
  <2>5. SplitAuthority(pa.rest) = [userinfo |-> a.userinfo, host |-> a.host, port |-> a.port]
    BY <2>1 DEF au, SplitAuthority
  <2>6. QED
    BY <1>4, <1>6, <1>9, <2>2, <2>3, <2>4, <2>5, ParseOfPieces
<1>12. Sound(a)
  <2> HIDE DEF a
  <2>1. QED
    BY <1>11 DEF Parsed
<1>13. QED
  <2> HIDE DEF a
  <2>1. QED
    BY <1>9, <1>10, <1>12

-----------------------------------------------------------------------------
(* Sound components hold no delimiter of what follows them *)

LEMMA ClassWithout ==
    ASSUME NEW s, NEW extra, NEW c, ValidPctClass(s, extra), c \notin Reg(extra), c # "%"
    PROVE  Without(s, c)
BY ClassSays DEF Without

LEMMA BehindWithout ==
    ASSUME NEW p \in Part, NEW c \in Characters, NEW d, Without(p.text, d), c # d
    PROVE  Without(Behind(p, c), d) /\ Without(Ahead(p, c), d)
<1>1. CASE ~p.has
  <2>1. Behind(p, c) = <<>> /\ Ahead(p, c) = <<>>
    BY <1>1, PartType
  <2>2. Without(<<>>, d)
    BY DEF Without
  <2>3. QED
    BY <2>1, <2>2
<1>2. CASE p.has
  <2>1. Behind(p, c) = <<c>> \o p.text /\ Ahead(p, c) = p.text \o <<c>> /\ p.text \in Texts
    BY <1>2, PartType DEF Behind, Ahead
  <2>2. <<c>> \in Texts /\ Without(<<c>>, d)
    <3>1. DOMAIN <<c>> = {1} /\ <<c>>[1] = c
      OBVIOUS
    <3>2. QED
      BY <3>1, Single DEF Without
  <2>3. QED
    BY <2>1, <2>2, WithoutJoined
<1>3. QED
  BY <1>1, <1>2

LEMMA SlashesWithout == ASSUME NEW d, d # "/" PROVE Without(Slashes, d)
<1>1. DOMAIN Slashes = 1..2
  BY SlashesAre, Sized
<1>2. \A i \in 1..2 : i = 1 \/ i = 2
  OBVIOUS
<1>3. QED
  BY <1>1, <1>2, SlashesAre DEF Without

LEMMA SoundApart == ASSUME NEW a \in Anatomy, Sound(a) PROVE Apart(a)
<1>1. /\ a.scheme \in Texts /\ a.host \in Texts /\ a.userinfo \in Part /\ a.port \in Part
      /\ a.query \in Part /\ a.path \in Part
      /\ Ahead(a.userinfo, "@") \in Texts /\ Behind(a.port, ":") \in Texts
      /\ Behind(a.path, "/") \in Texts /\ AuthorityOf(a) \in Texts /\ HierOf(a) \in Texts
  BY AnatomyType
<1>2. \A d \in {":", "/", "@", "?", "#"} : Without(a.scheme, d)
  BY DEF Sound, ValidScheme, Without, Letters
<1>3. \A d \in {"/", "@", "?", "#"} : Without(a.userinfo.text, d)
  <2>1. ASSUME NEW d \in {"/", "@", "?", "#"} PROVE d \notin Reg({":"}) /\ d # "%"
    BY <2>1 DEF Reg, Unreserved, SubDelims, Letters
  <2>2. QED
    BY <2>1, ClassWithout DEF Sound, ValidUserinfo
<1>4. \A d \in {":", "/", "@", "?", "#"} : Without(a.host, d)
  <2>1. ASSUME NEW d \in {":", "/", "@", "?", "#"} PROVE d \notin Reg({}) /\ d # "%"
    BY <2>1 DEF Reg, Unreserved, SubDelims, Letters
  <2>2. QED
    BY <2>1, ClassWithout DEF Sound, ValidHost
<1>5. \A d \in {":", "/", "@", "?", "#"} : Without(a.port.text, d)
  BY DEF Sound, ValidPort, Without
<1>6. \A d \in {"?", "#"} : Without(Behind(a.path, "/"), d)
  <2>1. ASSUME NEW d \in {"?", "#"} PROVE d \notin Reg({"/", ":", "@"}) /\ d # "%"
    BY <2>1 DEF Reg, Unreserved, SubDelims, Letters
  <2>2. QED
    BY <2>1, ClassWithout DEF Sound, ValidPath
<1>7. Without(Behind(a.query, "?"), "#")
  <2>1. "#" \notin Reg({"/", ":", "@", "?"})
    BY DEF Reg, Unreserved, SubDelims, Letters
  <2>2. Without(a.query.text, "#")
    BY <2>1, ClassWithout DEF Sound, ValidQueryOrFragment
  <2>3. QED
    BY <1>1, <2>2, BehindWithout, Delimiters
<1>8. \A d \in {"/", "@", "?", "#"} : Without(a.host \o Behind(a.port, ":"), d)
  <2> TAKE d \in {"/", "@", "?", "#"}
  <2>1. d # ":" /\ Without(a.host, d) /\ Without(a.port.text, d)
    BY <1>4, <1>5
  <2>2. Without(Behind(a.port, ":"), d)
    BY <1>1, <2>1, BehindWithout, Delimiters
  <2>3. QED
    BY <1>1, <2>1, <2>2, WithoutJoined
<1>9. \A d \in {"/", "?", "#"} : Without(AuthorityOf(a), d)
  <2> TAKE d \in {"/", "?", "#"}
  <2>1. d # "@" /\ Without(a.userinfo.text, d) /\ Without(a.host \o Behind(a.port, ":"), d)
    BY <1>3, <1>8
  <2>2. Without(Ahead(a.userinfo, "@"), d)
    BY <1>1, <2>1, BehindWithout, Delimiters
  <2>3. a.host \o Behind(a.port, ":") \in Texts
    BY <1>1, Joined
  <2>4. QED
    BY <1>1, <2>1, <2>2, <2>3, WithoutJoined DEF AuthorityOf
<1>10. \A d \in {"?", "#"} : Without(BodyOf(a), d)
  <2> TAKE d \in {"?", "#"}
  <2>1. /\ d # ":" /\ d # "/" /\ Without(a.scheme, d) /\ Without(AuthorityOf(a), d)
        /\ Without(Behind(a.path, "/"), d)
    BY <1>2, <1>6, <1>9
  <2>2. AuthorityOf(a) \o Behind(a.path, "/") \in Texts /\ Without(AuthorityOf(a) \o Behind(a.path, "/"), d)
    BY <1>1, <2>1, WithoutJoined, Joined
  <2>3. Without(HierOf(a), d)
    BY <2>1, <2>2, SlashesWithout, SlashesAre, WithoutJoined DEF HierOf
  <2>4. <<":">> \in Texts /\ Without(<<":">>, d)
    <3>1. DOMAIN <<":">> = {1} /\ <<":">>[1] = ":"
      OBVIOUS
    <3>2. QED
      BY <2>1, <3>1, Single, Delimiters DEF Without
  <2>5. <<":">> \o HierOf(a) \in Texts /\ Without(<<":">> \o HierOf(a), d)
    BY <1>1, <2>3, <2>4, WithoutJoined, Joined
  <2>6. QED
    BY <1>1, <2>1, <2>5, WithoutJoined DEF BodyOf
<1>11. QED
  BY <1>2, <1>3, <1>4, <1>7, <1>8, <1>9, <1>10 DEF Apart

-----------------------------------------------------------------------------
(* The grammar derives what is put together from sound components *)

\* One more character in front that needs no other.
LEMMA ClassInFront ==
    ASSUME NEW t \in Texts, NEW extra, NEW c \in Reg(extra), c \in Characters
    PROVE  ValidPctClass(<<c>> \o t, extra) <=> ValidPctClass(t, extra)
<1> DEFINE x == <<c>> \o t
<1>1. x \in Texts /\ Len(x) = 1 + Len(t) /\ x[1] = c /\ \A k \in 1..Len(t) : x[1 + k] = t[k]
  BY InFront
<1>2. Len(t) \in Nat /\ DOMAIN t = 1..Len(t) /\ DOMAIN x = 1..Len(x)
  BY <1>1, Sized
<1> HIDE DEF x
<1>3. ASSUME NEW k \in 1..Len(t) PROVE x[1 + k] = t[k] /\ (Triple(x, 1 + k) <=> Triple(t, k))
  <2>1. 1 + k + 2 <= Len(x) <=> k + 2 <= Len(t)
    BY <1>1, <1>2
  <2>2. k + 2 <= Len(t) => x[1 + k + 1] = t[k + 1] /\ x[1 + k + 2] = t[k + 2]
    <3>1. k + 2 <= Len(t) => k + 1 \in 1..Len(t) /\ k + 2 \in 1..Len(t)
      BY <1>2
    <3>2. 1 + k + 1 = 1 + (k + 1) /\ 1 + k + 2 = 1 + (k + 2)
      OBVIOUS
    <3>3. QED
      BY <1>1, <3>1, <3>2
  <2>3. QED
    BY <1>1, <2>1, <2>2 DEF Triple
<1>4. ASSUME ValidPctClass(x, extra), NEW k \in 1..Len(t)
      PROVE  t[k] \in Reg(extra) \/ (t[k] = "%" /\ Triple(t, k))
  <2>1. 1 + k \in 1..Len(x)
    BY <1>1, <1>2
  <2>2. x[1 + k] \in Reg(extra) \/ (x[1 + k] = "%" /\ Triple(x, 1 + k))
    BY <1>2, <1>4, <2>1, ClassSays
  <2>3. QED
    BY <1>3, <2>2
<1>5. ASSUME ValidPctClass(t, extra), NEW i \in 1..Len(x)
      PROVE  x[i] \in Reg(extra) \/ (x[i] = "%" /\ Triple(x, i))
  <2>1. CASE i = 1
    BY <1>1, <2>1
  <2>2. CASE i # 1
    <3>1. i - 1 \in 1..Len(t) /\ 1 + (i - 1) = i
      BY <1>1, <1>2, <2>2
    <3>2. t[i - 1] \in Reg(extra) \/ (t[i - 1] = "%" /\ Triple(t, i - 1))
      BY <1>2, <1>5, <3>1, ClassSays
    <3>3. x[1 + (i - 1)] = t[i - 1] /\ (Triple(x, 1 + (i - 1)) <=> Triple(t, i - 1))
      BY <1>3, <3>1
    <3>4. QED
      BY <3>1, <3>2, <3>3
  <2>3. QED
    BY <2>1, <2>2
<1>6. QED
  BY <1>2, <1>4, <1>5, ClassSays DEF x

LEMMA EmptyIsValid ==
    /\ \A extra : ValidPctClass(<<>>, extra)
    /\ ValidPort(<<>>)
BY DEF ValidPctClass, ValidPort

\* A component with its delimiter, or none.
LEMMA OptBehind ==
    ASSUME NEW M, NEW c \in Characters, NEW t \in Texts
    PROVE  t \in Opt(Cat(Char({c}), M)) <=> \E p \in Part : t = Behind(p, c) /\ (p.has => p.text \in M)
<1>1. ASSUME t \in Opt(Cat(Char({c}), M))
      PROVE  \E p \in Part : t = Behind(p, c) /\ (p.has => p.text \in M)
  <2>1. CASE t = <<>>
    <3>1. Absent \in Part /\ Behind(Absent, c) = <<>> /\ ~Absent.has
      BY DEF Part, Behind, Absent
    <3>2. QED
      BY <2>1, <3>1
  <2>2. CASE t \in Cat(Char({c}), M)
    <3>1. PICK u \in Texts, v \in Texts : u \in Char({c}) /\ v \in M /\ t = u \o v
      BY <2>2, CatSays
    <3>2. u = <<c>>
      BY <3>1 DEF Char
    <3>3. Given(v) \in Part /\ Behind(Given(v), c) = <<c>> \o v /\ Given(v).text = v
      BY <3>1 DEF Part, Behind, Given
    <3>4. QED
      BY <3>1, <3>2, <3>3
  <2>3. QED
    BY <1>1, <2>1, <2>2 DEF Opt
<1>2. ASSUME NEW p \in Part, t = Behind(p, c), p.has => p.text \in M
      PROVE  t \in Opt(Cat(Char({c}), M))
  <2>1. CASE ~p.has
    BY <1>2, <2>1 DEF Behind, Opt
  <2>2. CASE p.has
    <3>1. t = <<c>> \o p.text /\ p.text \in M /\ p.text \in Texts
      BY <1>2, <2>2, PartType DEF Behind
    <3>2. <<c>> \in Texts /\ <<c>> \in Char({c})
      BY Single DEF Char
    <3>3. t \in Cat(Char({c}), M)
      BY <3>1, <3>2, CatSays
    <3>4. QED
      BY <3>3 DEF Opt
  <2>3. QED
    BY <2>1, <2>2
<1>3. QED
  BY <1>1, <1>2

LEMMA OptAhead ==
    ASSUME NEW M, NEW c \in Characters, NEW t \in Texts
    PROVE  t \in Opt(Cat(M, Char({c}))) <=> \E p \in Part : t = Ahead(p, c) /\ (p.has => p.text \in M)
<1>1. ASSUME t \in Opt(Cat(M, Char({c})))
      PROVE  \E p \in Part : t = Ahead(p, c) /\ (p.has => p.text \in M)
  <2>1. CASE t = <<>>
    <3>1. Absent \in Part /\ Ahead(Absent, c) = <<>> /\ ~Absent.has
      BY DEF Part, Ahead, Absent
    <3>2. QED
      BY <2>1, <3>1
  <2>2. CASE t \in Cat(M, Char({c}))
    <3>1. PICK u \in Texts, v \in Texts : u \in M /\ v \in Char({c}) /\ t = u \o v
      BY <2>2, CatSays
    <3>2. v = <<c>>
      BY <3>1 DEF Char
    <3>3. Given(u) \in Part /\ Ahead(Given(u), c) = u \o <<c>> /\ Given(u).text = u
      BY <3>1 DEF Part, Ahead, Given
    <3>4. QED
      BY <3>1, <3>2, <3>3
  <2>3. QED
    BY <1>1, <2>1, <2>2 DEF Opt
<1>2. ASSUME NEW p \in Part, t = Ahead(p, c), p.has => p.text \in M
      PROVE  t \in Opt(Cat(M, Char({c})))
  <2>1. CASE ~p.has
    BY <1>2, <2>1 DEF Ahead, Opt
  <2>2. CASE p.has
    <3>1. t = p.text \o <<c>> /\ p.text \in M /\ p.text \in Texts
      BY <1>2, <2>2, PartType DEF Ahead
    <3>2. <<c>> \in Texts /\ <<c>> \in Char({c})
      BY Single DEF Char
    <3>3. t \in Cat(M, Char({c}))
      BY <3>1, <3>2, CatSays
    <3>4. QED
      BY <3>3 DEF Opt
  <2>3. QED
    BY <2>1, <2>2
<1>3. QED
  BY <1>1, <1>2

-----------------------------------------------------------------------------
(* What the grammar derives is put together so *)

LEMMA CatSplit ==
    \A L, M : \A w \in Texts :
        w \in Cat(L, M) => \E u \in Texts, v \in Texts : u \in L /\ v \in M /\ w = u \o v
<1> SUFFICES ASSUME NEW L, NEW M, NEW w \in Texts, w \in Cat(L, M)
             PROVE  \E u \in Texts, v \in Texts : u \in L /\ v \in M /\ w = u \o v
  OBVIOUS
<1> QED
  BY CatSays

LEMMA CharSays == ASSUME NEW C, NEW w PROVE w \in Char(C) <=> \E c \in C : w = <<c>>
BY DEF Char

LEMMA CharJoined == ASSUME NEW A, NEW B, NEW w PROVE w \in Char(A) \/ w \in Char(B) <=> w \in Char(A \cup B)
BY DEF Char

LEMMA Classes ==
    /\ ClassOf(RegChar \cup Char({":"}), {":"})
    /\ ClassOf(RegChar, {})
    /\ ClassOf(PChar \cup Char({"/"}), {"/", ":", "@"})
    /\ ClassOf(PChar \cup Char({"/", "?"}), {"/", ":", "@", "?"})
<1> DEFINE U == Unreserved \cup SubDelims
<1>1. ASSUME NEW A PROVE ClassOf(RegChar \cup Char(A), A)
  <2>1. ASSUME NEW w PROVE w \in Char(U) \/ w \in Char(A) <=> w \in Char(Reg(A))
    <3>1. U \cup A = Reg(A)
      BY DEF Reg
    <3> HIDE DEF U
    <3>2. w \in Char(U) \/ w \in Char(A) <=> w \in Char(U \cup A)
      BY CharJoined
    <3>3. QED
      BY <3>1, <3>2
  <2>2. QED
    BY <2>1, Zenon DEF ClassOf, RegChar
<1>2. Char({}) = {}
  BY DEF Char
<1>3. RegChar = RegChar \cup Char({})
  BY <1>2
<1>4. ASSUME NEW A, NEW B PROVE Char(A) \cup Char(B) = Char(A \cup B)
  BY CharJoined
<1>5. PChar \cup Char({"/"}) = RegChar \cup Char({"/", ":", "@"})
  <2>1. {"/", ":", "@"} = {":", "@"} \cup {"/"}
    OBVIOUS
  <2>2. Char({"/", ":", "@"}) = Char({":", "@"}) \cup Char({"/"})
    BY <1>4, <2>1
  <2>3. QED
    BY <2>2 DEF PChar
<1>6. PChar \cup Char({"/", "?"}) = RegChar \cup Char({"/", ":", "@", "?"})
  <2>1. {"/", ":", "@", "?"} = {":", "@"} \cup {"/", "?"}
    OBVIOUS
  <2>2. Char({"/", ":", "@", "?"}) = Char({":", "@"}) \cup Char({"/", "?"})
    BY <1>4, <2>1
  <2>3. QED
    BY <2>2 DEF PChar
<1>7. ClassOf(RegChar \cup Char({}), {})
  BY <1>1
<1>8. QED
  BY <1>1, <1>3, <1>5, <1>6, <1>7

\* The components of the grammar are the valid ones.
LEMMA ComponentsSay ==
    ASSUME NEW t \in Texts
    PROVE  /\ t \in Star(RegChar \cup Char({":"})) <=> ValidUserinfo(t)
           /\ t \in Star(RegChar) \ {<<>>} <=> ValidHost(t)
           /\ t \in Star(Char({"1"})) <=> ValidPort(t)
           /\ t \in Star(PChar \cup Char({"/"})) <=> ValidPath(t)
           /\ t \in QueryOrFragment <=> ValidQueryOrFragment(t)
<1>1. /\ "%" \notin {":"} /\ "%" \notin {} /\ "%" \notin {"/", ":", "@"}
      /\ "%" \notin {"/", ":", "@", "?"}
  OBVIOUS
<1>2. t \in Star(RegChar \cup Char({":"})) <=> ValidUserinfo(t)
  BY <1>1, Classes, StarSays DEF ValidUserinfo
<1>3. t \in Star(RegChar) <=> ValidPctClass(t, {})
  BY <1>1, Classes, StarSays
<1>4. t \in Star(PChar \cup Char({"/"})) <=> ValidPath(t)
  BY <1>1, Classes, StarSays DEF ValidPath
<1>5. t \in QueryOrFragment <=> ValidQueryOrFragment(t)
  BY <1>1, Classes, StarSays DEF ValidQueryOrFragment, QueryOrFragment
<1>6. t \in Star(Char({"1"})) <=> ValidPort(t)
  BY PortSays
<1>7. QED
  BY <1>2, <1>3, <1>4, <1>5, <1>6 DEF ValidHost

\* A part of which only what is there must be valid.
LEMMA PartsSay ==
    ASSUME NEW p \in Part
    PROVE  /\ (p.has => p.text \in Star(RegChar \cup Char({":"}))) <=> ValidUserinfo(p.text)
           /\ (p.has => p.text \in Star(Char({"1"}))) <=> ValidPort(p.text)
           /\ (p.has => p.text \in Star(PChar \cup Char({"/"}))) <=> ValidPath(p.text)
           /\ (p.has => p.text \in QueryOrFragment) <=> ValidQueryOrFragment(p.text)
<1>1. p.text \in Texts /\ p.has \in BOOLEAN /\ (~p.has => p.text = <<>>)
  BY PartType, Delimiters
<1>2. /\ ValidUserinfo(<<>>) /\ ValidPort(<<>>) /\ ValidPath(<<>>) /\ ValidQueryOrFragment(<<>>)
  BY EmptyIsValid DEF ValidUserinfo, ValidPath, ValidQueryOrFragment
<1>3. CASE p.has
  BY <1>1, <1>3, ComponentsSay
<1>4. CASE ~p.has
  BY <1>1, <1>2, <1>4
<1>5. QED
  BY <1>3, <1>4

LEMMA AuthoritySays ==
    ASSUME NEW t \in Texts
    PROVE  t \in Authority <=>
               \E ui \in Part, host \in Texts, port \in Part :
                   /\ ValidUserinfo(ui.text) /\ ValidHost(host) /\ ValidPort(port.text)
                   /\ t = Ahead(ui, "@") \o (host \o Behind(port, ":"))
<1> DEFINE A == Opt(Cat(Star(RegChar \cup Char({":"})), Char({"@"})))
           H == Star(RegChar) \ {<<>>}
           B == Opt(Cat(Char({":"}), Star(Char({"1"}))))
<1>1. ASSUME NEW u \in Texts
      PROVE  u \in A <=> \E ui \in Part : u = Ahead(ui, "@") /\ ValidUserinfo(ui.text)
  <2>1. u \in A <=> \E ui \in Part : u = Ahead(ui, "@") /\ (ui.has => ui.text \in Star(RegChar \cup Char({":"})))
    BY OptAhead, Delimiters
  <2>2. QED
    BY <2>1, PartsSay, Zenon
<1>2. ASSUME NEW u \in Texts
      PROVE  u \in B <=> \E port \in Part : u = Behind(port, ":") /\ ValidPort(port.text)
  <2>1. u \in B <=> \E port \in Part : u = Behind(port, ":") /\ (port.has => port.text \in Star(Char({"1"})))
    BY OptBehind, Delimiters
  <2>2. QED
    BY <2>1, PartsSay, Zenon
<1>3. ASSUME NEW u \in Texts PROVE u \in H <=> ValidHost(u)
  BY ComponentsSay
<1>4. Authority = Cat(A, Cat(H, B))
  BY DEF Authority
<1> HIDE DEF A, H, B
<1>5. \A w \in Texts : w \in Cat(H, B) => \E u \in Texts, v \in Texts : u \in H /\ v \in B /\ w = u \o v
  BY CatSays, SMTT(30)
<1>6. ASSUME t \in Authority
      PROVE  \E ui \in Part, host \in Texts, port \in Part :
                   /\ ValidUserinfo(ui.text) /\ ValidHost(host) /\ ValidPort(port.text)
                   /\ t = Ahead(ui, "@") \o (host \o Behind(port, ":"))
  <2>1. PICK u \in Texts, v \in Texts : u \in A /\ v \in Cat(H, B) /\ t = u \o v
    BY <1>4, <1>6, CatSays, SMTT(30)
  <2>2. PICK h \in Texts, b \in Texts : h \in H /\ b \in B /\ v = h \o b
    BY <1>5, <2>1
  <2>3. PICK ui \in Part : u = Ahead(ui, "@") /\ ValidUserinfo(ui.text)
    BY <1>1, <2>1
  <2>4. PICK port \in Part : b = Behind(port, ":") /\ ValidPort(port.text)
    BY <1>2, <2>2
  <2>5. ValidHost(h)
    BY <1>3, <2>2
  <2>6. t = Ahead(ui, "@") \o (h \o Behind(port, ":"))
    BY <2>1, <2>2, <2>3, <2>4
  <2>7. QED
    BY <2>3, <2>4, <2>5, <2>6
<1>7. ASSUME NEW ui \in Part, NEW host \in Texts, NEW port \in Part,
             ValidUserinfo(ui.text), ValidHost(host), ValidPort(port.text),
             t = Ahead(ui, "@") \o (host \o Behind(port, ":"))
      PROVE  t \in Authority
  <2>1. Ahead(ui, "@") \in Texts /\ Behind(port, ":") \in Texts
    BY PartType, Delimiters
  <2>2. Ahead(ui, "@") \in A /\ host \in H /\ Behind(port, ":") \in B
    BY <1>1, <1>2, <1>3, <1>7, <2>1
  <2>3. host \o Behind(port, ":") \in Texts
    BY <2>1, Joined
  <2>4. host \o Behind(port, ":") \in Cat(H, B)
    BY <2>1, <2>2, <2>3, CatSays
  <2>5. t \in Cat(A, Cat(H, B))
    BY <1>7, <2>1, <2>2, <2>3, <2>4, CatSays
  <2>6. QED
    BY <1>4, <2>5
<1>8. QED
  BY <1>6, <1>7

\* A path is empty or begins with a slash.
LEMMA PathSays ==
    ASSUME NEW t \in Texts
    PROVE  t \in PathAbempty <=> \E p \in Part : t = Behind(p, "/") /\ ValidPath(Behind(p, "/"))
<1>1. ASSUME NEW p \in Part PROVE ValidPath(p.text) <=> ValidPath(Behind(p, "/"))
  <2>1. p.text \in Texts /\ p.has \in BOOLEAN /\ "/" \in Characters
    BY PartType, Delimiters
  <2>2. CASE p.has
    <3>1. Behind(p, "/") = <<"/">> \o p.text
      BY <2>2 DEF Behind
    <3>2. "/" \in Reg({"/", ":", "@"})
      BY DEF Reg
    <3>3. ValidPctClass(<<"/">> \o p.text, {"/", ":", "@"}) <=> ValidPctClass(p.text, {"/", ":", "@"})
      BY <2>1, <3>2, ClassInFront
    <3>4. QED
      BY <3>1, <3>3 DEF ValidPath
  <2>3. CASE ~p.has
    BY <2>1, <2>3, PartType
  <2>4. QED
    BY <2>1, <2>2, <2>3
<1>2. t \in PathAbempty <=> \E p \in Part : t = Behind(p, "/") /\ (p.has => p.text \in Star(PChar \cup Char({"/"})))
  BY OptBehind, Delimiters DEF PathAbempty
<1>3. QED
  BY <1>1, <1>2, PartsSay, Zenon

LEMMA TailSays ==
    ASSUME NEW t \in Texts
    PROVE  t \in Cat(Opt(Cat(Char({"?"}), QueryOrFragment)), Opt(Cat(Char({"#"}), QueryOrFragment))) <=>
               \E q \in Part, f \in Part :
                   /\ ValidQueryOrFragment(q.text) /\ ValidQueryOrFragment(f.text)
                   /\ t = Behind(q, "?") \o Behind(f, "#")
<1> DEFINE Q == Opt(Cat(Char({"?"}), QueryOrFragment))
           F == Opt(Cat(Char({"#"}), QueryOrFragment))
<1>1. ASSUME NEW u \in Texts
      PROVE  u \in Q <=> \E q \in Part : u = Behind(q, "?") /\ ValidQueryOrFragment(q.text)
  <2>1. u \in Q <=> \E q \in Part : u = Behind(q, "?") /\ (q.has => q.text \in QueryOrFragment)
    BY OptBehind, Delimiters
  <2>2. QED
    BY <2>1, PartsSay, Zenon
<1>2. ASSUME NEW u \in Texts
      PROVE  u \in F <=> \E q \in Part : u = Behind(q, "#") /\ ValidQueryOrFragment(q.text)
  <2>1. u \in F <=> \E q \in Part : u = Behind(q, "#") /\ (q.has => q.text \in QueryOrFragment)
    BY OptBehind, Delimiters
  <2>2. QED
    BY <2>1, PartsSay, Zenon
<1> HIDE DEF Q, F
<1>3. t \in Cat(Q, F) <=> \E u \in Texts, v \in Texts : u \in Q /\ v \in F /\ t = u \o v
  BY CatSays
<1>4. ASSUME NEW q \in Part PROVE Behind(q, "?") \in Texts /\ Behind(q, "#") \in Texts
  BY PartType, Delimiters
<1>5. t \in Cat(Q, F) <=>
               \E q \in Part, f \in Part :
                   /\ ValidQueryOrFragment(q.text) /\ ValidQueryOrFragment(f.text)
                   /\ t = Behind(q, "?") \o Behind(f, "#")
  <2>1. ASSUME NEW u \in Texts, NEW v \in Texts, u \in Q, v \in F, t = u \o v
        PROVE  \E q \in Part, f \in Part :
                   /\ ValidQueryOrFragment(q.text) /\ ValidQueryOrFragment(f.text)
                   /\ t = Behind(q, "?") \o Behind(f, "#")
    <3>1. PICK q \in Part : u = Behind(q, "?") /\ ValidQueryOrFragment(q.text)
      BY <1>1, <2>1
    <3>2. PICK f \in Part : v = Behind(f, "#") /\ ValidQueryOrFragment(f.text)
      BY <1>2, <2>1
    <3>3. QED
      BY <2>1, <3>1, <3>2
  <2>2. ASSUME NEW q \in Part, NEW f \in Part, ValidQueryOrFragment(q.text), ValidQueryOrFragment(f.text)
        PROVE  Behind(q, "?") \in Q /\ Behind(f, "#") \in F
    BY <1>1, <1>2, <1>4, <2>2
  <2>3. QED
    BY <1>3, <1>4, <2>1, <2>2
<1>6. QED
  BY <1>5 DEF Q, F

\* What follows the slashes.
RestOf(a) == AuthorityOf(a) \o (Behind(a.path, "/") \o TailOf(a))

LEMMA RestSplit ==
    ASSUME NEW L, NEW w \in Texts, w \in Cat(Authority, L)
    PROVE  \E u \in Texts, v \in Texts : u \in Authority /\ v \in L /\ w = u \o v
BY CatSplit

LEMMA PathRestSplit ==
    ASSUME NEW L, NEW w \in Texts, w \in Cat(PathAbempty, L)
    PROVE  \E u \in Texts, v \in Texts : u \in PathAbempty /\ v \in L /\ w = u \o v
BY CatSplit

LEMMA RestSays ==
    ASSUME NEW t \in Texts, NEW scheme \in Texts, ValidScheme(scheme)
    PROVE  t \in AfterSlashes <=> \E a \in Anatomy : a.scheme = scheme /\ Sound(a) /\ t = RestOf(a)
<1> DEFINE T == Cat(Opt(Cat(Char({"?"}), QueryOrFragment)), Opt(Cat(Char({"#"}), QueryOrFragment)))
<1>1. AfterSlashes = Cat(Authority, Cat(PathAbempty, T))
  BY DEF AfterSlashes
<1> DEFINE W == Cat(PathAbempty, T)
<1> HIDE DEF T
<1> HIDE DEF W
<1>2. AfterSlashes = Cat(Authority, W)
  BY <1>1 DEF W
<1>3. ASSUME t \in AfterSlashes
      PROVE  \E a \in Anatomy : a.scheme = scheme /\ Sound(a) /\ t = RestOf(a)
  <2>1. PICK f \in Texts, g \in Texts : f \in Authority /\ g \in W /\ t = f \o g
    BY <1>3, <1>2, RestSplit
  <2>2. PICK pt \in Texts, tl \in Texts : pt \in PathAbempty /\ tl \in T /\ g = pt \o tl
    <3>1. g \in Texts /\ g \in Cat(PathAbempty, T)
      BY <2>1 DEF W
    <3>2. QED
      BY <3>1, PathRestSplit
  <2>3. PICK ui \in Part, host \in Texts, port \in Part :
                   /\ ValidUserinfo(ui.text) /\ ValidHost(host) /\ ValidPort(port.text)
                   /\ f = Ahead(ui, "@") \o (host \o Behind(port, ":"))
    BY <2>1, AuthoritySays
  <2>4. PICK p \in Part : pt = Behind(p, "/") /\ ValidPath(Behind(p, "/"))
    BY <2>2, PathSays
  <2>5. PICK q \in Part, fr \in Part :
                   /\ ValidQueryOrFragment(q.text) /\ ValidQueryOrFragment(fr.text)
                   /\ tl = Behind(q, "?") \o Behind(fr, "#")
    BY <2>2, TailSays DEF T
  <2> DEFINE a == [scheme |-> scheme, userinfo |-> ui, host |-> host, port |-> port,
                   path |-> p, query |-> q, fragment |-> fr]
  <2>6. a \in Anatomy
    BY DEF Anatomy
  <2>7. /\ a.scheme = scheme /\ a.userinfo = ui /\ a.host = host /\ a.port = port
        /\ a.path = p /\ a.query = q /\ a.fragment = fr
    OBVIOUS
  <2> HIDE DEF a
  <2>8. Sound(a)
    BY <2>3, <2>4, <2>5, <2>7 DEF Sound
  <2>9. t = RestOf(a)
    BY <2>1, <2>2, <2>3, <2>4, <2>5, <2>7 DEF RestOf, AuthorityOf, TailOf
  <2>10. QED
    BY <2>6, <2>7, <2>8, <2>9
<1>4. ASSUME NEW a \in Anatomy, Sound(a), t = RestOf(a)
      PROVE  t \in AfterSlashes
  <2>1. /\ AuthorityOf(a) \in Texts /\ Behind(a.path, "/") \in Texts /\ TailOf(a) \in Texts
        /\ a.userinfo \in Part /\ a.host \in Texts /\ a.port \in Part
        /\ a.path \in Part /\ a.query \in Part /\ a.fragment \in Part
    BY AnatomyType
  <2>2. AuthorityOf(a) \in Authority
    BY <1>4, <2>1, AuthoritySays DEF AuthorityOf, Sound
  <2>3. Behind(a.path, "/") \in PathAbempty
    BY <1>4, <2>1, PathSays DEF Sound
  <2>4. TailOf(a) \in T
    BY <1>4, <2>1, TailSays DEF Sound, TailOf, T
  <2>5. Behind(a.path, "/") \o TailOf(a) \in Texts
    BY <2>1, Joined
  <2>6. Behind(a.path, "/") \o TailOf(a) \in Cat(PathAbempty, T)
    BY <2>1, <2>3, <2>4, <2>5, CatSays
  <2>7. t \in Cat(Authority, Cat(PathAbempty, T))
    BY <1>4, <2>1, <2>2, <2>5, <2>6, CatSays DEF RestOf
  <2>8. QED
    BY <1>1, <2>7
<1>5. QED
  BY <1>3, <1>4

LEMMA SubOfSub ==
    ASSUME NEW s \in Texts, NEW i \in 0..Len(s), NEW j \in 0..Len(s) - i
    PROVE  LET w == SubSeq(s, i + 1, Len(s))
           IN  /\ w \in Texts /\ Len(w) = Len(s) - i
               /\ SubSeq(w, 1, j) = SubSeq(s, i + 1, i + j)
               /\ SubSeq(w, j + 1, Len(w)) = SubSeq(s, i + j + 1, Len(s))
<1> DEFINE n == Len(s)
           w == SubSeq(s, i + 1, n)
           p == SubSeq(w, 1, j)
           q == SubSeq(w, j + 1, Len(w))
           p1 == SubSeq(s, i + 1, i + j)
           q1 == SubSeq(s, i + j + 1, n)
<1>1. n \in Nat
  BY Sized
<1>2. w \in Texts /\ Len(w) = n - i /\ \A k \in 1..n - i : w[k] = s[i + k]
  <2>1. n \in i..Len(s)
    BY <1>1
  <2>2. QED
    BY <2>1, Slice
<1>3. p1 \in Texts /\ Len(p1) = i + j - i /\ \A k \in 1..i + j - i : p1[k] = s[i + k]
  <2>1. i + j \in i..Len(s)
    BY <1>1
  <2>2. QED
    BY <2>1, Slice
<1>4. q1 \in Texts /\ Len(q1) = n - (i + j) /\ \A k \in 1..n - (i + j) : q1[k] = s[(i + j) + k]
  <2>1. i + j \in 0..Len(s) /\ n \in (i + j)..Len(s)
    BY <1>1
  <2>2. QED
    BY <2>1, Slice
<1> HIDE DEF w, p1, q1
<1>5. p \in Texts /\ Len(p) = j - 0 /\ \A k \in 1..j - 0 : p[k] = w[0 + k]
  <2>1. 0 \in 0..Len(w) /\ j \in 0..Len(w) /\ 0 + 1 = 1
    BY <1>1, <1>2
  <2>2. /\ SubSeq(w, 0 + 1, j) \in Texts /\ Len(SubSeq(w, 0 + 1, j)) = j - 0
        /\ \A k \in 1..j - 0 : SubSeq(w, 0 + 1, j)[k] = w[0 + k]
    BY <1>2, <2>1, Slice
  <2>3. QED
    BY <2>1, <2>2
<1>6. q \in Texts /\ Len(q) = Len(w) - j /\ \A k \in 1..Len(w) - j : q[k] = w[j + k]
  <2>1. j \in 0..Len(w) /\ Len(w) \in j..Len(w)
    BY <1>1, <1>2
  <2>2. QED
    BY <1>2, <2>1, Slice
<1> HIDE DEF p, q, n
<1>7. p = p1
  <2>1. Len(p) = Len(p1) /\ Len(p) = j
    BY <1>3, <1>5
  <2>2. ASSUME NEW k \in 1..Len(p) PROVE p[k] = p1[k]
    <3>1. k \in 1..j - 0 /\ k \in 1..i + j - i /\ k \in 1..n - i /\ 0 + k = k
      BY <1>1, <2>1 DEF n
    <3>2. QED
      BY <1>2, <1>3, <1>5, <3>1
  <2>3. QED
    BY <1>3, <1>5, <2>1, <2>2, SameSequence DEF Texts
<1>8. q = q1
  <2>1. Len(q) = n - i - j /\ Len(q1) = n - (i + j) /\ Len(q) = Len(q1)
    BY <1>1, <1>2, <1>4, <1>6
  <2>2. ASSUME NEW k \in 1..Len(q) PROVE q[k] = q1[k]
    <3>1. k \in 1..Len(w) - j /\ k \in 1..n - (i + j) /\ j + k \in 1..n - i /\ i + (j + k) = (i + j) + k
      BY <1>1, <1>2, <2>1
    <3>2. QED
      BY <1>2, <1>4, <1>6, <3>1
  <2>3. QED
    BY <1>4, <1>6, <2>1, <2>2, SameSequence DEF Texts
<1>9. QED
  BY <1>2, <1>7, <1>8 DEF w, p, q, p1, q1, n

Mark == <<":", "/", "/">>

LEMMA MarkIs == Mark \in Texts /\ Len(Mark) = 3 /\ Mark = <<":">> \o Slashes
<1>1. ASSUME NEW D, NEW c \in D, NEW d \in D PROVE <<c, d, d>> \in Seq(D) /\ <<c, d, d>> = <<c>> \o <<d, d>>
  OBVIOUS
<1>2. Mark \in Texts
  BY <1>1, Delimiters DEF Mark, Texts
<1>3. Mark = <<":">> \o Slashes
  BY <1>1, Delimiters DEF Mark, Slashes
<1>4. QED
  BY <1>2, <1>3 DEF Mark

Link(s, t) == s \o t

LEMMA Linked ==
    ASSUME NEW s \in Texts, NEW t \in Texts, NEW u \in Texts
    PROVE  Link(s, t) \in Texts /\ Link(Link(s, t), u) = Link(s, Link(t, u))
<1>1. s \o t \in Texts
  BY Joined
<1>2. (s \o t) \o u = s \o (t \o u)
  BY GroupedTexts
<1>3. QED
  BY <1>1, <1>2 DEF Link

LEMMA WholeUnrolled ==
    ASSUME NEW a \in Anatomy
    PROVE  RestOf(a) \in Texts /\ Whole(a) = a.scheme \o (Mark \o RestOf(a))
<1> DEFINE p == Behind(a.path, "/")
           c == <<":">>
<1>1. AuthorityOf(a) \in Texts /\ p \in Texts /\ TailOf(a) \in Texts /\ a.scheme \in Texts
  BY AnatomyType
<1>2. c \in Texts /\ Slashes \in Texts
  BY Single, Delimiters, SlashesAre
<1>3. p \o TailOf(a) \in Texts
  BY <1>1, Joined
<1>4. RestOf(a) \in Texts
  BY <1>1, <1>3, Joined DEF RestOf
<1>5. Mark = c \o Slashes
  BY MarkIs
<1>6. Whole(a) = (a.scheme \o (c \o (Slashes \o (AuthorityOf(a) \o p)))) \o TailOf(a)
  BY DEF Whole, BodyOf, HierOf
<1>7. Whole(a) = a.scheme \o ((c \o Slashes) \o (AuthorityOf(a) \o (p \o TailOf(a))))
  <2> HIDE DEF c, p
  <2> DEFINE s == a.scheme
             l == Slashes
             u == AuthorityOf(a)
             t == TailOf(a)
  <2>1. s \in Texts /\ c \in Texts /\ l \in Texts /\ u \in Texts /\ p \in Texts /\ t \in Texts
    BY <1>1, <1>2
  <2> HIDE DEF s, l, u, t
  <2>2. Link(p, t) \in Texts /\ Link(u, p) \in Texts
    BY <2>1, Linked
  <2>3. Link(l, Link(u, p)) \in Texts /\ Link(u, Link(p, t)) \in Texts
    BY <2>1, <2>2, Linked
  <2>4. Link(c, Link(l, Link(u, p))) \in Texts
    BY <2>1, <2>3, Linked
  <2>5. Link(Link(s, Link(c, Link(l, Link(u, p)))), t) = Link(s, Link(Link(c, Link(l, Link(u, p))), t))
    BY <2>1, <2>4, Linked
  <2>6. Link(Link(c, Link(l, Link(u, p))), t) = Link(c, Link(Link(l, Link(u, p)), t))
    BY <2>1, <2>3, Linked
  <2>7. Link(Link(l, Link(u, p)), t) = Link(l, Link(Link(u, p), t))
    BY <2>1, <2>2, Linked
  <2>8. Link(Link(u, p), t) = Link(u, Link(p, t))
    BY <2>1, Linked
  <2>9. Link(c, Link(l, Link(u, Link(p, t)))) = Link(Link(c, l), Link(u, Link(p, t)))
    BY <2>1, <2>3, Linked
  <2>10. Link(Link(s, Link(c, Link(l, Link(u, p)))), t) = Link(s, Link(Link(c, l), Link(u, Link(p, t))))
    BY <2>5, <2>6, <2>7, <2>8, <2>9
  <2>11. QED
    BY <1>6, <2>10 DEF Link, s, l, u, t
<1>8. QED
  BY <1>4, <1>5, <1>7 DEF RestOf

\* The grammar derives exactly what is put together from sound components.
LEMMA DerivedIsWhole ==
    ASSUME NEW s \in Texts
    PROVE  IsURL(s) <=> \E a \in Anatomy : Sound(a) /\ s = Whole(a)
<1> DEFINE n == Len(s)
<1>1. n \in Nat /\ DOMAIN s = 1..n
  BY Sized
<1>2. ASSUME IsURL(s) PROVE \E a \in Anatomy : Sound(a) /\ s = Whole(a)
  <2>1. PICK i \in 1..(n - 3) :
        /\ s[1] \in Letters /\ \A j \in 2..i : s[j] \in Letters \cup {"1", "-"}
        /\ SubSeq(s, i + 1, i + 3) = Mark
        /\ SubSeq(s, i + 4, n) \in AfterSlashes
    BY <1>2 DEF IsURL, Mark
  <2> HIDE DEF n
  <2>2. i \in Nat /\ i >= 1 /\ i + 3 <= n /\ i \in 0..n /\ 3 \in 0..n - i /\ 0 \in 0..n /\ i \in 0..n - 0
        /\ i + 3 + 1 = i + 4 /\ 0 + i + 1 = i + 1 /\ 3 + 1 = 4 /\ 0 + i = i /\ 0 + 1 = 1
    BY <1>1, <2>1
  <2> DEFINE scheme == SubSeq(s, 1, i)
             w == SubSeq(s, i + 1, n)
             rest == SubSeq(s, i + 4, n)
  <2>3. scheme \in Texts /\ Len(scheme) = i - 0 /\ \A k \in 1..i - 0 : scheme[k] = s[0 + k]
    <3>1. i \in 0..n
      BY <2>2
    <3>2. /\ SubSeq(s, 0 + 1, i) \in Texts /\ Len(SubSeq(s, 0 + 1, i)) = i - 0
          /\ \A k \in 1..i - 0 : SubSeq(s, 0 + 1, i)[k] = s[0 + k]
      BY <2>2, <3>1, Slice DEF n
    <3>3. QED
      BY <2>2, <3>2
  <2>4. w \in Texts /\ SubSeq(w, 1, 3) = SubSeq(s, i + 1, i + 3) /\ SubSeq(w, 3 + 1, Len(w)) = SubSeq(s, i + 3 + 1, n)
        /\ Len(w) = n - i
    BY <2>2, SubOfSub DEF n
  <2>5. s = scheme \o w
    BY <2>2, Rejoined DEF Texts, n
  <2> HIDE DEF w, scheme
  <2>6. w = Mark \o rest
    <3>1. 3 \in 0..Len(w)
      BY <2>2, <2>4
    <3>2. SubSeq(w, 1, 3) \o SubSeq(w, 3 + 1, Len(w)) = w
      BY <2>4, <3>1, Rejoined DEF Texts
    <3>3. QED
      BY <2>1, <2>2, <2>4, <3>2
  <2>7. rest \in Texts
    BY <2>1 DEF AfterSlashes, Cat
  <2>8. ValidScheme(scheme)
    <3>1. Len(scheme) = i /\ DOMAIN scheme = 1..i /\ \A k \in 1..i : scheme[k] = s[k]
      <4>1. i - 0 = i /\ \A k \in 1..i : 0 + k = k
        BY <2>2
      <4>2. QED
        BY <2>3, <4>1, Sized
    <3>2. \A k \in 1..i : k = 1 \/ k \in 2..i
      BY <2>2
    <3>3. scheme # <<>> /\ 1 \in 1..i
      <4>1. Len(<<>>) = 0
        OBVIOUS
      <4>2. QED
        BY <2>2, <3>1, <4>1
    <3>4. QED
      BY <2>1, <3>1, <3>2, <3>3 DEF ValidScheme
  <2> HIDE DEF rest
  <2>9. PICK a \in Anatomy : a.scheme = scheme /\ Sound(a) /\ rest = RestOf(a)
    <3>1. rest \in AfterSlashes
      BY <2>1 DEF rest
    <3>2. rest \in AfterSlashes => \E a \in Anatomy : a.scheme = scheme /\ Sound(a) /\ rest = RestOf(a)
      BY <2>3, <2>7, <2>8, RestSays
    <3>3. QED
      BY <3>1, <3>2
  <2>10. s = Whole(a)
    BY <2>5, <2>6, <2>9, WholeUnrolled
  <2>11. QED
    BY <2>9, <2>10
<1>3. ASSUME NEW a \in Anatomy, Sound(a), s = Whole(a) PROVE IsURL(s)
  <2> DEFINE scheme == a.scheme
             rest == RestOf(a)
             w == Mark \o rest
             i == Len(scheme)
  <2>1. scheme \in Texts /\ rest \in Texts /\ s = scheme \o w
    BY <1>3, WholeUnrolled, AnatomyType
  <2>2. rest \in AfterSlashes /\ ValidScheme(scheme)
    <3>1. ValidScheme(scheme)
      BY <1>3 DEF Sound
    <3>2. QED
      BY <1>3, <2>1, <3>1, RestSays
  <2> HIDE DEF scheme, rest
  <2>3. w \in Texts /\ Len(w) = 3 + Len(rest) /\ Len(rest) \in Nat
    BY <2>1, MarkIs, Joined, Sized
  <2>4. SubSeq(w, 1, 3) = Mark /\ SubSeq(w, 3 + 1, Len(w)) = rest
    <3>1. SubSeq(w, 1, Len(Mark)) = Mark /\ SubSeq(w, Len(Mark) + 1, Len(w)) = rest
      BY <2>1, MarkIs, Parted DEF Texts
    <3>2. QED
      BY <3>1, MarkIs
  <2> HIDE DEF w
  <2>5. n = i + Len(w) /\ (\A k \in 1..i : s[k] = scheme[k])
    <3>1. scheme \o w \in Texts /\ Len(scheme \o w) = Len(scheme) + Len(w)
          /\ \A k \in 1..Len(scheme) : (scheme \o w)[k] = scheme[k]
      BY <2>1, <2>3, Joined
    <3>2. QED
      BY <2>1, <3>1
  <2>6. SubSeq(s, i + 1, n) = w
    BY <2>1, <2>3, Parted, ZenonT(30) DEF Texts
  <2>7. i \in Nat /\ i >= 1 /\ scheme[1] \in Letters /\ DOMAIN scheme = 1..i
    <3>1. scheme # <<>> /\ scheme[1] \in Letters
      BY <2>2 DEF ValidScheme
    <3>2. i # 0
      BY <2>1, <3>1 DEF Texts
    <3>3. QED
      BY <2>1, <3>1, <3>2, Sized
  <2> HIDE DEF i, n
  <2>8. i \in 1..(n - 3) /\ i \in 0..n /\ 3 \in 0..n - i /\ i + 3 + 1 = i + 4
    BY <1>1, <2>3, <2>5, <2>7
  <2>9. SubSeq(w, 1, 3) = SubSeq(s, i + 1, i + 3) /\ SubSeq(w, 3 + 1, Len(w)) = SubSeq(s, i + 3 + 1, n)
    BY <2>6, <2>8, SubOfSub DEF n
  <2>10. SubSeq(s, i + 1, i + 3) = Mark /\ SubSeq(s, i + 4, n) \in AfterSlashes
    BY <2>2, <2>4, <2>8, <2>9
  <2>11. s[1] \in Letters /\ \A j \in 2..i : s[j] \in Letters \cup {"1", "-"}
    <3>1. 1 \in 1..i /\ \A j \in 2..i : j \in 1..i
      BY <2>7
    <3>2. \A j \in 1..i : scheme[j] \in Letters \cup {"1", "-"}
      BY <2>2, <2>7 DEF ValidScheme
    <3>3. QED
      BY <2>5, <2>7, <3>1, <3>2
  <2>12. QED
    BY <2>8, <2>10, <2>11 DEF IsURL, Mark, n
<1>4. QED
  BY <1>2, <1>3

-----------------------------------------------------------------------------
(* Put together again *)

LEMMA Lowered == ASSUME NEW s \in Texts PROVE ToLower(s) \in Texts /\ Len(ToLower(s)) = Len(s)
<1>1. "a" \in Characters
  BY DEF Characters, Unreserved, Letters
<1>2. ASSUME NEW D, NEW f \in Seq(D), NEW e \in D, NEW A
      PROVE  [i \in DOMAIN f |-> IF f[i] = A THEN e ELSE f[i]] \in Seq(D)
             /\ Len([i \in DOMAIN f |-> IF f[i] = A THEN e ELSE f[i]]) = Len(f)
  OBVIOUS
<1>3. QED
  BY <1>1, <1>2 DEF ToLower, Texts

LEMMA LinkedFour ==
    ASSUME NEW s \in Texts, NEW t \in Texts, NEW u \in Texts, NEW v \in Texts
    PROVE  Link(Link(Link(s, t), u), v) = Link(s, Link(t, Link(u, v)))
<1>1. Link(s, t) \in Texts /\ Link(u, v) \in Texts
  BY Linked
<1>2. Link(Link(Link(s, t), u), v) = Link(Link(s, t), Link(u, v))
  BY <1>1, Linked
<1>3. Link(Link(s, t), Link(u, v)) = Link(s, Link(t, Link(u, v)))
  BY <1>1, Linked, SMTT(30)
<1>4. QED
  BY <1>2, <1>3

LEMMA RecomposeSays ==
    ASSUME NEW a \in Anatomy, NEW sch \in Texts
    PROVE  Recompose([scheme |-> sch, userinfo |-> a.userinfo, host |-> a.host,
                      port |-> a.port, path |-> Behind(a.path, "/"),
                      query |-> a.query, fragment |-> a.fragment]) = sch \o (Mark \o RestOf(a))
<1> DEFINE u == [scheme |-> sch, userinfo |-> a.userinfo, host |-> a.host,
                      port |-> a.port, path |-> Behind(a.path, "/"),
                      query |-> a.query, fragment |-> a.fragment]
           x3 == Ahead(a.userinfo, "@")
           x4 == a.host
           x5 == Behind(a.port, ":")
           x6 == Behind(a.path, "/")
           x7 == Behind(a.query, "?")
           x8 == Behind(a.fragment, "#")
<1>1. x3 \in Texts /\ x4 \in Texts /\ x5 \in Texts /\ x6 \in Texts /\ x7 \in Texts /\ x8 \in Texts
  BY AnatomyType
<1>2. u.scheme = sch /\ u.userinfo = a.userinfo /\ u.host = a.host /\ u.port = a.port /\ u.path = x6
      /\ u.query = a.query /\ u.fragment = a.fragment
  OBVIOUS
<1>3. Recompose(u) = u.scheme \o Mark \o Ahead(u.userinfo, "@") \o u.host \o Behind(u.port, ":") \o u.path
                     \o Behind(u.query, "?") \o Behind(u.fragment, "#")
  <2> HIDE DEF u
  <2>1. QED
    BY DEF Recompose, Mark, Ahead, Behind
<1> HIDE DEF u
<1>4. Recompose(u) = sch \o Mark \o x3 \o x4 \o x5 \o x6 \o x7 \o x8
  BY <1>2, <1>3
<1>5. RestOf(a) = (x3 \o (x4 \o x5)) \o (x6 \o (x7 \o x8))
  BY DEF RestOf, AuthorityOf, TailOf
<1>6. sch \o Mark \o x3 \o x4 \o x5 \o x6 \o x7 \o x8 = sch \o (Mark \o ((x3 \o (x4 \o x5)) \o (x6 \o (x7 \o x8))))
  <2> HIDE DEF x3, x4, x5, x6, x7, x8
  <2>1. sch \in Texts /\ Mark \in Texts
    BY MarkIs
  <2> DEFINE y == Link(sch, Mark)
             g == Link(x3, Link(x4, x5))
             k == Link(x6, Link(x7, x8))
  <2>2. y \in Texts /\ g \in Texts /\ k \in Texts
    <3>1. Link(x4, x5) \in Texts /\ Link(x7, x8) \in Texts
      BY <1>1, Linked
    <3>2. QED
      BY <1>1, <2>1, <3>1, Linked
  <2> HIDE DEF y
  <2>3. Link(Link(Link(y, x3), x4), x5) = Link(y, g)
    BY <1>1, <2>2, LinkedFour
  <2> HIDE DEF g
  <2>4. Link(y, g) \in Texts
    BY <2>2, Linked
  <2>5. Link(Link(Link(Link(y, g), x6), x7), x8) = Link(Link(y, g), k)
    BY <1>1, <2>4, LinkedFour
  <2> HIDE DEF k
  <2>6. Link(Link(y, g), k) = Link(y, Link(g, k)) /\ Link(g, k) \in Texts
    BY <2>2, Linked
  <2>7. Link(y, Link(g, k)) = Link(sch, Link(Mark, Link(g, k)))
    BY <2>1, <2>6, Linked DEF y
  <2>8. Link(Link(Link(Link(Link(Link(y, x3), x4), x5), x6), x7), x8) = Link(sch, Link(Mark, Link(g, k)))
    BY <2>3, <2>5, <2>6, <2>7
  <2>9. QED
    BY <2>8 DEF Link, y, g, k
<1>7. QED
  BY <1>4, <1>5, <1>6 DEF u

\* What the parser returns is what the grammar says.
LEMMA ParseRoundTrips ==
    ASSUME NEW s \in Texts
    PROVE  LET parsed == ParseURL(s)
           IN  /\ parsed.ok <=> IsURL(s)
               /\ parsed.ok => LET n == Len(parsed.url.scheme)
                               IN  Recompose(parsed.url) = ToLower(SubSeq(s, 1, n)) \o SubSeq(s, n + 1, Len(s))
<1> DEFINE parsed == ParseURL(s)
           n == Len(parsed.url.scheme)
<1>1. ASSUME NEW a \in Anatomy, Sound(a), s = Whole(a)
      PROVE  parsed.ok /\ Recompose(parsed.url) = ToLower(SubSeq(s, 1, n)) \o SubSeq(s, n + 1, Len(s))
  <2>1. ParseURL(s) = Parsed(a)
    BY <1>1, SoundApart, ParseOfWhole
  <2> DEFINE u == [scheme |-> ToLower(a.scheme), userinfo |-> a.userinfo, host |-> a.host,
                   port |-> a.port, path |-> Behind(a.path, "/"),
                   query |-> a.query, fragment |-> a.fragment]
  <2>2. parsed = [ok |-> TRUE, url |-> u]
    BY <1>1, <2>1 DEF Parsed
  <2>3. parsed.ok /\ parsed.url = u /\ u.scheme = ToLower(a.scheme)
    BY <2>2
  <2>4. a.scheme \in Texts /\ ToLower(a.scheme) \in Texts /\ Len(ToLower(a.scheme)) = Len(a.scheme)
    BY AnatomyType, Lowered
  <2>5. Recompose(u) = ToLower(a.scheme) \o (Mark \o RestOf(a))
    BY <2>4, RecomposeSays
  <2> HIDE DEF u, parsed
  <2>6. n = Len(a.scheme)
    BY <2>3, <2>4
  <2> HIDE DEF n
  <2> DEFINE w == Mark \o RestOf(a)
             sch == a.scheme
  <2>7. w \in Texts /\ s = sch \o w
    BY <1>1, WholeUnrolled, MarkIs, Joined
  <2> HIDE DEF w
  <2>8. SubSeq(s, 1, Len(sch)) = sch /\ SubSeq(s, Len(sch) + 1, Len(s)) = w
    BY <2>4, <2>7, Parted DEF Texts
  <2>9. QED
    BY <2>3, <2>5, <2>6, <2>8 DEF w
<1>2. parsed.ok => \E a \in Anatomy : Sound(a) /\ s = Whole(a)
  BY ParsedIsWhole
<1> HIDE DEF parsed, n
<1>3. QED
  BY <1>1, <1>2, DerivedIsWhole DEF parsed, n

-----------------------------------------------------------------------------
(* url-parse *)

\* url-parse (parseURL, main.go:61-159) accepts exactly the texts the grammar
\* derives, of any length, and what it prints put together again is the text,
\* up to the case of the scheme.
THEOREM UrlAlwaysRoundTrips == Spec => []UrlRoundTrips
<1>1. ASSUME Ran, Answered("url") PROVE UrlRoundTrips
  <2> DEFINE parsed == ParseURL(args)
  <2>1. args \in Texts /\ out = IF parsed.ok THEN Answer(parsed.url) ELSE Error
    BY <1>1, RunsAssumption DEF Ran, Answered
  <2>2. /\ parsed.ok <=> IsURL(args)
        /\ parsed.ok => LET n == Len(parsed.url.scheme)
                        IN  Recompose(parsed.url) = ToLower(SubSeq(args, 1, n)) \o SubSeq(args, n + 1, Len(args))
    BY <2>1, ParseRoundTrips
  <2> HIDE DEF parsed
  <2>3. CASE parsed.ok
    <3>1. out.ok /\ out.value = parsed.url
      BY <2>1, <2>3 DEF Answer
    <3>2. QED
      BY <2>2, <2>3, <3>1 DEF UrlRoundTrips
  <2>4. CASE ~parsed.ok
    <3>1. ~out.ok
      BY <2>1, <2>4 DEF Error
    <3>2. QED
      BY <2>2, <2>4, <3>1 DEF UrlRoundTrips
  <2>5. QED
    BY <2>3, <2>4
<1>2. Ran => UrlRoundTrips
  BY <1>1 DEF UrlRoundTrips
<1>3. QED
  BY <1>2, RanInvariant, PTL

-----------------------------------------------------------------------------
(* Division *)
LEMMA Quotient ==
    ASSUME NEW n \in Nat \ {0}, NEW a \in Nat
    PROVE  a \div n \in Nat /\ a % n \in 0..n - 1 /\ a = n * (a \div n) + (a % n)
OBVIOUS

LEMMA QuotientIsUnique ==
    ASSUME NEW n \in Nat \ {0}, NEW q \in Nat, NEW r \in 0..n - 1
    PROVE  (n * q + r) \div n = q /\ (n * q + r) % n = r
OBVIOUS

LEMMA Product == ASSUME NEW a \in Nat, NEW b \in Nat PROVE a * b \in Nat /\ a * b = b * a
OBVIOUS

LEMMA ProductGrows ==
    ASSUME NEW n \in Nat, NEW a \in Nat, NEW b \in Nat, a <= b
    PROVE  n * a <= n * b
OBVIOUS

LEMMA ProductNext == ASSUME NEW n \in Nat, NEW a \in Nat PROVE n * (a + 1) = n * a + n
OBVIOUS

\* Among n numbers in a row every remainder occurs.
LEMMA Residue ==
    ASSUME NEW n \in Nat \ {0}, NEW x \in Nat, NEW e \in 0..n - 1
    PROVE  \E d \in x..x + n - 1 : d % n = e
<1> DEFINE q == x \div n
           r == x % n
<1>1. q \in Nat /\ r \in 0..n - 1 /\ x = n * q + r
  BY Quotient
<1> HIDE DEF q, r
<1>2. n * q \in Nat /\ n * (q + 1) = n * q + n /\ q + 1 \in Nat
  BY <1>1, Product, ProductNext
<1>3. CASE e >= r
  <2>1. (n * q + e) % n = e
    BY <1>1, QuotientIsUnique
  <2>2. n * q + e \in x..x + n - 1
    BY <1>1, <1>2, <1>3
  <2>3. QED
    BY <2>1, <2>2
<1>4. CASE e < r
  <2>1. (n * (q + 1) + e) % n = e
    BY <1>2, QuotientIsUnique
  <2>2. n * (q + 1) + e \in x..x + n - 1
    BY <1>1, <1>2, <1>4
  <2>3. QED
    BY <2>1, <2>2
<1>5. QED
  BY <1>1, <1>3, <1>4

-----------------------------------------------------------------------------
(* The calendar *)

Months == LeapEvery * MonthsPerYear

LEMMA Sizes ==
    /\ SecondsPerMinute \in Nat \ {0} /\ MinutesPerHour \in Nat \ {0} /\ HoursPerDay \in Nat \ {0}
    /\ WeekDays \in Nat \ {0} /\ LeapEvery \in Nat /\ LeapEvery >= 2 /\ LeapEvery <= 4
    /\ MonthsPerYear \in Nat \ {0} /\ Months \in Nat \ {0} /\ 2 * MonthsPerYear <= Months
    /\ MinutesPerDay \in Nat \ {0}
    /\ \A m \in 1..MonthsPerYear : MonthDays[m] \in Nat /\ WeekDays <= MonthDays[m]
<1>1. /\ SecondsPerMinute \in Nat \ {0} /\ MinutesPerHour \in Nat \ {0} /\ HoursPerDay \in Nat \ {0}
      /\ WeekDays \in Nat \ {0} /\ LeapEvery \in Nat /\ LeapEvery >= 2 /\ LeapEvery <= 4
  BY CalendarAssumption
<1>2. MonthsPerYear \in Nat \ {0} /\ DOMAIN MonthDays = 1..MonthsPerYear
  BY CalendarAssumption DEF MonthsPerYear
<1>3. \A m \in 1..MonthsPerYear : MonthDays[m] \in Nat /\ WeekDays <= MonthDays[m]
  <2>1. \A D : \A s \in Seq(D) : \A i \in DOMAIN s : s[i] \in D
    OBVIOUS
  <2>2. QED
    BY <1>2, <2>1, CalendarAssumption
<1>4. Months \in Nat \ {0} /\ 2 * MonthsPerYear <= Months
  <2>1. ASSUME NEW e \in Nat, NEW m \in Nat \ {0}, e >= 2 PROVE e * m \in Nat \ {0} /\ 2 * m <= e * m
    BY <2>1
  <2>2. QED
    BY <1>1, <1>2, <2>1 DEF Months
<1>5. MinutesPerDay \in Nat \ {0}
  <2>1. ASSUME NEW a \in Nat \ {0}, NEW b \in Nat \ {0} PROVE a * b \in Nat \ {0}
    OBVIOUS
  <2>2. QED
    BY <1>1, <2>1 DEF MinutesPerDay
<1>6. QED
  BY <1>1, <1>2, <1>3, <1>4, <1>5

\* No month is shorter than a week, and none is longer than in the first,
\* leap year.
LEMMA LengthSays ==
    ASSUME NEW k \in Nat
    PROVE  /\ MonthLength(k) \in Nat \ {0} /\ WeekDays <= MonthLength(k)
           /\ k % MonthsPerYear \in 0..MonthsPerYear - 1
           /\ MonthLength(k) <= MonthLength(k % MonthsPerYear)
<1> DEFINE M == MonthsPerYear
           j == k % M
<1>1. M \in Nat \ {0} /\ k % M \in 0..M - 1 /\ k \div M \in Nat
  BY Sizes, Quotient
<1>2. (k % M) % M = k % M /\ (k % M) \div M = 0
  <2>1. (M * 0 + j) % M = j /\ (M * 0 + j) \div M = 0
    <3> HIDE DEF M, j
    <3>1. QED
      BY <1>1, QuotientIsUnique DEF j
  <2>2. M * 0 + j = j
    BY <1>1
  <2>3. QED
    BY <2>1, <2>2
<1>3. 0 % LeapEvery = 0
  BY Sizes
<1>4. j + 1 \in 1..M
  BY <1>1
<1>5. MonthLength(k) = MonthDays[j + 1] + (IF j + 1 = LeapMonth /\ (k \div M) % LeapEvery = 0 THEN 1 ELSE 0)
  BY DEF MonthLength
<1>6. MonthLength(j) = MonthDays[j + 1] + (IF j + 1 = LeapMonth THEN 1 ELSE 0)
  <2>1. MonthLength(j) = MonthDays[(j % M) + 1] + (IF (j % M) + 1 = LeapMonth /\ (j \div M) % LeapEvery = 0 THEN 1 ELSE 0)
    BY DEF MonthLength
  <2>2. QED
    BY <1>2, <1>3, <2>1
<1>7. MonthDays[j + 1] \in Nat /\ WeekDays <= MonthDays[j + 1] /\ WeekDays \in Nat \ {0}
  BY <1>4, Sizes
<1> HIDE DEF j, M
<1>8. QED
  BY <1>1, <1>5, <1>6, <1>7 DEF j, M

LEMMA DaysBeforeSays ==
    /\ DaysBefore \in [0..Months -> Nat] /\ DaysBefore[0] = 0
    /\ \A k \in 0..Months - 1 : DaysBefore[k + 1] = DaysBefore[k] + MonthLength(k)
<1> DEFINE n == Months
           Body(V, k) == IF k = 0 THEN 0 ELSE V[k - 1] + MonthLength(k - 1)
           G == [i \in 0..n |-> [h \in [0..i - 1 -> Nat] |-> Body(h, i)]]
           W == CHOOSE V : V = [i \in 0..n |-> Body(V, i)]
<1>1. n \in Nat
  BY Sizes
<1>2. \A i \in 0..n : \A h \in [0..i - 1 -> Nat] : G[i][h] = Body(h, i) /\ Body(h, i) \in Nat
  <2>1. ASSUME NEW i \in 0..n, NEW h \in [0..i - 1 -> Nat], i # 0 PROVE h[i - 1] + MonthLength(i - 1) \in Nat
    <3>1. i - 1 \in Nat /\ i - 1 \in 0..i - 1
      BY <1>1, <2>1
    <3>2. MonthLength(i - 1) \in Nat /\ h[i - 1] \in Nat
      BY <3>1, LengthSays
    <3>3. QED
      BY <3>2
  <2>2. QED
    BY <2>1
<1>3. PICK f \in [0..n -> Nat] : \A i \in 0..n : f[i] = G[i][[j \in 0..i - 1 |-> f[j]]]
  <2>1. Steps(n, Nat, G)
    <3> HIDE DEF G
    <3>1. QED
      BY <1>2 DEF Steps
  <2>2. \E f : Follows(f, n, Nat, G)
    <3> HIDE DEF G, n
    <3>1. QED
      BY <1>1, <2>1, Recursion
  <2>3. QED
    BY <2>2 DEF Follows
<1>4. ASSUME NEW i \in 0..n PROVE f[i] = Body(f, i)
  <2> DEFINE h == [j \in 0..i - 1 |-> f[j]]
  <2>1. \A j \in 0..i - 1 : j \in 0..n
    BY <1>1
  <2>2. h \in [0..i - 1 -> Nat]
    BY <2>1
  <2>3. f[i] = G[i][h]
    BY <1>3
  <2>4. Body(h, i) = Body(f, i)
    <3>1. i # 0 => i - 1 \in 0..i - 1
      BY <1>1
    <3>2. QED
      BY <3>1
  <2> HIDE DEF h, G
  <2>5. QED
    BY <1>2, <2>2, <2>3, <2>4
<1>5. f = [i \in 0..n |-> Body(f, i)]
  BY <1>4
<1>6. W = [i \in 0..n |-> Body(W, i)]
  BY <1>5
<1>7. DaysBefore = W
  BY DEF DaysBefore, Months
<1> HIDE DEF W
<1>8. DaysBefore = [i \in 0..n |-> Body(DaysBefore, i)]
  BY <1>6, <1>7
<1>9. DaysBefore[0] = 0 /\ \A k \in 0..n - 1 : DaysBefore[k + 1] = DaysBefore[k] + MonthLength(k)
  <2>1. \A i \in 0..n : DaysBefore[i] = Body(DaysBefore, i)
    BY <1>8
  <2>2. 0 \in 0..n /\ \A k \in 0..n - 1 : k + 1 \in 0..n /\ k + 1 # 0 /\ k + 1 - 1 = k
    BY <1>1
  <2>3. QED
    BY <2>1, <2>2
<1>10. \A k \in 0..n : DaysBefore[k] \in Nat
  <2> DEFINE S == {k \in 0..n : DaysBefore[k] \in Nat}
  <2>1. 0 \in S
    BY <1>1, <1>9
  <2>2. ASSUME NEW k \in 0..n - 1, k \in S PROVE k + 1 \in S
    <3>1. k \in Nat /\ k + 1 \in 0..n
      BY <1>1
    <3>2. MonthLength(k) \in Nat
      BY <3>1, LengthSays
    <3>3. DaysBefore[k] \in Nat
      BY <2>2
    <3>4. DaysBefore[k + 1] \in Nat
      BY <1>9, <3>2, <3>3
    <3>5. QED
      BY <3>1, <3>4
  <2> HIDE DEF S
  <2>3. \A k \in 0..n : k \in S
    BY <1>1, <2>1, <2>2, Climb
  <2>4. QED
    BY <2>3 DEF S
<1>11. DaysBefore \in [0..n -> Nat]
  <2>1. DOMAIN DaysBefore = 0..n /\ DaysBefore = [i \in DOMAIN DaysBefore |-> DaysBefore[i]]
    BY <1>8
  <2>2. QED
    BY <1>10, <2>1
<1>12. QED
  BY <1>9, <1>11

\* A month is over before a later one begins.
LEMMA MonthsInOrder ==
    ASSUME NEW i \in 0..Months, NEW j \in 0..Months, i < j
    PROVE  DaysBefore[i] + MonthLength(i) <= DaysBefore[j]
<1> DEFINE S == {e \in 0..Months - i - 1 : DaysBefore[i] + MonthLength(i) <= DaysBefore[i + 1 + e]}
           n == Months - i - 1
<1>1. Months \in Nat /\ i \in Nat /\ j \in Nat /\ n \in Nat /\ i \in 0..Months - 1
  BY Sizes
<1>2. DaysBefore[i + 1] = DaysBefore[i] + MonthLength(i) /\ DaysBefore[i] \in Nat /\ MonthLength(i) \in Nat
  BY <1>1, DaysBeforeSays, LengthSays
<1>3. 0 \in S
  <2>1. i + 1 + 0 = i + 1 /\ 0 \in 0..n
    BY <1>1
  <2>2. DaysBefore[i] + MonthLength(i) <= DaysBefore[i + 1 + 0]
    BY <1>2, <2>1
  <2>3. QED
    BY <2>1, <2>2
<1>4. ASSUME NEW e \in 0..n - 1, e \in S PROVE e + 1 \in S
  <2>1. i + 1 + e \in 0..Months - 1 /\ i + 1 + e \in Nat /\ i + 1 + (e + 1) = (i + 1 + e) + 1 /\ e + 1 \in 0..n
    BY <1>1
  <2>2. DaysBefore[(i + 1 + e) + 1] = DaysBefore[i + 1 + e] + MonthLength(i + 1 + e)
        /\ DaysBefore[i + 1 + e] \in Nat /\ MonthLength(i + 1 + e) \in Nat
    <3>1. i + 1 + e \in 0..Months
      BY <1>1, <2>1
    <3>2. QED
      BY <2>1, <3>1, DaysBeforeSays, LengthSays
  <2>3. DaysBefore[i] + MonthLength(i) <= DaysBefore[i + 1 + e]
    BY <1>4
  <2>4. DaysBefore[i] + MonthLength(i) <= DaysBefore[i + 1 + (e + 1)]
    BY <1>2, <2>1, <2>2, <2>3
  <2>5. QED
    BY <2>1, <2>4
<1>5. \A e \in 0..n : e \in S
  <2> HIDE DEF S, n
  <2>1. QED
    BY <1>1, <1>3, <1>4, Climb
<1>6. j - i - 1 \in 0..n /\ i + 1 + (j - i - 1) = j
  BY <1>1
<1>7. QED
  BY <1>5, <1>6

\* The day d of the cycle is one of the days of month k.
InMonth(d, k) == k \in 0..Months - 1 /\ DaysBefore[k] <= d /\ d < DaysBefore[k] + MonthLength(k)

LEMMA Sums ==
    ASSUME NEW k \in 0..Months - 1
    PROVE  /\ k \in Nat /\ k \in 0..Months /\ k + 1 \in 0..Months
           /\ DaysBefore[k] \in Nat /\ MonthLength(k) \in Nat \ {0}
           /\ DaysBefore[k + 1] = DaysBefore[k] + MonthLength(k)
           /\ DaysBefore[k + 1] <= CycleDays /\ CycleDays \in Nat
<1>1. Months \in Nat \ {0}
  BY Sizes
<1>2. k \in Nat /\ k \in 0..Months /\ k + 1 \in 0..Months /\ Months \in 0..Months
  BY <1>1
<1>3. DaysBefore[k] \in Nat /\ DaysBefore[k + 1] \in Nat /\ DaysBefore[Months] \in Nat /\ MonthLength(k) \in Nat \ {0}
  BY <1>2, DaysBeforeSays, LengthSays
<1>4. DaysBefore[k + 1] = DaysBefore[k] + MonthLength(k)
  BY DaysBeforeSays
<1>5. CycleDays = DaysBefore[Months]
  BY DEF CycleDays, Months
<1>6. DaysBefore[k + 1] <= CycleDays
  <2>1. CASE k + 1 = Months
    BY <1>3, <1>5, <2>1
  <2>2. CASE k + 1 # Months
    <3>1. k + 1 < Months /\ k + 1 \in Nat
      BY <1>1, <1>2, <2>2
    <3>2. DaysBefore[k + 1] + MonthLength(k + 1) <= DaysBefore[Months] /\ MonthLength(k + 1) \in Nat
      BY <1>2, <3>1, MonthsInOrder, LengthSays
    <3>3. QED
      BY <1>3, <1>5, <3>2
  <2>3. QED
    BY <2>1, <2>2
<1>7. QED
  BY <1>2, <1>3, <1>4, <1>5, <1>6

LEMMA CycleType == CycleDays \in Nat \ {0}
<1>1. 0 \in 0..Months - 1
  BY Sizes
<1>2. DaysBefore[0 + 1] <= CycleDays /\ DaysBefore[0 + 1] = DaysBefore[0] + MonthLength(0) /\ CycleDays \in Nat
      /\ DaysBefore[0] \in Nat /\ MonthLength(0) \in Nat \ {0}
  BY <1>1, Sums
<1>3. QED
  BY <1>2

\* Every day of the cycle is in one month, and is not in two.
LEMMA MonthOf ==
    ASSUME NEW d \in 0..CycleDays - 1
    PROVE  \E k : InMonth(d, k)
<1> DEFINE S == {k \in 0..Months - 1 : DaysBefore[k] <= d}
           n == Months - 1
<1>1. n \in Nat /\ Months \in Nat \ {0}
  BY Sizes
<1>2. d \in Nat /\ d < CycleDays
  BY CycleType
<1>3. 0 \in S
  <2>1. DaysBefore[0] = 0
    BY DaysBeforeSays
  <2>2. QED
    BY <1>1, <1>2, <2>1
<1>4. PICK k \in S : \A j \in S : j <= k
  <2>1. S \in SUBSET (0..n)
    OBVIOUS
  <2> HIDE DEF S
  <2>2. QED
    BY <1>1, <1>3, <2>1, Largest
<1>5. k \in 0..Months - 1 /\ DaysBefore[k] <= d
  BY <1>4
<1>6. DaysBefore[k + 1] = DaysBefore[k] + MonthLength(k) /\ DaysBefore[k + 1] \in Nat
  BY <1>5, Sums
<1>7. d < DaysBefore[k + 1]
  <2>1. CASE k = Months - 1
    <3>1. k + 1 = Months
      BY <1>1, <2>1
    <3>2. QED
      BY <1>2, <3>1 DEF CycleDays, Months
  <2>2. CASE k # Months - 1
    <3>1. k + 1 \in 0..Months - 1 /\ ~(k + 1 <= k)
      BY <1>1, <1>5, <2>2
    <3>2. ~(DaysBefore[k + 1] <= d)
      BY <1>4, <3>1
    <3>3. QED
      BY <1>2, <1>6, <3>2
  <2>3. QED
    BY <2>1, <2>2
<1>8. QED
  BY <1>5, <1>6, <1>7 DEF InMonth

LEMMA OneMonth ==
    ASSUME NEW d \in Nat, NEW k, InMonth(d, k), NEW j, InMonth(d, j)
    PROVE  k = j
<1>1. ASSUME NEW a, InMonth(d, a), NEW b, InMonth(d, b), a < b PROVE FALSE
  <2>1. a \in 0..Months /\ b \in 0..Months
    BY <1>1, Sums DEF InMonth
  <2>2. DaysBefore[a] + MonthLength(a) <= DaysBefore[b]
    BY <1>1, <2>1, MonthsInOrder
  <2>3. DaysBefore[a] \in Nat /\ MonthLength(a) \in Nat /\ DaysBefore[b] \in Nat
    BY <1>1, Sums DEF InMonth
  <2>4. QED
    BY <1>1, <2>2, <2>3 DEF InMonth
<1>2. ~(k < j) /\ ~(j < k)
  BY <1>1
<1>3. k \in Nat /\ j \in Nat
  BY Sums DEF InMonth
<1>4. QED
  BY <1>2, <1>3

LEMMA DatesSay ==
    ASSUME NEW d \in 0..CycleDays - 1, NEW k, InMonth(d, k)
    PROVE  Dates[d].month = (k % MonthsPerYear) + 1 /\ Dates[d].day = d - DaysBefore[k] + 1
<1> DEFINE P(i) == DaysBefore[i] <= d /\ d < DaysBefore[i + 1]
           c == CHOOSE i \in 0..(LeapEvery * MonthsPerYear - 1) : P(i)
<1>1. ASSUME NEW i \in 0..Months - 1 PROVE P(i) <=> InMonth(d, i)
  BY Sums DEF InMonth
<1>2. k \in 0..Months - 1 /\ P(k)
  <2>1. k \in 0..Months - 1
    BY DEF InMonth
  <2>2. QED
    BY <1>1, <2>1
<1>3. c \in 0..Months - 1 /\ P(c)
  <2> HIDE DEF P
  <2>1. QED
    BY <1>2 DEF Months
<1>4. c = k
  <2>1. InMonth(d, c)
    BY <1>1, <1>3
  <2>2. d \in Nat
    BY CycleType
  <2> HIDE DEF c
  <2>3. QED
    BY <2>1, <2>2, OneMonth
<1>5. Dates[d] = [month |-> (c % MonthsPerYear) + 1, day |-> d - DaysBefore[c] + 1]
  BY DEF Dates
<1>6. QED
  <2> HIDE DEF c
  <2>1. QED
    BY <1>4, <1>5

\* The longest month is as long as any.
LEMMA LongestMonthSays ==
    LongestMonth \in Nat \ {0} /\ \A k \in Nat : MonthLength(k) <= LongestMonth
<1> DEFINE M == MonthsPerYear
           S == {MonthLength(k) : k \in 0..(M - 1)}
<1>1. M \in Nat \ {0} /\ M \in 0..Months /\ Months \in Nat
  BY Sizes
<1>2. DaysBefore[M] \in Nat
  BY <1>1, DaysBeforeSays
<1>3. ASSUME NEW k \in 0..M - 1 PROVE MonthLength(k) \in 0..DaysBefore[M]
  <2>1. k \in 0..Months /\ k < M /\ k \in 0..Months - 1
    BY <1>1
  <2>2. DaysBefore[k] + MonthLength(k) <= DaysBefore[M] /\ DaysBefore[k] \in Nat /\ MonthLength(k) \in Nat
    BY <1>1, <2>1, MonthsInOrder, Sums
  <2>3. QED
    BY <1>2, <2>2
<1>4. S \in SUBSET (0..DaysBefore[M]) /\ S # {}
  <2>1. 0 \in 0..M - 1
    BY <1>1
  <2>2. QED
    BY <1>3, <2>1
<1>5. \E m \in S : \A l \in S : l <= m
  <2> HIDE DEF S
  <2>1. QED
    BY <1>2, <1>4, Largest
<1>6. \E m \in S : \A k \in 0..(M - 1) : MonthLength(k) <= m
  BY <1>5
<1>7. LongestMonth \in S /\ \A k \in 0..(M - 1) : MonthLength(k) <= LongestMonth
  <2> DEFINE Q(m) == \A k \in 0..(M - 1) : MonthLength(k) <= m
  <2>1. LongestMonth = CHOOSE m \in S : Q(m)
    BY DEF LongestMonth
  <2>2. \E m \in S : Q(m)
    BY <1>6
  <2> HIDE DEF Q, S
  <2>3. LongestMonth \in S /\ Q(LongestMonth)
    BY <2>1, <2>2
  <2>4. QED
    BY <2>3 DEF Q
<1>8. LongestMonth \in Nat \ {0}
  <2>1. PICK k \in 0..M - 1 : LongestMonth = MonthLength(k)
    BY <1>7
  <2>2. k \in Nat
    BY <1>1
  <2>3. QED
    BY <2>1, <2>2, LengthSays
<1>9. ASSUME NEW k \in Nat PROVE MonthLength(k) <= LongestMonth
  <2>1. k % M \in 0..M - 1 /\ MonthLength(k) \in Nat /\ MonthLength(k) <= MonthLength(k % M)
    BY LengthSays
  <2>2. MonthLength(k % M) <= LongestMonth /\ k % M \in Nat
    BY <1>1, <1>7, <2>1
  <2>3. MonthLength(k % M) \in Nat
    BY <2>2, LengthSays
  <2> HIDE DEF M
  <2>4. QED
    BY <1>8, <2>1, <2>2, <2>3
<1>10. QED
  BY <1>8, <1>9

\* The leap cycle is no longer than its years would be if all were leap years.
LEMMA CycleInYears == LongestYear \in Nat /\ CycleDays <= 4 * LongestYear
<1> DEFINE M == MonthsPerYear
           Y == LongestYear
           S == {k \in 0..Months : DaysBefore[k] <= Y * (k \div M) + DaysBefore[k % M]}
<1>1. M \in Nat \ {0} /\ M \in 0..Months /\ Months \in Nat /\ LeapEvery \in Nat /\ LeapEvery <= 4
  BY Sizes
<1>2. Y \in Nat /\ Y = DaysBefore[M]
  BY <1>1, DaysBeforeSays DEF LongestYear
<1>3. ASSUME NEW k \in 0..Months
      PROVE  /\ k \div M \in Nat /\ k % M \in 0..M - 1 /\ k = M * (k \div M) + (k % M)
             /\ DaysBefore[k % M] \in Nat /\ DaysBefore[k] \in Nat /\ Y * (k \div M) \in Nat
  <2>1. k \in Nat
    BY <1>1
  <2>2. k \div M \in Nat /\ k % M \in 0..M - 1 /\ k = M * (k \div M) + (k % M)
    BY <1>1, <2>1, Quotient
  <2>3. k % M \in 0..Months
    BY <1>1, <2>2
  <2>4. QED
    BY <1>2, <2>2, <2>3, DaysBeforeSays, Product
<1>4. 0 \in S
  <2>1. 0 \div M \in Nat /\ 0 % M = 0 /\ Y * (0 \div M) \in Nat /\ 0 \in 0..Months
    BY <1>1, <1>3
  <2>2. DaysBefore[0] = 0
    BY DaysBeforeSays
  <2>3. 0 <= Y * (0 \div M) + 0
    BY <2>1
  <2>4. QED
    BY <2>1, <2>2, <2>3
<1>5. ASSUME NEW k \in 0..Months - 1, k \in S PROVE k + 1 \in S
  <2> DEFINE q == k \div M
             r == k % M
  <2>1. k \in Nat /\ k \in 0..Months /\ k + 1 \in 0..Months
    BY <1>1
  <2>2. q \in Nat /\ r \in 0..M - 1 /\ k = M * q + r /\ DaysBefore[r] \in Nat /\ DaysBefore[k] \in Nat /\ Y * q \in Nat
    BY <1>3, <2>1
  <2>3. DaysBefore[k] <= Y * q + DaysBefore[r]
    BY <1>5
  <2>4. DaysBefore[k + 1] = DaysBefore[k] + MonthLength(k) /\ MonthLength(k) \in Nat /\ MonthLength(k) <= MonthLength(r)
    BY <2>1, DaysBeforeSays, LengthSays
  <2>5. DaysBefore[r + 1] = DaysBefore[r] + MonthLength(r) /\ MonthLength(r) \in Nat
    <3>1. r \in 0..Months - 1 /\ r \in Nat
      BY <1>1, <2>2
    <3>2. QED
      BY <3>1, DaysBeforeSays, LengthSays
  <2> HIDE DEF q, r, M, Y, S
  <2>6. DaysBefore[k + 1] <= Y * q + DaysBefore[r + 1]
    BY <2>2, <2>3, <2>4, <2>5
  <2>7. CASE r + 1 < M
    <3>1. r + 1 \in 0..M - 1 /\ k + 1 = M * q + (r + 1)
      <4>1. M * q \in Nat
        BY <1>1, <2>2, Product
      <4>2. QED
        BY <1>1, <2>2, <2>7, <4>1
    <3>2. (k + 1) \div M = q /\ (k + 1) % M = r + 1
      <4>1. (M * q + (r + 1)) \div M = q /\ (M * q + (r + 1)) % M = r + 1
        BY <1>1, <2>2, <3>1, QuotientIsUnique
      <4>2. QED
        BY <3>1, <4>1
    <3>3. QED
      BY <2>1, <2>6, <3>2 DEF S
  <2>8. CASE r + 1 >= M
    <3>1. r + 1 = M /\ k + 1 = M * (q + 1) + 0 /\ q + 1 \in Nat /\ 0 \in 0..M - 1
      <4>1. M * q \in Nat /\ M * (q + 1) = M * q + M
        BY <1>1, <2>2, Product, ProductNext
      <4>2. QED
        BY <1>1, <2>2, <2>8, <4>1
    <3>2. (k + 1) \div M = q + 1 /\ (k + 1) % M = 0
      <4>1. (M * (q + 1) + 0) \div M = q + 1 /\ (M * (q + 1) + 0) % M = 0
        BY <1>1, <3>1, QuotientIsUnique
      <4>2. QED
        BY <3>1, <4>1
    <3>3. Y * (q + 1) = Y * q + Y /\ DaysBefore[0] = 0
      BY <1>2, <2>2, ProductNext, DaysBeforeSays
    <3>4. DaysBefore[k + 1] <= Y * (q + 1) + DaysBefore[0]
      BY <1>2, <2>2, <2>6, <3>1, <3>3
    <3>5. QED
      BY <2>1, <3>2, <3>4 DEF S
  <2>9. QED
    BY <1>1, <2>2, <2>7, <2>8
<1>6. Months \in S
  <2> HIDE DEF S
  <2>1. \A k \in 0..Months : k \in S
    BY <1>1, <1>4, <1>5, Climb
  <2>2. QED
    BY <1>1, <2>1
<1>7. Months \div M = LeapEvery /\ Months % M = 0
  <2>1. Months = M * LeapEvery + 0 /\ 0 \in 0..M - 1
    BY <1>1 DEF Months
  <2> HIDE DEF M
  <2>2. QED
    BY <1>1, <2>1, QuotientIsUnique
<1>8. CycleDays <= Y * LeapEvery
  <2>1. DaysBefore[0] = 0
    BY DaysBeforeSays
  <2>2. CycleDays <= Y * LeapEvery + 0
    BY <1>6, <1>7, <2>1 DEF CycleDays, Months
  <2>3. Y * LeapEvery \in Nat
    BY <1>1, <1>2, Product
  <2>4. QED
    BY <2>2, <2>3
<1>9. Y * LeapEvery <= Y * 4
  <2> HIDE DEF Y
  <2>1. QED
    BY <1>1, <1>2, ProductGrows
<1>10. Y * LeapEvery \in Nat /\ Y * 4 \in Nat /\ Y * 4 = 4 * Y /\ CycleDays \in Nat
  BY <1>1, <1>2, Product, CycleType
<1> HIDE DEF Y
<1>11. CycleDays <= 4 * Y
  BY <1>8, <1>9, <1>10
<1>12. QED
  BY <1>2, <1>11 DEF Y

-----------------------------------------------------------------------------
(* The clock *)

\* The r-th minute of the day d.
At(d, r) == MinutesPerDay * d + r

LEMMA AtSays ==
    ASSUME NEW t \in Nat
    PROVE  t \div MinutesPerDay \in Nat /\ t % MinutesPerDay \in 0..MinutesPerDay - 1
           /\ t = At(t \div MinutesPerDay, t % MinutesPerDay)
BY Sizes, Quotient DEF At

\* The clock shows the time of the day, and the date and the day of the week of the day.
LEMMA ClockSays ==
    ASSUME NEW d \in Nat, NEW r \in 0..MinutesPerDay - 1
    PROVE  /\ At(d, r) \in Nat
           /\ Clock(At(d, r)).minute = r % MinutesPerHour
           /\ Clock(At(d, r)).hour = r \div MinutesPerHour
           /\ Clock(At(d, r)).dom = Dates[d % CycleDays].day
           /\ Clock(At(d, r)).month = Dates[d % CycleDays].month
           /\ Clock(At(d, r)).dow = d % WeekDays
           /\ r % MinutesPerHour \in 0..MinutesPerHour - 1
           /\ r \div MinutesPerHour \in 0..HoursPerDay - 1
<1> DEFINE h == MinutesPerHour
           n == HoursPerDay
           m == MinutesPerDay
           x == r \div h
           y == r % h
           t == m * d + r
<1>1. h \in Nat \ {0} /\ n \in Nat \ {0} /\ m \in Nat \ {0} /\ m = h * n
  BY Sizes DEF MinutesPerDay
<1> HIDE DEF h, n, m
<1>2. r \in Nat /\ r < m
  BY <1>1 DEF m
<1>3. x \in Nat /\ y \in 0..h - 1 /\ r = h * x + y
  BY <1>1, <1>2, Quotient
<1> HIDE DEF x, y
<1>4. x \in 0..n - 1
  <2>1. ASSUME n <= x PROVE FALSE
    <3>1. h * n <= h * x /\ h * x \in Nat
      BY <1>1, <1>3, <2>1, ProductGrows, Product
    <3>2. QED
      BY <1>1, <1>2, <1>3, <3>1
  <2>2. QED
    BY <1>1, <1>3, <2>1
<1>5. t = h * (n * d + x) + y /\ n * d + x \in Nat
  <2>1. n * d \in Nat /\ h * x \in Nat
    BY <1>1, <1>3, Product
  <2>2. m * d = h * (n * d) /\ h * (n * d) \in Nat
    <3>1. ASSUME NEW a \in Nat, NEW b \in Nat, NEW c \in Nat PROVE (a * b) * c = a * (b * c) /\ a * (b * c) \in Nat
      OBVIOUS
    <3>2. QED
      BY <1>1, <3>1
  <2>3. h * (n * d + x) = h * (n * d) + h * x
    <3>1. ASSUME NEW a \in Nat, NEW b \in Nat, NEW c \in Nat PROVE a * (b + c) = a * b + a * c
      OBVIOUS
    <3>2. QED
      BY <1>1, <1>3, <2>1, <3>1
  <2>4. QED
    BY <1>1, <1>3, <2>1, <2>2, <2>3
<1>6. (h * (n * d + x) + y) \div h = n * d + x /\ (h * (n * d + x) + y) % h = y
  BY <1>1, <1>3, <1>5, QuotientIsUnique
<1>7. (n * d + x) % n = x
  BY <1>1, <1>4, QuotientIsUnique
<1>8. (m * d + r) \div m = d
  BY <1>1, <1>2, QuotientIsUnique
<1>9. t \in Nat
  BY <1>1, <1>2, Product
<1>10. t \div m = d /\ t % h = y /\ (t \div h) % n = x
  <2>1. t = m * d + r
    OBVIOUS
  <2> HIDE DEF t
  <2>2. QED
    BY <1>5, <1>6, <1>7, <1>8, <2>1
<1> HIDE DEF t
<1>11. Clock(t) = [minute |-> y, hour |-> x, dom |-> Dates[d % CycleDays].day,
                   month |-> Dates[d % CycleDays].month, dow |-> d % WeekDays]
  BY <1>10 DEF Clock, h, n, m
<1>12. At(d, r) = t
  BY DEF At, t, m
<1>13. QED
  BY <1>3, <1>4, <1>9, <1>11, <1>12 DEF x, y, h, n

\* What it shows is in the range of the field.
LEMMA DateInRange ==
    ASSUME NEW d \in Nat
    PROVE  /\ d % CycleDays \in 0..CycleDays - 1
           /\ Dates[d % CycleDays].day \in 1..LongestMonth
           /\ Dates[d % CycleDays].month \in 1..MonthsPerYear
<1> DEFINE c == d % CycleDays
<1>1. c \in 0..CycleDays - 1
  BY CycleType, Quotient
<1> HIDE DEF c
<1>2. PICK k : InMonth(c, k)
  BY <1>1, MonthOf
<1>3. Dates[c].month = (k % MonthsPerYear) + 1 /\ Dates[c].day = c - DaysBefore[k] + 1
  BY <1>1, <1>2, DatesSay
<1>4. k \in Nat /\ DaysBefore[k] \in Nat /\ DaysBefore[k] <= c /\ c < DaysBefore[k] + MonthLength(k)
  BY <1>2, Sums DEF InMonth
<1>5. k % MonthsPerYear \in 0..MonthsPerYear - 1 /\ MonthLength(k) \in Nat /\ MonthLength(k) <= LongestMonth
      /\ LongestMonth \in Nat /\ MonthsPerYear \in Nat /\ c \in Nat
  BY <1>1, <1>4, LengthSays, LongestMonthSays, Sizes, CycleType
<1>6. QED
  BY <1>1, <1>3, <1>4, <1>5 DEF c

-----------------------------------------------------------------------------
(* Items and fields *)

Items == [kind : STRING, from : Int, to : Int, step : Int]

\* The loop of parseField reaches exactly the values an item names.
LEMMA ItemSays ==
    ASSUME NEW item, item.from \in Int, item.to \in Int, item.step \in Int,
           NEW lo \in 0..1, NEW hi \in Nat, ItemOK(item, lo, hi), NEW v \in lo..hi
    PROVE  v \in Bits(item, lo, hi) <=> Names(item, v, lo, hi)
<1> DEFINE f == From(item, lo)
           g == To(item, hi)
           s == IF item.step = NoStep THEN 1 ELSE item.step
           w == Stride(item, lo, hi)
           e == v - f
<1>1. f \in Int /\ g \in Int /\ f >= lo /\ g <= hi /\ s \in Nat \ {0} /\ v \in Nat
  BY DEF ItemOK, From, To, NoStep
<1>2. w \in Nat \ {0} /\ (w = s \/ (w < s /\ w = hi - lo + 1))
  <2>1. ASSUME NEW x \in Nat \ {0} PROVE hi - lo + 1 \in Nat
    OBVIOUS
  <2>2. hi - lo + 1 \in Nat \ {0}
    OBVIOUS
  <2>3. QED
    BY <1>1, <2>2 DEF Stride, Smaller
<1>3. v \in Bits(item, lo, hi) <=> v \in f..g /\ e % w = 0
  BY DEF Bits
<1>4. Names(item, v, lo, hi) <=> f <= v /\ v <= g /\ \E k \in 0..hi : v = f + k * s
  BY DEF Names
<1> HIDE DEF f, g, s, w
<1>5. v \in f..g <=> f <= v /\ v <= g
  BY <1>1
<1>6. ASSUME f <= v PROVE e % w = 0 <=> \E k \in 0..hi : v = f + k * s
  <2>1. e \in Nat /\ e <= hi - lo /\ e <= hi /\ v = f + e
    BY <1>1, <1>6
  <2>2. ASSUME e % w = 0 PROVE \E k \in 0..hi : v = f + k * s
    <3>1. e \div w \in Nat /\ e = w * (e \div w) + (e % w)
      BY <1>2, <2>1, Quotient
    <3> DEFINE q == e \div w
    <3> HIDE DEF q, e
    <3>2. q \in Nat /\ e = w * q /\ q <= e
      <4>1. q \in Nat /\ w * q \in Nat /\ e = w * q
        BY <1>2, <2>2, <3>1, Product DEF q
      <4>2. ASSUME NEW a \in Nat \ {0}, NEW b \in Nat PROVE b <= a * b
        OBVIOUS
      <4>3. QED
        BY <1>2, <4>1, <4>2
    <3>3. CASE w = s
      <4>1. q \in 0..hi /\ e = q * s
        BY <1>1, <2>1, <3>2, <3>3, Product
      <4>2. QED
        BY <2>1, <4>1
    <3>4. CASE w # s
      <4>1. e < w
        BY <1>2, <2>1, <3>4
      <4>2. q = 0
        <5>1. ASSUME NEW a \in Nat \ {0}, NEW b \in Nat \ {0} PROVE a <= a * b
          OBVIOUS
        <5>2. q # 0 => w <= w * q
          BY <1>2, <3>2, <5>1
        <5>3. QED
          BY <1>2, <2>1, <3>2, <4>1, <5>2
      <4>3. e = 0
        BY <1>2, <3>2, <4>2
      <4>4. 0 \in 0..hi /\ v = f + 0 * s
        BY <1>1, <2>1, <4>3
      <4>5. QED
        BY <4>4
    <3>5. QED
      BY <3>3, <3>4
  <2>3. ASSUME NEW k \in 0..hi, v = f + k * s PROVE e % w = 0
    <3>1. k \in Nat /\ k * s \in Nat /\ k * s = s * k
      BY <1>1, Product
    <3>2. e = s * k
      BY <1>1, <2>3, <3>1
    <3> HIDE DEF e
    <3>3. CASE w = s
      <4>1. (w * k + 0) % w = 0
        <5>1. 0 \in 0..w - 1
          BY <1>2
        <5>2. QED
          BY <1>2, <3>1, <5>1, QuotientIsUnique
      <4>2. w * k + 0 = e
        BY <2>1, <3>2, <3>3
      <4>3. QED
        BY <4>1, <4>2
    <3>4. CASE w # s
      <4>1. e < s /\ w \in Nat \ {0}
        BY <1>1, <1>2, <2>1, <3>4
      <4>2. k = 0
        <5>1. ASSUME NEW a \in Nat \ {0}, NEW b \in Nat \ {0} PROVE a <= a * b
          OBVIOUS
        <5>2. k # 0 => s <= s * k
          BY <1>1, <3>1, <5>1
        <5>3. QED
          BY <1>1, <2>1, <3>2, <4>1, <5>2
      <4>3. e = 0
        BY <1>1, <3>2, <4>2
      <4>4. 0 % w = 0
        BY <4>1
      <4>5. QED
        BY <4>3, <4>4
    <3>5. QED
      BY <3>3, <3>4
  <2>4. QED
    BY <2>2, <2>3
<1>7. QED
  <2> HIDE DEF e
  <2>1. QED
    BY <1>3, <1>4, <1>5, <1>6

\* Some item of the field names v.
HoldsFor(items, v, name) == \E j \in DOMAIN items : Names(items[j], v, Lo(name), Hi(name))

LEMMA FieldBounds ==
    ASSUME NEW i \in 1..5
    PROVE  Lo(FieldNames[i]) \in 0..1 /\ Hi(FieldNames[i]) \in Nat /\ Lo(FieldNames[i]) <= Hi(FieldNames[i])
<1>1. /\ Lo("minute") = 0 /\ Lo("hour") = 0 /\ Lo("dow") = 0 /\ Lo("dom") = 1 /\ Lo("month") = 1
  BY DEF Lo
<1>2. /\ Hi("minute") = MinutesPerHour - 1 /\ Hi("hour") = HoursPerDay - 1 /\ Hi("dow") = WeekDays - 1
      /\ Hi("dom") = LongestMonth /\ Hi("month") = MonthsPerYear
  BY DEF Hi
<1>3. FieldNames[i] \in {"minute", "hour", "dom", "month", "dow"}
  <2>1. i = 1 \/ i = 2 \/ i = 3 \/ i = 4 \/ i = 5
    OBVIOUS
  <2>2. QED
    BY <2>1 DEF FieldNames
<1>4. LongestMonth \in Nat \ {0}
  BY LongestMonthSays
<1>5. QED
  BY <1>1, <1>2, <1>3, <1>4, Sizes

\* The bits of a field are the values its items name.
LEMMA FieldSays ==
    ASSUME NEW items \in Seq(Items), NEW lo \in 0..1, NEW hi \in Nat, FieldOK(items, lo, hi),
           NEW v \in lo..hi
    PROVE  v \in ParseField(items, lo, hi).bits <=> \E j \in DOMAIN items : Names(items[j], v, lo, hi)
<1>1. ParseField(items, lo, hi).bits = UNION {Bits(items[i], lo, hi) : i \in DOMAIN items}
  BY DEF ParseField
<1>2. ASSUME NEW j \in DOMAIN items PROVE v \in Bits(items[j], lo, hi) <=> Names(items[j], v, lo, hi)
  <2>1. \A D : \A s \in Seq(D) : \A i \in DOMAIN s : s[i] \in D
    OBVIOUS
  <2>2. items[j] \in Items
    BY <2>1
  <2>3. items[j].from \in Int /\ items[j].to \in Int /\ items[j].step \in Int
    BY <2>2 DEF Items
  <2>4. ItemOK(items[j], lo, hi)
    BY DEF FieldOK
  <2>5. QED
    BY <2>3, <2>4, ItemSays
<1>3. QED
  BY <1>1, <1>2

\* A bare star holds at every time.
LEMMA BareStarHolds ==
    ASSUME NEW lo \in 0..1, NEW hi \in Nat, NEW v \in lo..hi
    PROVE  \E j \in DOMAIN <<BareStar>> : Names(<<BareStar>>[j], v, lo, hi)
<1>1. 1 \in DOMAIN <<BareStar>> /\ <<BareStar>>[1] = BareStar
  OBVIOUS
<1>2. BareStar.kind = "star" /\ BareStar.step = NoStep
  BY DEF BareStar
<1>3. From(BareStar, lo) = lo /\ To(BareStar, hi) = hi
  BY <1>2 DEF From, To
<1>4. v - lo \in 0..hi /\ v = lo + (v - lo) * 1
  OBVIOUS
<1>5. Names(BareStar, v, lo, hi)
  BY <1>2, <1>3, <1>4 DEF Names
<1>6. QED
  BY <1>1, <1>5

Exprs == Seq(Seq(Items))

\* The days a schedule and the fields of its expression match.
LEMMA ParsedFields ==
    ASSUME NEW expr
    PROVE  LET s == ParseExpr(expr)
           IN  /\ s.minute = ParseField(expr[1], Lo("minute"), Hi("minute"))
               /\ s.hour = ParseField(expr[2], Lo("hour"), Hi("hour"))
               /\ s.dom = ParseField(expr[3], Lo("dom"), Hi("dom"))
               /\ s.month = ParseField(expr[4], Lo("month"), Hi("month"))
               /\ s.dow = ParseField(expr[5], Lo("dow"), Hi("dow"))
<1> DEFINE I(name) == CHOOSE i \in 1..5 : FieldNames[i] = name
<1>1. /\ FieldNames[1] = "minute" /\ FieldNames[2] = "hour" /\ FieldNames[3] = "dom"
      /\ FieldNames[4] = "month" /\ FieldNames[5] = "dow"
  BY DEF FieldNames
<1>2. \A i \in 1..5 : i = 1 \/ i = 2 \/ i = 3 \/ i = 4 \/ i = 5
  OBVIOUS
<1>3. I("minute") = 1 /\ I("hour") = 2 /\ I("dom") = 3 /\ I("month") = 4 /\ I("dow") = 5
  BY <1>1, <1>2
<1>4. \A name \in {FieldNames[i] : i \in 1..5} :
          ParseExpr(expr)[name] = ParseField(expr[I(name)], Lo(name), Hi(name))
  <2> HIDE DEF I
  <2>1. ParseExpr(expr) = [name \in {FieldNames[i] : i \in 1..5} |-> ParseField(expr[I(name)], Lo(name), Hi(name))]
    BY DEF ParseExpr, I
  <2>2. QED
    BY <2>1
<1> HIDE DEF I
<1>5. {"minute", "hour", "dom", "month", "dow"} \subseteq {FieldNames[i] : i \in 1..5}
  BY <1>1
<1>6. QED
  BY <1>3, <1>4, <1>5

LEMMA FiresSays ==
    ASSUME NEW expr, NEW t
    PROVE  LET clock == Clock(t)
               dom == HoldsFor(expr[3], clock.dom, "dom")
               dow == HoldsFor(expr[5], clock.dow, "dow")
           IN  Fires(expr, t) <=>
                   /\ HoldsFor(expr[1], clock.minute, "minute") /\ HoldsFor(expr[2], clock.hour, "hour")
                   /\ HoldsFor(expr[4], clock.month, "month")
                   /\ IF expr[3] # <<BareStar>> /\ expr[5] # <<BareStar>> THEN dom \/ dow ELSE dom /\ dow
<1>1. /\ FieldNames[1] = "minute" /\ FieldNames[2] = "hour" /\ FieldNames[3] = "dom"
      /\ FieldNames[4] = "month" /\ FieldNames[5] = "dow"
  BY DEF FieldNames
<1> DEFINE c == Clock(t)
<1>2. /\ c["minute"] = c.minute /\ c["hour"] = c.hour /\ c["dom"] = c.dom
      /\ c["month"] = c.month /\ c["dow"] = c.dow
  OBVIOUS
<1> HIDE DEF c
<1>3. QED
  BY <1>1, <1>2 DEF Fires, HoldsFor, c

\* What the fields of an expression have to say of a time.
LEMMA InRangeOfFields ==
    ASSUME NEW t \in Nat
    PROVE  LET clock == Clock(t)
           IN  /\ clock.minute \in Lo("minute")..Hi("minute") /\ clock.hour \in Lo("hour")..Hi("hour")
               /\ clock.dom \in Lo("dom")..Hi("dom") /\ clock.month \in Lo("month")..Hi("month")
               /\ clock.dow \in Lo("dow")..Hi("dow")
<1> DEFINE d == t \div MinutesPerDay
           r == t % MinutesPerDay
<1>1. d \in Nat /\ r \in 0..MinutesPerDay - 1 /\ t = At(d, r)
  BY AtSays
<1> HIDE DEF d, r
<1>2. /\ Clock(t).minute \in 0..MinutesPerHour - 1 /\ Clock(t).hour \in 0..HoursPerDay - 1
      /\ Clock(t).dom = Dates[d % CycleDays].day
      /\ Clock(t).month = Dates[d % CycleDays].month
      /\ Clock(t).dow = d % WeekDays
  BY <1>1, ClockSays
<1>3. Clock(t).dom \in 1..LongestMonth /\ Clock(t).month \in 1..MonthsPerYear
  BY <1>1, <1>2, DateInRange
<1>4. Clock(t).dow \in 0..WeekDays - 1
  BY <1>1, <1>2, Sizes, Quotient
<1>5. /\ Lo("minute") = 0 /\ Lo("hour") = 0 /\ Lo("dow") = 0 /\ Lo("dom") = 1 /\ Lo("month") = 1
  BY DEF Lo
<1>6. /\ Hi("minute") = MinutesPerHour - 1 /\ Hi("hour") = HoursPerDay - 1 /\ Hi("dow") = WeekDays - 1
      /\ Hi("dom") = LongestMonth /\ Hi("month") = MonthsPerYear
  BY DEF Hi
<1>7. QED
  BY <1>2, <1>3, <1>4, <1>5, <1>6

\* A schedule matches when its expression fires.
LEMMA MatchesSays ==
    ASSUME NEW expr \in Exprs, ExprOK(expr), NEW t \in Nat
    PROVE  ScheduleMatches(ParseExpr(expr), t) <=> Fires(expr, t)
<1> DEFINE s == ParseExpr(expr)
           clock == Clock(t)
<1>1. \A i \in 1..5 : expr[i] \in Seq(Items) /\ FieldOK(expr[i], Lo(FieldNames[i]), Hi(FieldNames[i]))
  <2>1. \A i \in 1..5 : i \in DOMAIN expr
    BY DEF ExprOK, Exprs
  <2>2. \A D : \A q \in Seq(D) : \A i \in DOMAIN q : q[i] \in D
    OBVIOUS
  <2>3. QED
    BY <2>1, <2>2 DEF Exprs, ExprOK
<1>2. ASSUME NEW i \in 1..5, NEW v \in Lo(FieldNames[i])..Hi(FieldNames[i])
      PROVE  v \in ParseField(expr[i], Lo(FieldNames[i]), Hi(FieldNames[i])).bits <=> HoldsFor(expr[i], v, FieldNames[i])
  BY <1>1, FieldBounds, FieldSays DEF HoldsFor
<1>3. /\ FieldNames[1] = "minute" /\ FieldNames[2] = "hour" /\ FieldNames[3] = "dom"
      /\ FieldNames[4] = "month" /\ FieldNames[5] = "dow"
      /\ 1 \in 1..5 /\ 2 \in 1..5 /\ 3 \in 1..5 /\ 4 \in 1..5 /\ 5 \in 1..5
  BY DEF FieldNames
<1>4. /\ clock.minute \in Lo("minute")..Hi("minute") /\ clock.hour \in Lo("hour")..Hi("hour")
      /\ clock.dom \in Lo("dom")..Hi("dom") /\ clock.month \in Lo("month")..Hi("month")
      /\ clock.dow \in Lo("dow")..Hi("dow")
  BY InRangeOfFields
<1>5. /\ clock.minute \in s.minute.bits <=> HoldsFor(expr[1], clock.minute, "minute")
      /\ clock.hour \in s.hour.bits <=> HoldsFor(expr[2], clock.hour, "hour")
      /\ clock.dom \in s.dom.bits <=> HoldsFor(expr[3], clock.dom, "dom")
      /\ clock.month \in s.month.bits <=> HoldsFor(expr[4], clock.month, "month")
      /\ clock.dow \in s.dow.bits <=> HoldsFor(expr[5], clock.dow, "dow")
  <2> HIDE DEF clock, s
  <2>1. /\ s.minute = ParseField(expr[1], Lo("minute"), Hi("minute"))
        /\ s.hour = ParseField(expr[2], Lo("hour"), Hi("hour"))
        /\ s.dom = ParseField(expr[3], Lo("dom"), Hi("dom"))
        /\ s.month = ParseField(expr[4], Lo("month"), Hi("month"))
        /\ s.dow = ParseField(expr[5], Lo("dow"), Hi("dow"))
    BY ParsedFields DEF s
  <2>2. clock.minute \in s.minute.bits <=> HoldsFor(expr[1], clock.minute, "minute")
    BY <1>2, <1>3, <1>4, <2>1
  <2>3. clock.hour \in s.hour.bits <=> HoldsFor(expr[2], clock.hour, "hour")
    BY <1>2, <1>3, <1>4, <2>1
  <2>4. clock.dom \in s.dom.bits <=> HoldsFor(expr[3], clock.dom, "dom")
    BY <1>2, <1>3, <1>4, <2>1
  <2>5. clock.month \in s.month.bits <=> HoldsFor(expr[4], clock.month, "month")
    BY <1>2, <1>3, <1>4, <2>1
  <2>6. clock.dow \in s.dow.bits <=> HoldsFor(expr[5], clock.dow, "dow")
    BY <1>2, <1>3, <1>4, <2>1
  <2>7. QED
    BY <2>2, <2>3, <2>4, <2>5, <2>6
<1>6. s.dom.restricted = (expr[3] # <<BareStar>>) /\ s.dow.restricted = (expr[5] # <<BareStar>>)
  <2>1. /\ s.dom = ParseField(expr[3], Lo("dom"), Hi("dom"))
        /\ s.dow = ParseField(expr[5], Lo("dow"), Hi("dow"))
    BY ParsedFields
  <2> HIDE DEF s
  <2>2. QED
    BY <2>1 DEF ParseField
<1>7. /\ expr[3] = <<BareStar>> => HoldsFor(expr[3], clock.dom, "dom")
      /\ expr[5] = <<BareStar>> => HoldsFor(expr[5], clock.dow, "dow")
  <2> HIDE DEF clock
  <2>1. Lo("dom") \in 0..1 /\ Hi("dom") \in Nat /\ Lo("dow") \in 0..1 /\ Hi("dow") \in Nat
    BY <1>3, FieldBounds
  <2>2. /\ \E j \in DOMAIN <<BareStar>> : Names(<<BareStar>>[j], clock.dom, Lo("dom"), Hi("dom"))
        /\ \E j \in DOMAIN <<BareStar>> : Names(<<BareStar>>[j], clock.dow, Lo("dow"), Hi("dow"))
    BY <1>4, <2>1, BareStarHolds
  <2>3. QED
    BY <2>2 DEF HoldsFor
<1>8. ScheduleMatches(s, t) <=>
          /\ clock.minute \in s.minute.bits /\ clock.hour \in s.hour.bits /\ clock.month \in s.month.bits
          /\ \/ s.dom.restricted /\ clock.dom \in s.dom.bits
             \/ s.dow.restricted /\ clock.dow \in s.dow.bits
             \/ ~s.dom.restricted /\ ~s.dow.restricted
  BY DEF ScheduleMatches, DayMatches
<1>9. Fires(expr, t) <=>
                   /\ HoldsFor(expr[1], clock.minute, "minute") /\ HoldsFor(expr[2], clock.hour, "hour")
                   /\ HoldsFor(expr[4], clock.month, "month")
                   /\ IF expr[3] # <<BareStar>> /\ expr[5] # <<BareStar>>
                      THEN HoldsFor(expr[3], clock.dom, "dom") \/ HoldsFor(expr[5], clock.dow, "dow")
                      ELSE HoldsFor(expr[3], clock.dom, "dom") /\ HoldsFor(expr[5], clock.dow, "dow")
  BY FiresSays
<1> HIDE DEF s, clock
<1>10. ScheduleMatches(s, t) <=> Fires(expr, t)
  BY <1>5, <1>6, <1>7, <1>8, <1>9
<1>11. QED
  BY <1>10 DEF s

-----------------------------------------------------------------------------
(* The search is long enough *)

\* A day d lies d - d0 days after d0: its minutes lie in the search from F on.
LEMMA InSearch ==
    ASSUME NEW F \in Nat, NEW d \in Nat, NEW r \in 0..MinutesPerDay - 1,
           \/ /\ F \div MinutesPerDay + 1 <= d
              /\ d <= F \div MinutesPerDay + 4 * LongestYear - 1
           \/ /\ F % MinutesPerDay <= r
              /\ F \div MinutesPerDay <= d
              /\ d <= F \div MinutesPerDay + 4 * LongestYear - 1
           \/ /\ r < F % MinutesPerDay
              /\ F \div MinutesPerDay + 1 <= d
              /\ d <= F \div MinutesPerDay + 4 * LongestYear
    PROVE  At(d, r) \in F..F + SearchMinutes - 1
<1> DEFINE m == MinutesPerDay
           b == F \div m
           q == F % m
           y == 4 * LongestYear
<1>1. m \in Nat \ {0} /\ b \in Nat /\ q \in 0..m - 1 /\ F = m * b + q /\ y \in Nat
  <2>1. y \in Nat
    <3>1. LongestYear \in Nat
      BY CycleInYears
    <3> HIDE DEF m
    <3>2. QED
      BY <3>1
  <2>2. m \in Nat \ {0}
    BY Sizes
  <2>3. F \div m \in Nat /\ F % m \in 0..m - 1 /\ F = m * (F \div m) + (F % m)
    <3> HIDE DEF m
    <3>1. QED
      BY <2>2, Quotient
  <2>4. QED
    BY <2>1, <2>2, <2>3
<1>2. SearchMinutes = m * y
  <2>1. SearchMinutes = y * m
    BY DEF SearchMinutes
  <2> HIDE DEF m, y
  <2>2. QED
    BY <1>1, <2>1, Product
<1>3. At(d, r) = m * d + r /\ r \in 0..m - 1
  BY DEF At
<1>4. \/ b + 1 <= d /\ d <= b + y - 1
      \/ q <= r /\ b <= d /\ d <= b + y - 1
      \/ r < q /\ b + 1 <= d /\ d <= b + y
  OBVIOUS
<1> HIDE DEF m, b, q, y
<1>5. m * b \in Nat /\ m * d \in Nat /\ m * y \in Nat /\ m * (b + 1) = m * b + m
      /\ m * (b + y) = m * b + m * y /\ m * (d + 1) = m * d + m
  <2>1. m * (b + y) = m * b + m * y
    <3>1. ASSUME NEW c \in Nat, NEW e \in Nat, NEW f \in Nat PROVE c * (e + f) = c * e + c * f
      OBVIOUS
    <3>2. QED
      BY <1>1, <3>1
  <2>2. QED
    BY <1>1, <2>1, Product, ProductNext
<1>6. /\ b <= d => m * b <= m * d
      /\ b + 1 <= d => m * (b + 1) <= m * d
      /\ d + 1 <= b + y => m * (d + 1) <= m * (b + y)
      /\ d <= b + y => m * d <= m * (b + y)
  <2>1. b + 1 \in Nat /\ b + y \in Nat /\ d + 1 \in Nat /\ m \in Nat
    BY <1>1
  <2>2. QED
    BY <1>1, <2>1, ProductGrows
<1>7. F <= m * d + r
  BY <1>1, <1>3, <1>4, <1>5, <1>6
<1>8. m * d + r < F + m * y
  BY <1>1, <1>3, <1>4, <1>5, <1>6
<1>9. QED
  BY <1>1, <1>2, <1>3, <1>5, <1>7, <1>8

\* The day fields of an expression allow a day for the date alone, or for the
\* day of the week alone.
ByDate(expr, day) ==
    HoldsFor(expr[3], day, "dom") /\ (expr[5] = <<BareStar>> \/ expr[3] # <<BareStar>>)
ByWeekDay(expr, day) ==
    HoldsFor(expr[5], day, "dow") /\ (expr[3] = <<BareStar>> \/ expr[5] # <<BareStar>>)

LEMMA DayAlone ==
    ASSUME NEW expr, NEW t \in Nat
    PROVE  Fires(expr, t) <=>
               /\ HoldsFor(expr[1], Clock(t).minute, "minute") /\ HoldsFor(expr[2], Clock(t).hour, "hour")
               /\ HoldsFor(expr[4], Clock(t).month, "month")
               /\ ByDate(expr, Clock(t).dom) \/ ByWeekDay(expr, Clock(t).dow)
<1> DEFINE clock == Clock(t)
           dom == HoldsFor(expr[3], clock.dom, "dom")
           dow == HoldsFor(expr[5], clock.dow, "dow")
<1>1. Fires(expr, t) <=>
                   /\ HoldsFor(expr[1], clock.minute, "minute") /\ HoldsFor(expr[2], clock.hour, "hour")
                   /\ HoldsFor(expr[4], clock.month, "month")
                   /\ IF expr[3] # <<BareStar>> /\ expr[5] # <<BareStar>> THEN dom \/ dow ELSE dom /\ dow
  BY FiresSays
<1>2. /\ expr[3] = <<BareStar>> => dom
      /\ expr[5] = <<BareStar>> => dow
  <2> HIDE DEF clock
  <2>1. clock.dom \in Lo("dom")..Hi("dom") /\ clock.dow \in Lo("dow")..Hi("dow")
    BY InRangeOfFields DEF clock
  <2>2. Lo("dom") \in 0..1 /\ Hi("dom") \in Nat /\ Lo("dow") \in 0..1 /\ Hi("dow") \in Nat
    <3>1. FieldNames[3] = "dom" /\ FieldNames[5] = "dow" /\ 3 \in 1..5 /\ 5 \in 1..5
      BY DEF FieldNames
    <3>2. QED
      BY <3>1, FieldBounds
  <2>3. /\ \E j \in DOMAIN <<BareStar>> : Names(<<BareStar>>[j], clock.dom, Lo("dom"), Hi("dom"))
        /\ \E j \in DOMAIN <<BareStar>> : Names(<<BareStar>>[j], clock.dow, Lo("dow"), Hi("dow"))
    BY <2>1, <2>2, BareStarHolds
  <2>4. QED
    BY <2>3 DEF HoldsFor
<1>3. ByDate(expr, clock.dom) <=> dom /\ (expr[5] = <<BareStar>> \/ expr[3] # <<BareStar>>)
  BY DEF ByDate
<1>4. ByWeekDay(expr, clock.dow) <=> dow /\ (expr[3] = <<BareStar>> \/ expr[5] # <<BareStar>>)
  BY DEF ByWeekDay
<1> HIDE DEF dom, dow
<1>5. QED
  BY <1>1, <1>2, <1>3, <1>4

\* The first day of a month of some year, among the days of the search: with
\* the days of a week that follow it.
LEMMA WeekOfMonth ==
    ASSUME NEW b \in Nat, NEW j \in 0..MonthsPerYear - 1
    PROVE  \E t \in Nat, k \in 0..Months - 1 :
               /\ k % MonthsPerYear = j /\ b + 1 <= t /\ t + WeekDays <= b + CycleDays
               /\ \A i \in 0..WeekDays - 1 : InMonth((t + i) % CycleDays, k)
<1> DEFINE C == CycleDays
           M == MonthsPerYear
           w == WeekDays
           x == b + 1
           q == x \div C
           p == x % C
           s0 == DaysBefore[j]
           s1 == DaysBefore[M + j]
<1>1. C \in Nat \ {0} /\ M \in Nat \ {0} /\ w \in Nat \ {0} /\ x \in Nat /\ 2 * M <= Months /\ Months \in Nat
  BY CycleType, Sizes
<1>2. q \in Nat /\ p \in 0..C - 1 /\ x = C * q + p
  BY <1>1, Quotient
<1>3. j \in 0..Months - 1 /\ M + j \in 0..Months - 1 /\ j < M + j /\ j \in Nat
  BY <1>1
<1>4. j % M = j /\ (M + j) % M = j
  <2>1. (M * 0 + j) % M = j /\ (M * 1 + j) % M = j
    <3> HIDE DEF M
    <3>1. QED
      BY <1>1, QuotientIsUnique DEF M
  <2>2. M * 0 + j = j /\ M * 1 + j = M + j
    BY <1>1, <1>3
  <2>3. QED
    BY <2>1, <2>2
<1>5. /\ s0 \in Nat /\ s1 \in Nat /\ s0 + w <= s0 + MonthLength(j) /\ s1 + w <= s1 + MonthLength(M + j)
      /\ MonthLength(j) \in Nat /\ MonthLength(M + j) \in Nat
      /\ s0 + MonthLength(j) <= s1 /\ s1 + MonthLength(M + j) <= C /\ s0 + MonthLength(j) <= C
  <2>1. w <= MonthLength(j) /\ w <= MonthLength(M + j)
    <3>1. M + j \in Nat
      BY <1>1, <1>3
    <3>2. QED
      BY <1>3, <3>1, LengthSays
  <2>2. s0 \in Nat /\ s1 \in Nat /\ MonthLength(j) \in Nat /\ MonthLength(M + j) \in Nat
        /\ s1 + MonthLength(M + j) <= C
    <3>1. DaysBefore[(M + j) + 1] = s1 + MonthLength(M + j) /\ DaysBefore[(M + j) + 1] <= C
      BY <1>3, Sums
    <3>2. QED
      BY <1>3, <3>1, Sums
  <2>3. s0 + MonthLength(j) <= s1
    <3>1. j \in 0..Months /\ M + j \in 0..Months
      BY <1>1, <1>3
    <3>2. QED
      BY <1>3, <3>1, MonthsInOrder
  <2> HIDE DEF s0, s1, w
  <2>4. QED
    BY <1>1, <2>1, <2>2, <2>3
<1> HIDE DEF C, w, x, q, p, s0, s1
\* t is the first day of month k in the n-th cycle.
<1>6. ASSUME NEW n \in Nat, NEW s \in Nat, NEW k \in 0..Months - 1, DaysBefore[k] = s,
             s + w <= s + MonthLength(k), s + MonthLength(k) <= C, MonthLength(k) \in Nat
      PROVE  C * n + s \in Nat /\ \A i \in 0..w - 1 : InMonth((C * n + s + i) % C, k)
  <2>1. C * n \in Nat
    BY <1>1, Product
  <2>2. ASSUME NEW i \in 0..w - 1 PROVE InMonth((C * n + s + i) % C, k)
    <3>1. s + i \in 0..C - 1 /\ s <= s + i /\ s + i < s + MonthLength(k)
      BY <1>1, <1>6
    <3>2. (C * n + (s + i)) % C = s + i
      BY <1>1, <3>1, QuotientIsUnique
    <3>3. C * n + (s + i) = C * n + s + i
      BY <1>1, <2>1
    <3>4. QED
      BY <1>6, <3>1, <3>2, <3>3 DEF InMonth
  <2>3. QED
    BY <2>1, <2>2
<1>7. ASSUME NEW n \in Nat PROVE C * n + s0 \in Nat /\ \A i \in 0..w - 1 : InMonth((C * n + s0 + i) % C, j)
  <2>1. DaysBefore[j] = s0
    BY DEF s0
  <2>2. QED
    BY <1>3, <1>5, <1>6, <2>1
<1>8. C * q \in Nat /\ C * (q + 1) = C * q + C /\ q + 1 \in Nat
  BY <1>1, <1>2, Product, ProductNext
<1>9. CASE p <= s0
  <2> DEFINE t == C * q + s0
  <2>1. t \in Nat /\ \A i \in 0..w - 1 : InMonth((t + i) % C, j)
    BY <1>2, <1>7
  <2>2. x <= t /\ t + w < x + C
    BY <1>1, <1>2, <1>5, <1>8, <1>9
  <2> HIDE DEF t
  <2>3. b + 1 <= t /\ t + w <= b + C
    BY <1>1, <2>1, <2>2 DEF x
  <2>4. QED
    BY <1>3, <1>4, <2>1, <2>3 DEF C, M, w
<1>10. CASE s0 < p /\ p <= s1
  <2> DEFINE t == C * q + s1
  <2>1. t \in Nat /\ \A i \in 0..w - 1 : InMonth((t + i) % C, M + j)
    BY <1>2, <1>3, <1>5, <1>6 DEF s1
  <2>2. x <= t /\ t + w < x + C
    BY <1>1, <1>2, <1>5, <1>8, <1>10
  <2> HIDE DEF t
  <2>3. b + 1 <= t /\ t + w <= b + C
    BY <1>1, <2>1, <2>2 DEF x
  <2>4. QED
    BY <1>3, <1>4, <2>1, <2>3 DEF C, M, w
<1>11. CASE s1 < p
  <2> DEFINE t == C * (q + 1) + s0
  <2>1. t \in Nat /\ \A i \in 0..w - 1 : InMonth((t + i) % C, j)
    BY <1>8, <1>7
  <2>2. x <= t /\ t + w < x + C
    BY <1>1, <1>2, <1>5, <1>8, <1>11
  <2> HIDE DEF t
  <2>3. b + 1 <= t /\ t + w <= b + C
    BY <1>1, <2>1, <2>2 DEF x
  <2>4. QED
    BY <1>3, <1>4, <2>1, <2>3 DEF C, M, w
<1>12. QED
  BY <1>2, <1>5, <1>9, <1>10, <1>11

\* An expression fires at the same minute of any day that its day fields allow
\* in the same month.
LEMMA FiresOn ==
    ASSUME NEW expr, NEW d \in Nat, NEW e \in Nat, NEW r \in 0..MinutesPerDay - 1,
           Fires(expr, At(d, r)), Dates[e % CycleDays].month = Dates[d % CycleDays].month,
           ByDate(expr, Dates[e % CycleDays].day) \/ ByWeekDay(expr, e % WeekDays)
    PROVE  Fires(expr, At(e, r))
<1> DEFINE x == Clock(At(d, r))
           y == Clock(At(e, r))
<1>1. /\ At(d, r) \in Nat /\ At(e, r) \in Nat
      /\ y.minute = x.minute /\ y.hour = x.hour /\ y.month = x.month
      /\ y.dom = Dates[e % CycleDays].day /\ y.dow = e % WeekDays
  BY ClockSays
<1>2. /\ HoldsFor(expr[1], x.minute, "minute") /\ HoldsFor(expr[2], x.hour, "hour")
      /\ HoldsFor(expr[4], x.month, "month")
  BY <1>1, DayAlone
<1>3. /\ HoldsFor(expr[1], y.minute, "minute") /\ HoldsFor(expr[2], y.hour, "hour")
      /\ HoldsFor(expr[4], y.month, "month")
      /\ ByDate(expr, y.dom) \/ ByWeekDay(expr, y.dow)
  BY <1>1, <1>2
<1>4. QED
  BY <1>1, <1>3, DayAlone

\* The bound on the search (searchMinutes, main.go:32-35) misses nothing: within
\* four years of any minute the calendar offers every date, and every month with
\* all the days of a week, so an expression that fires at all fires in them, at
\* the minute of the day it fired at.
THEOREM SearchIsEnough ==
    ASSUME NEW expr, NEW F \in Nat, NEW m \in Nat, Fires(expr, m)
    PROVE  \E t \in F..F + SearchMinutes - 1 : Fires(expr, t)
<1> DEFINE d == m \div MinutesPerDay
           r == m % MinutesPerDay
           b == F \div MinutesPerDay
           p == F % MinutesPerDay
           C == CycleDays
           y == 4 * LongestYear
<1>1. d \in Nat /\ r \in 0..MinutesPerDay - 1 /\ Fires(expr, At(d, r))
  BY AtSays
<1>2. b \in Nat /\ p \in 0..MinutesPerDay - 1
  BY AtSays
<1>3. MinutesPerDay \in Nat \ {0} /\ C \in Nat \ {0} /\ y \in Nat /\ C <= y /\ WeekDays \in Nat \ {0}
  BY Sizes, CycleType, CycleInYears
<1>4. ASSUME NEW e \in Nat,
             \/ b + 1 <= e /\ e <= b + y - 1
             \/ p <= r /\ b <= e /\ e <= b + y - 1
             \/ r < p /\ b + 1 <= e /\ e <= b + y
      PROVE  At(e, r) \in F..F + SearchMinutes - 1
  BY <1>1, <1>4, InSearch
<1>5. /\ At(d, r) \in Nat /\ Clock(At(d, r)).dom = Dates[d % C].day
      /\ Clock(At(d, r)).month = Dates[d % C].month /\ Clock(At(d, r)).dow = d % WeekDays
  BY <1>1, ClockSays
<1>6. d % C \in 0..C - 1 /\ d % WeekDays \in 0..WeekDays - 1
  <2> HIDE DEF d, C
  <2>1. QED
    BY <1>1, <1>3, Quotient
<1>7. ByDate(expr, Dates[d % C].day) \/ ByWeekDay(expr, d % WeekDays)
  <2>1. ByDate(expr, Clock(At(d, r)).dom) \/ ByWeekDay(expr, Clock(At(d, r)).dow)
    BY <1>1, <1>5, DayAlone
  <2>2. QED
    BY <1>5, <2>1
<1> HIDE DEF d, r, b, p, C, y
<1>8. CASE ByDate(expr, Dates[d % C].day)
  <2> DEFINE x == IF p <= r THEN b ELSE b + 1
  <2>1. x \in Nat
    BY <1>2
  <2> HIDE DEF x
  <2>2. PICK e \in x..x + C - 1 : e % C = d % C
    BY <1>3, <1>6, <2>1, Residue
  <2>3. e \in Nat /\ x <= e /\ e <= x + C - 1
    BY <1>3, <2>1
  <2>4. Fires(expr, At(e, r))
    BY <1>1, <1>8, <2>2, <2>3, FiresOn DEF C
  <2>5. At(e, r) \in F..F + SearchMinutes - 1
    <3>1. CASE p <= r
      <4>1. x = b
        BY <3>1 DEF x
      <4>2. b <= e /\ e <= b + y - 1
        BY <1>2, <1>3, <2>3, <4>1
      <4>3. QED
        BY <1>4, <2>3, <3>1, <4>2
    <3>2. CASE ~(p <= r)
      <4>1. x = b + 1 /\ r < p
        BY <1>1, <1>2, <3>2 DEF x
      <4>2. b + 1 <= e /\ e <= b + y
        BY <1>2, <1>3, <2>3, <4>1
      <4>3. QED
        BY <1>4, <2>3, <4>1, <4>2
    <3>3. QED
      BY <3>1, <3>2
  <2>6. QED
    BY <2>4, <2>5
<1>9. CASE ByWeekDay(expr, d % WeekDays)
  <2>1. PICK k0 : InMonth(d % C, k0)
    BY <1>6, MonthOf DEF C
  <2>2. k0 % MonthsPerYear \in 0..MonthsPerYear - 1
    <3>1. k0 \in Nat /\ MonthsPerYear \in Nat \ {0}
      BY <2>1, Sums, Sizes DEF InMonth
    <3>2. QED
      BY <3>1, Quotient
  <2>3. PICK t \in Nat, k \in 0..Months - 1 :
            /\ k % MonthsPerYear = k0 % MonthsPerYear /\ b + 1 <= t /\ t + WeekDays <= b + C
            /\ \A i \in 0..WeekDays - 1 : InMonth((t + i) % C, k)
    BY <1>2, <2>2, WeekOfMonth DEF C
  <2>4. PICK e \in t..t + WeekDays - 1 : e % WeekDays = d % WeekDays
    BY <1>3, <1>6, Residue
  <2>5. e \in Nat /\ t <= e /\ e <= t + WeekDays - 1 /\ e - t \in 0..WeekDays - 1 /\ t + (e - t) = e
    BY <1>3
  <2>6. InMonth(e % C, k)
    BY <2>3, <2>5
  <2>7. e % C \in 0..C - 1
    BY <1>3, <2>5, Quotient
  <2>8. Dates[e % C].month = (k % MonthsPerYear) + 1 /\ Dates[d % C].month = (k0 % MonthsPerYear) + 1
    BY <1>6, <2>1, <2>6, <2>7, DatesSay DEF C
  <2>9. Fires(expr, At(e, r))
    <3>1. Dates[e % C].month = Dates[d % C].month /\ ByWeekDay(expr, e % WeekDays)
      BY <1>9, <2>3, <2>4, <2>8
    <3>2. QED
      BY <1>1, <2>5, <3>1, FiresOn DEF C
  <2>10. b + 1 <= e /\ e <= b + y - 1
    BY <1>2, <1>3, <2>3, <2>5
  <2>11. At(e, r) \in F..F + SearchMinutes - 1
    BY <1>4, <2>5, <2>10
  <2>12. QED
    BY <2>9, <2>11
<1>10. QED
  BY <1>7, <1>8, <1>9

-----------------------------------------------------------------------------
(* cron-next-run *)

\* No minute from the first one after the instant up to last is a fire time.
NoneUpTo(last) == \A t \in FirstMinute(args[2])..last : ~Fires(args[1], t)

Searchable == ExprOK(args[1]) /\ args[2] # NoInstant

\* The search has passed over no fire time, and stopped at one or after the
\* minutes it has.
Searched ==
    program = "cron" =>
        /\ args \in CronRuns
        /\ pc = "start" => looked = 0
        /\ pc = "search" =>
               /\ Searchable /\ looked \in 0..SearchMinutes
               /\ now = FirstMinute(args[2]) + looked /\ NoneUpTo(now - 1)
        /\ pc = "done" =>
               IF out.ok
               THEN /\ Searchable /\ out.value \in Nat /\ FirstMinute(args[2]) <= out.value
                    /\ Fires(args[1], out.value) /\ NoneUpTo(out.value - 1)
               ELSE Searchable => NoneUpTo(FirstMinute(args[2]) + SearchMinutes - 1)

LEMMA RunSays ==
    ASSUME args \in CronRuns
    PROVE  /\ args[1] \in Exprs /\ args[2] \in Nat \cup {NoInstant}
           /\ args[2] # NoInstant =>
                  /\ args[2] \in Nat /\ FirstMinute(args[2]) \in Nat
                  /\ args[2] < FirstMinute(args[2]) * SecondsPerMinute
<1>1. args[1] \in Exprs /\ args[2] \in Nat \cup {NoInstant}
  BY RunsAssumption DEF Exprs, Items
<1>2. ASSUME NEW a \in Nat
      PROVE  FirstMinute(a) \in Nat /\ a < FirstMinute(a) * SecondsPerMinute
  <2> DEFINE n == SecondsPerMinute
             q == a \div n
             r == a % n
  <2>1. n \in Nat \ {0}
    BY Sizes
  <2> HIDE DEF n
  <2>2. q \in Nat /\ r \in 0..n - 1 /\ a = n * q + r
    BY <2>1, Quotient
  <2> HIDE DEF q, r
  <2>3. n * q \in Nat /\ n * (q + 1) = n * q + n /\ q + 1 \in Nat /\ n * (q + 1) = (q + 1) * n
    <3>1. n \in Nat /\ q + 1 \in Nat
      BY <2>1, <2>2
    <3>2. QED
      BY <2>2, <3>1, Product, ProductNext
  <2>4. a < n * (q + 1)
    BY <2>1, <2>2, <2>3
  <2>5. FirstMinute(a) = q + 1
    BY DEF FirstMinute, q, n
  <2>6. QED
    BY <2>3, <2>4, <2>5 DEF n
<1>3. QED
  BY <1>1, <1>2

LEMMA SearchMinutesType == SearchMinutes \in Nat
<1>1. MinutesPerDay \in Nat /\ LongestYear \in Nat /\ 4 * LongestYear \in Nat
  BY Sizes, CycleInYears
<1>2. QED
  BY <1>1, Product DEF SearchMinutes

LEMMA SearchedStep == Searched /\ [Next]_vars => Searched'
<1> SUFFICES ASSUME Searched, [Next]_vars PROVE Searched'
  OBVIOUS
<1>1. CASE CronParse
  <2>1. program = "cron" /\ args \in CronRuns /\ looked = 0 /\ program' = program /\ args' = args
        /\ looked' = looked
    BY <1>1 DEF CronParse, Finish, Searched
  <2>2. CASE ~ExprOK(args[1]) \/ args[2] = NoInstant
    <3>1. pc' = "done" /\ ~out'.ok /\ ~Searchable'
      BY <1>1, <2>1, <2>2 DEF CronParse, Finish, Error, Searchable
    <3>2. QED
      BY <2>1, <3>1 DEF Searched
  <2>3. CASE ~(~ExprOK(args[1]) \/ args[2] = NoInstant)
    <3>1. pc' = "search" /\ now' = FirstMinute(args[2]) /\ Searchable'
      BY <1>1, <2>1, <2>3 DEF CronParse, Searchable
    <3>2. FirstMinute(args[2]) \in Nat
      BY <2>1, <2>3, RunSays
    <3>3. looked' \in 0..SearchMinutes /\ now' = FirstMinute(args'[2]) + looked'
      BY <2>1, <3>1, <3>2, SearchMinutesType
    <3>4. NoneUpTo(now - 1)'
      BY <2>1, <3>1, <3>2 DEF NoneUpTo
    <3>5. QED
      BY <2>1, <3>1, <3>3, <3>4 DEF Searched
  <2>4. QED
    BY <2>2, <2>3
<1>2. CASE CronSearch
  <2> DEFINE expr == args[1]
             F == FirstMinute(args[2])
  <2>1. /\ program = "cron" /\ args \in CronRuns /\ pc = "search" /\ program' = program /\ args' = args
        /\ Searchable /\ looked \in 0..SearchMinutes /\ now = F + looked /\ NoneUpTo(now - 1)
    BY <1>2 DEF CronSearch, Finish, Searched
  <2>2. F \in Nat /\ now \in Nat /\ F <= now /\ expr \in Exprs /\ ExprOK(expr) /\ looked \in Nat
        /\ SearchMinutes \in Nat
    BY <2>1, RunSays, SearchMinutesType DEF Searchable
  <2>3. ScheduleMatches(ParseExpr(expr), now) <=> Fires(expr, now)
    BY <2>2, MatchesSays
  <2>4. Searchable'
    BY <2>1 DEF Searchable
  <2>5. CASE looked = SearchMinutes
    <3>1. pc' = "done" /\ ~out'.ok
      BY <1>2, <2>5 DEF CronSearch, Finish, Error
    <3>2. NoneUpTo(F + SearchMinutes - 1)
      <4>1. /\ now = F + looked /\ looked = SearchMinutes
            /\ F \in Nat /\ looked \in Nat /\ SearchMinutes \in Nat
        BY <2>1, <2>2, <2>5
      <4> HIDE DEF F
      <4>2. now - 1 = F + SearchMinutes - 1
        BY <4>1
      <4>3. QED
        BY <2>1, <4>2
    <3>3. \A t \in FirstMinute(args'[2])..FirstMinute(args'[2]) + SearchMinutes - 1 : ~Fires(args'[1], t)
      BY <2>1, <3>2 DEF NoneUpTo
    <3>4. NoneUpTo(FirstMinute(args[2]) + SearchMinutes - 1)'
      BY <3>3 DEF NoneUpTo
    <3>5. QED
      BY <2>1, <3>1, <3>4 DEF Searched
  <2>6. CASE looked # SearchMinutes /\ ScheduleMatches(ParseExpr(expr), now)
    <3>1. pc' = "done" /\ out' = Answer(now)
      BY <1>2, <2>6 DEF CronSearch, Finish
    <3>2. out'.ok /\ out'.value = now
      BY <3>1 DEF Answer
    <3>3. Fires(args'[1], out'.value) /\ FirstMinute(args'[2]) <= out'.value /\ out'.value \in Nat
      BY <2>1, <2>2, <2>3, <2>6, <3>2
    <3>4. NoneUpTo(out.value - 1)'
      BY <2>1, <3>2 DEF NoneUpTo
    <3>5. QED
      BY <2>1, <2>4, <3>1, <3>2, <3>3, <3>4 DEF Searched
  <2>7. CASE looked # SearchMinutes /\ ~ScheduleMatches(ParseExpr(expr), now)
    <3>1. now' = now + 1 /\ looked' = looked + 1 /\ pc' = "search"
      BY <1>2, <2>1, <2>7 DEF CronSearch
    <3>2. looked' \in 0..SearchMinutes /\ now' = FirstMinute(args'[2]) + looked'
      BY <2>1, <2>2, <2>7, <3>1
    <3>3. NoneUpTo(now - 1)'
      <4>1. ASSUME NEW t \in F..now PROVE ~Fires(expr, t)
        <5>1. CASE t = now
          BY <2>3, <2>7, <5>1
        <5>2. CASE t # now
          <6>1. t \in F..now - 1
            BY <2>2, <5>2
          <6>2. QED
            BY <2>1, <6>1 DEF NoneUpTo
        <5>3. QED
          BY <5>1, <5>2
      <4>2. now' - 1 = now
        BY <2>2, <3>1
      <4>3. QED
        BY <2>1, <4>1, <4>2 DEF NoneUpTo
    <3>4. QED
      BY <2>1, <2>4, <3>1, <3>2, <3>3 DEF Searched
  <2>8. QED
    BY <2>5, <2>6, <2>7
<1>3. CASE SemverAnswer \/ UrlAnswer \/ Base58Answer
  <2>1. program' # "cron"
    BY <1>3 DEF SemverAnswer, UrlAnswer, Base58Answer, Finish
  <2>2. QED
    BY <2>1 DEF Searched
<1>4. CASE UNCHANGED vars
  BY <1>4 DEF vars, Searched, Searchable, NoneUpTo
<1>5. QED
  BY <1>1, <1>2, <1>3, <1>4 DEF Next

LEMMA SearchedInvariant == Spec => []Searched
<1>1. Init => Searched
  BY DEF Init, Searched
<1>2. QED
  BY <1>1, SearchedStep, PTL DEF Spec

\* cron-next-run (main.go:205-232) answers with the first fire time strictly after
\* the instant; an error says that there is none, however far one looks, though
\* the search ends after four years.
THEOREM CronAlwaysNext == Spec => []CronIsNext
<1>1. ASSUME Searched, Answered("cron") PROVE CronIsNext
  <2> DEFINE expr == args[1]
             F == FirstMinute(args[2])
  <2>1. args \in CronRuns
    BY <1>1 DEF Searched, Answered
  <2>2. CASE out.ok
    <3>1. /\ Searchable /\ out.value \in Nat /\ F <= out.value /\ Fires(expr, out.value)
          /\ NoneUpTo(out.value - 1)
      BY <1>1, <2>2 DEF Searched, Answered
    <3>2. F \in Nat /\ args[2] \in Nat /\ args[2] < F * SecondsPerMinute
      BY <2>1, <3>1, RunSays DEF Searchable
    <3>3. F * SecondsPerMinute <= out.value * SecondsPerMinute
      <4>1. SecondsPerMinute \in Nat
        BY Sizes
      <4>2. /\ F * SecondsPerMinute = SecondsPerMinute * F
            /\ out.value * SecondsPerMinute = SecondsPerMinute * out.value
            /\ SecondsPerMinute * F <= SecondsPerMinute * out.value
        BY <3>1, <3>2, <4>1, Product, ProductGrows
      <4>3. QED
        BY <4>2
    <3>4. out.value * SecondsPerMinute > args[2]
      <4>1. F * SecondsPerMinute \in Nat /\ out.value * SecondsPerMinute \in Nat
        BY <3>1, <3>2, Sizes, Product
      <4>2. QED
        BY <3>2, <3>3, <4>1
    <3>5. QED
      BY <2>2, <3>1, <3>4 DEF CronIsNext, Searchable, NoneUpTo
  <2>3. CASE ~out.ok
    <3>1. ASSUME Searchable, NEW m \in F..F + Forever, Fires(expr, m) PROVE FALSE
      <4>1. F \in Nat
        BY <2>1, <3>1, RunSays DEF Searchable
      <4>2. m \in Nat
        BY <4>1
      <4>3. PICK t \in F..F + SearchMinutes - 1 : Fires(expr, t)
        BY <3>1, <4>1, <4>2, SearchIsEnough
      <4>4. NoneUpTo(F + SearchMinutes - 1)
        BY <1>1, <2>3, <3>1 DEF Searched, Answered
      <4>5. QED
        BY <4>3, <4>4 DEF NoneUpTo
    <3>2. QED
      BY <2>3, <3>1 DEF CronIsNext, Searchable
  <2>4. QED
    BY <2>2, <2>3
<1>2. Searched => CronIsNext
  BY <1>1 DEF CronIsNext
<1>3. QED
  BY <1>2, SearchedInvariant, PTL
=============================================================================
