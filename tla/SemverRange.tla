----------------------------- MODULE SemverRange -----------------------------
(***************************************************************************)
(* entries/semver-range-check/main.go: does a version lie in a range?  A   *)
(* version is three components; the text of one is the sequence of its     *)
(* components, -1 for one that is no number.  A field of a clause is its   *)
(* leading marks and the text after them, a clause a sequence of fields, a *)
(* range a sequence of clauses.                                            *)
(***************************************************************************)
EXTENDS Integers, Sequences

CONSTANTS
    MaxComponent    \* the largest component parseVersion accepts: 2^63 - 1

ASSUME MaxComponentAssumption == MaxComponent \in Nat

Components == 0..MaxComponent

\* A uint64 holds twice as many numbers as there are components.
Wrap(n) == n % (2 * (MaxComponent + 1))

Less(a, b) ==
    \/ a[1] < b[1]
    \/ a[1] = b[1] /\ a[2] < b[2]
    \/ a[1] = b[1] /\ a[2] = b[2] /\ a[3] < b[3]

Compare(a, b) == IF Less(a, b) THEN -1 ELSE IF Less(b, a) THEN 1 ELSE 0

IsVersion(numbers) ==
    Len(numbers) = 3 /\ \A i \in 1..3 : numbers[i] \in Components

\* Mutation: a caret pins the major component even if it is 0.
CaretUpperOfMajor(c) == <<Wrap(c[1] + 1), 0, 0>>

\* The first version beyond what a caret allows.
CaretUpper(c) ==
    IF c[1] # 0 THEN <<Wrap(c[1] + 1), 0, 0>>
    ELSE IF c[2] # 0 THEN <<0, Wrap(c[2] + 1), 0>>
    ELSE <<0, 0, Wrap(c[3] + 1)>>

Matches(op, c, v) ==
    CASE op = <<"<">>      -> Compare(v, c) < 0
      [] op = <<"<", "=">> -> Compare(v, c) <= 0
      [] op = <<">">>      -> Compare(v, c) > 0
      [] op = <<">", "=">> -> Compare(v, c) >= 0
      [] op = <<"~">>      -> /\ Compare(v, c) >= 0
                              /\ Compare(v, <<c[1], Wrap(c[2] + 1), 0>>) < 0
      [] op = <<"^">>      -> Compare(v, c) >= 0 /\ Compare(v, CaretUpper(c)) < 0
      [] OTHER             -> Compare(v, c) = 0

\* The operators in the order in which they are tried.
Ops == << <<"<", "=">>, <<">", "=">>, <<"<">>, <<">">>, <<"=">>, <<"^">>, <<"~">> >>

Operators == {Ops[k] : k \in DOMAIN Ops} \cup {<<>>}

\* The operator of a field: the first that is a prefix of it, or none.
OpOf(f) ==
    LET Prefix(p) == Len(p) <= Len(f.marks) /\ SubSeq(f.marks, 1, Len(p)) = p
        hit == {k \in DOMAIN Ops : Prefix(Ops[k])}
    IN  IF hit = {} THEN <<>> ELSE Ops[CHOOSE k \in hit : \A j \in hit : k <= j]

IsField(f) == OpOf(f) = f.marks /\ IsVersion(f.version)

IsRange(range) ==
    \A k \in DOMAIN range : range[k] # <<>> /\ \A i \in DOMAIN range[k] : IsField(range[k][i])

\* main: the answer, or "error".
InRange(range, v) ==
    IF ~IsRange(range) \/ ~IsVersion(v) THEN "error"
    ELSE IF \E k \in DOMAIN range : \A i \in DOMAIN range[k] :
                Matches(OpOf(range[k][i]), range[k][i].version, v)
    THEN "yes" ELSE "no"

-----------------------------------------------------------------------------
(* What the operators mean *)

Agree(c, v, n) == \A i \in 1..n : c[i] = v[i]

\* A version is in a caret range if it is not older and agrees up to the first
\* component that is not 0; in a tilde range if it agrees in major and minor;
\* the others are the order of versions.
Means(op, c, v) ==
    CASE op = <<"<">>      -> Less(v, c)
      [] op = <<"<", "=">> -> Less(v, c) \/ v = c
      [] op = <<">">>      -> Less(c, v)
      [] op = <<">", "=">> -> Less(c, v) \/ v = c
      [] op = <<"~">>      -> (Less(c, v) \/ v = c) /\ Agree(c, v, 2)
      [] op = <<"^">>      ->
            /\ Less(c, v) \/ v = c
            /\ Agree(c, v, IF c[1] # 0 THEN 1 ELSE IF c[2] # 0 THEN 2 ELSE 3)
      [] OTHER             -> v = c
=============================================================================
