--------------------------- MODULE MCEntryPrograms ---------------------------
(* Small calendars, bases and alphabets for the entries' programs. *)
EXTENDS EntryPrograms

CONSTANTS
    WordLen,        \* the bound on the length of what follows a scheme
    CodeLen         \* the bound on the length of a Base58Check string

\* A year of six days, seven in a leap year, with a month that is a day short
\* of the longest and in three years of four another one.
MCMonthDays == <<4, 2>>

-----------------------------------------------------------------------------
Item(kind, from, to, step) == [kind |-> kind, from |-> from, to |-> to, step |-> step]
One(n) == Item("one", n, n, NoStep)
EveryNth(n) == Item("star", 0, 0, n)
Range(a, b) == Item("range", a, b, NoStep)

Any == <<BareStar>>

\* Expressions that differ in the days.
DayFields == {Any, <<One(4)>>, <<One(2), One(2)>>, <<One(3)>>, <<EveryNth(2)>>, <<Range(1, 2)>>}
Days ==
    { <<minute, <<One(1)>>, dom, month, dow>> :
        minute \in {Any, <<One(0)>>}, dom \in DayFields,
        month \in {Any, <<One(2)>>}, dow \in {Any, <<One(0)>>, <<EveryNth(2)>>} }

\* Expressions whose first or third field is any one item, right or wrong.
Items ==
    {Item("star", 0, 0, step) : step \in {NoStep, 0, 1, 2, 9}} \cup
    {Item("one", n, n, step) : n \in 0..5, step \in {NoStep, 1}} \cup
    {Item("range", a, b, step) : a \in 0..5, b \in 0..5, step \in {NoStep, 0, 2, 9}} \cup
    {Item("bad", 0, 0, NoStep)}
Fields == { <<<<item>>, Any, Any, Any, Any>> : item \in Items } \cup
          { <<<<One(0)>>, Any, <<One(2), item>>, Any, Any>> : item \in Items }
NotFive == {<<>>, <<Any, Any, Any, Any>>, <<Any, Any, Any, Any, Any, Any>>}

\* A whole cycle of instants for the days, two days of them for the fields.
MCCronRuns ==
    (Days \X {SecondsPerMinute * m : m \in 0..(Forever - 1)}) \cup
    ((Fields \cup NotFive) \X (NoInstant..(2 * MinutesPerDay * SecondsPerMinute)))

-----------------------------------------------------------------------------
Version(a, b, c) == <<a, b, c>>
AllVersions == {Version(a, b, c) : a, b, c \in Components}
Odd == {<<>>, <<0, 1>>, <<1, -1, 0>>, <<0, MaxComponent + 1, 0>>, <<0, 0, 0, 0>>}
Marks == Operators \cup {<<">", ">">>, <<"=", "<">>}
FieldsOf(versions) == [marks : Marks, version : versions]
Few == {<<0, 0, 0>>, <<0, 1, MaxComponent>>, <<1, 0, 1>>, <<MaxComponent, MaxComponent, 1>>}

MCSemverRuns ==
    ({ <<<<f>>>> : f \in FieldsOf(AllVersions) } \X AllVersions) \cup
    ({ <<<<f>>>> : f \in FieldsOf(Odd) } \X Few) \cup
    ({ <<<<f>>>> : f \in FieldsOf(Few) } \X Odd) \cup
    ({ <<<<f, g>>>> : f, g \in FieldsOf(Few) } \X Few) \cup
    ({ <<<<f>>, <<g>>>> : f, g \in FieldsOf(Few) } \X Few) \cup
    ({ << <<f>>, <<>> >> : f \in FieldsOf(Few) } \X Few)

-----------------------------------------------------------------------------
Words == UNION {[1..n -> Characters] : n \in 0..WordLen}

\* Every word after a scheme and two slashes, every scheme and separator with
\* a word or two.
MCUrls ==
    { <<"A", "-", ":", "/", "/">> \o w : w \in Words } \cup
    { s \o sep \o w :
        s \in {<<>>, <<"a">>, <<"1">>, <<"-", "a">>, <<"A", "!">>, <<"z", "%", "1", "a">>},
        sep \in {<<>>, <<":">>, <<":", "/">>, <<":", "/", "/">>, <<"/", "/">>},
        w \in {<<"a">>, <<"A", ":", "1">>, <<"#", ":">>} }

-----------------------------------------------------------------------------
MCChecksum(payload) == <<ValueIn(3, payload) % ByteBase>>
MCCodes == UNION {[1..n -> -1..(Base - 1)] : n \in 0..CodeLen}
MCPayloads == UNION {[1..n -> 0..(ByteBase - 1)] : n \in 0..2}
=============================================================================
