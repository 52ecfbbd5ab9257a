----------------------------- MODULE Base58Check -----------------------------
(***************************************************************************)
(* entries/base58check-decode/main.go.  A character is its index in the    *)
(* alphabet, or -1 if it is not in it; a byte is a number.  The bases and  *)
(* the length of the checksum are constants; the checksum is any function  *)
(* of the payload.                                                         *)
(***************************************************************************)
EXTENDS Integers, Sequences

CONSTANTS
    Base,           \* characters in the alphabet: 58
    ByteBase,       \* values of a byte: 256
    ChecksumLen,    \* bytes of the checksum: 4
    Checksum(_)     \* the first bytes of the double SHA-256

ASSUME BasesAssumption == {Base, ByteBase} \subseteq Nat \ {0, 1} /\ ChecksumLen \in Nat

\* The value of a sequence of digits.
ValueIn(base, digits) ==
    LET V[i \in 0..Len(digits)] == IF i = 0 THEN 0 ELSE base * V[i - 1] + digits[i]
    IN  V[Len(digits)]

\* The digits of a number, none of them a leading zero (big.Int.Bytes).
DigitsIn(base, n) ==
    LET D[m \in 0..n] == IF m = 0 THEN <<>> ELSE Append(D[m \div base], m % base)
    IN  D[n]

Zeros(n) == [i \in 1..n |-> 0]

LeadingZeros(s) ==
    LET n == {k \in 0..Len(s) : \A i \in 1..k : s[i] = 0}
    IN  CHOOSE k \in n : \A j \in n : j <= k

\* Mutation: the zero bytes in front are lost with the number's own.
DecodeBase58ByValue(s) == DigitsIn(ByteBase, ValueIn(Base, s))

\* The bytes a string of valid characters encodes.
DecodeBase58(s) == Zeros(LeadingZeros(s)) \o DigitsIn(ByteBase, ValueIn(Base, s))

\* main: the payload, or an error.
Decode(s) ==
    LET full == DecodeBase58(s)
        cut == Len(full) - ChecksumLen
        payload == SubSeq(full, 1, cut)
    IN  IF \/ \E i \in DOMAIN s : s[i] = -1
           \/ cut < 0
           \/ Checksum(payload) # SubSeq(full, cut + 1, Len(full))
        THEN [ok |-> FALSE, payload |-> <<>>]
        ELSE [ok |-> TRUE, payload |-> payload]

\* How a payload is written in Base58Check.
Encode(payload) ==
    LET full == payload \o Checksum(payload)
    IN  Zeros(LeadingZeros(full)) \o DigitsIn(Base, ValueIn(ByteBase, full))
=============================================================================
