---------------------------- MODULE JsonReference ----------------------------
(***************************************************************************)
(* What a JSON text denotes, by the grammar of RFC 8259, for comparison    *)
(* with the parser: an operator gives, for a part of the grammar, the set  *)
(* of all the readings that begin at a byte, each a value and the position *)
(* after it.  Nothing of the lexer and of the parser is used but their     *)
(* names for bytes and values and, as the grammar says nothing of it, the  *)
(* parser's Overflows: whether a number has a value at all.                *)
(***************************************************************************)
EXTENDS JsonParser

\* The bytes from i to j, as far as there are any.
Part(text, i, j) == IF j <= Len(text) THEN SubSeq(text, i, j) ELSE SubSeq(text, i, Len(text))

Reading(v, next) == [value |-> v, next |-> next]

\* The positions one can come to from i by skipping white space.
RECURSIVE Blanks(_, _)
Blanks(text, i) ==
  {i} \cup IF Byte(text, i) \in {9, 10, 13, 32} THEN Blanks(text, i + 1) ELSE {}

\* The positions after `b' with white space before and after it.
Sign(text, i, b) ==
  UNION {Blanks(text, j + 1) : j \in {k \in Blanks(text, i) : Byte(text, k) = b}}

-----------------------------------------------------------------------------
(* Characters.                                                             *)

\* The number the bytes from i to j spell in base 16; -1 for other bytes.
RECURSIVE Hexadecimal(_, _, _)
Hexadecimal(text, i, j) ==
  IF j < i THEN 0
  ELSE LET b == Byte(text, j)
           high == Hexadecimal(text, i, j - 1)
           digit == {d \in 0..15 : b \in IF d < 10 THEN {48 + d} ELSE {55 + d, 87 + d}}
       IN  IF high = -1 \/ digit = {} THEN -1 ELSE high * 16 + CHOOSE d \in digit : TRUE

\* The bytes of a character in UTF-8: the shortest form that has room for it.
Payload == <<7, 11, 16, 21>>       \* the bits of a form of 1, 2, 3, 4 bytes
Prefix == <<0, 192, 224, 240>>

RECURSIVE Power2(_)
Power2(n) == IF n = 0 THEN 1 ELSE 2 * Power2(n - 1)

Encoded(c) ==
  LET n == CHOOSE n \in 1..4 : c < Power2(Payload[n]) /\ \A m \in 1..(n - 1) : c >= Power2(Payload[m])
      bits(k) == c \div Power2(6 * (n - k))
  IN  [k \in 1..n |-> IF k = 1 THEN Prefix[n] + bits(1) ELSE 128 + (bits(k) % 64)]

\* The character some bytes would be the form of.
RECURSIVE Decoded(_)
Decoded(bytes) ==
  IF Len(bytes) = 1 THEN bytes[1] ELSE Decoded(Front(bytes)) * 64 + (Last(bytes) % 64)

Character(bytes) ==
  IF Len(bytes) = 1 THEN bytes[1]
  ELSE Decoded([bytes EXCEPT ![1] = @ % Power2(7 - Len(bytes))])

Surrogate == 55296..57343

\* A character that may stand for itself: no control, no quote, no backslash.
Unescaped(text, i) ==
  {Reading(bytes, i + Len(bytes)) :
     bytes \in {s \in {SubSeq(text, i, i + n) : n \in {m \in 0..3 : i + m <= Len(text)}} :
                  LET c == Character(s)
                  IN  /\ c \in 32..1114111 /\ c \notin Surrogate /\ c \notin {34, 92}
                      /\ s = Encoded(c)}}

Named == 34 :> 34 @@ 92 :> 92 @@ 47 :> 47 @@ 98 :> 8 @@ 102 :> 12 @@ 110 :> 10 @@ 114 :> 13 @@ 116 :> 9

\* \u and four digits at i.
Escaped16(text, i) ==
  {c \in {Hexadecimal(text, i + 2, i + 5)} : c >= 0 /\ Byte(text, i) = 92 /\ Byte(text, i + 1) = 117}

Escaped(text, i) ==
  {Reading(<<Named[b]>>, i + 2) :
     b \in {x \in DOMAIN Named : Byte(text, i) = 92 /\ Byte(text, i + 1) = x}}
  \cup {Reading(Encoded(c), i + 6) : c \in Escaped16(text, i) \ Surrogate}
  \cup {Reading(Encoded(65536 + (high - 55296) * 1024 + (low - 56320)), i + 12) :
          high \in Escaped16(text, i) \cap (55296..56319),
          low \in Escaped16(text, i + 6) \cap (56320..57343)}

\* The rest of a string, from i to its quote.
RECURSIVE Characters(_, _)
Characters(text, i) ==
  (IF Byte(text, i) = 34 THEN {Reading(<<>>, i + 1)} ELSE {})
  \cup
  UNION {{Reading(c.value \o rest.value, rest.next) : rest \in Characters(text, c.next)} :
           c \in Unescaped(text, i) \cup Escaped(text, i)}

Strings(text, i) == IF Byte(text, i) = 34 THEN Characters(text, i + 1) ELSE {}

-----------------------------------------------------------------------------
(* Numbers.                                                                *)

AllDigits(s) == s # <<>> /\ \A k \in 1..Len(s) : s[k] \in 48..57

IsInteger(s) == AllDigits(s) /\ (Len(s) > 1 => s[1] # 48)

IsFraction(s) == s = <<>> \/ (s[1] = 46 /\ AllDigits(Tail(s)))

IsExponent(s) ==
  \/ s = <<>>
  \/ /\ s[1] \in {69, 101}
     /\ \/ AllDigits(Tail(s))
        \/ Len(s) > 1 /\ s[2] \in {43, 45} /\ AllDigits(Tail(Tail(s)))

IsNumber(s) ==
  LET body == IF s # <<>> /\ s[1] = 45 THEN Tail(s) ELSE s
      n == Len(body)
  IN  \E a \in 0..n : \E b \in a..n :
        /\ IsInteger(SubSeq(body, 1, a))
        /\ IsFraction(SubSeq(body, a + 1, b))
        /\ IsExponent(SubSeq(body, b + 1, n))

\* The library has no value for a number out of the range of a double.
Numbers(text, i) ==
  {Reading(Number(SubSeq(text, i, j)), j + 1) :
     j \in {k \in i..Len(text) :
              IsNumber(SubSeq(text, i, k)) /\ ~Overflows(SubSeq(text, i, k))}}

-----------------------------------------------------------------------------
(* Values.                                                                 *)

Words ==
  { <<<<110, 117, 108, 108>>, NullValue>>,
    <<<<116, 114, 117, 101>>, Boolean(TRUE)>>,
    <<<<102, 97, 108, 115, 101>>, Boolean(FALSE)>> }

\* A later member replaces an earlier one with the same key.
RECURSIVE Meaning(_)
Meaning(members) ==
  IF members = <<>> THEN <<>>
  ELSE LET earlier == Meaning(Front(members))
           m == Last(members)
       IN  [k \in DOMAIN earlier \cup {m.key} |-> IF k = m.key THEN m.value ELSE earlier[k]]

RECURSIVE Values(_, _)
RECURSIVE Items(_, _)
RECURSIVE Members(_, _)

Values(text, i) ==
  {Reading(w[2], i + Len(w[1])) :
     w \in {x \in Words : Part(text, i, i + Len(x[1]) - 1) = x[1]}}
  \cup {Reading(String(s.value), s.next) : s \in Strings(text, i)}
  \cup Numbers(text, i)
  \cup UNION {
         {Reading(Array(<<>>), k) : k \in Sign(text, j, 93)}
         \cup {Reading(Array(list.value), list.next) : list \in Items(text, j)} :
         j \in Sign(text, i, 91)}
  \cup UNION {
         {Reading(Object(<<>>), k) : k \in Sign(text, j, 125)}
         \cup {Reading(Object(Meaning(list.value)), list.next) : list \in Members(text, j)} :
         j \in Sign(text, i, 123)}

\* The items of an array and its bracket.
Items(text, i) ==
  UNION {
    {Reading(<<v.value>>, k) : k \in Sign(text, v.next, 93)}
    \cup UNION {{Reading(<<v.value>> \o rest.value, rest.next) : rest \in Items(text, j)} :
                j \in Sign(text, v.next, 44)} :
    v \in Values(text, i)}

\* The members of an object and its brace.
Members(text, i) ==
  UNION {
    {Reading(<<[key |-> key.value, value |-> v.value]>>, k) : k \in Sign(text, v.next, 125)}
    \cup UNION {{Reading(<<[key |-> key.value, value |-> v.value]>> \o rest.value, rest.next) :
                   rest \in Members(text, j)} :
                j \in Sign(text, v.next, 44)} :
    <<key, v>> \in UNION {{<<key, v>> : v \in UNION {Values(text, j) : j \in Sign(text, key.next, 58)}} :
                          key \in Strings(text, i)}}

\* A null byte ends the text: what is after it is ignored.
UpToNull(text) ==
  SubSeq(text, 1, CHOOSE n \in 0..Len(text) :
    /\ \A k \in 1..n : text[k] # 0
    /\ n < Len(text) => text[n + 1] = 0)

\* The values a text denotes: one, or none.
Denoted(text) ==
  LET t == UpToNull(text)
      start == IF Part(t, 1, 3) = <<239, 187, 191>> THEN 4 ELSE 1
  IN  {v.value : v \in {r \in UNION {Values(t, i) : i \in Blanks(t, start)} :
                          Len(t) + 1 \in Blanks(t, r.next)}}

\* The parser accepts a text exactly if the text denotes a value, and makes
\* that value of it: no document is misread, none refused, and nothing that is
\* no JSON is accepted, with two exceptions, which Denoted has built in.  A
\* null byte ends the text, so that what follows it may be anything; and a
\* number out of the range of a double is refused, though the grammar has it,
\* where which numbers these are is the parser's own Overflows.
ParsesAsJson ==
  reading \in {"accepted", "rejected"} =>
    Denoted(file) = IF reading = "accepted" THEN {root} ELSE {}
=============================================================================
