------------------------------ MODULE JsonLexer ------------------------------
(***************************************************************************)
(* The lexer of the JSON library that reads the configuration of the       *)
(* static platform adapter (tai_mux json.hpp, class lexer).  A byte is a   *)
(* number, a text a sequence of them.  The state of the lexer is the       *)
(* position of the next byte: reading a byte and "ungetting" it leaves the *)
(* position where it was.  Error messages, line numbers and the value of a *)
(* number are left out.                                                    *)
(***************************************************************************)
EXTENDS Integers, SequencesExt

Quote == 34
Plus == 43
Comma == 44
Minus == 45
Point == 46
Slash == 47
Colon == 58
OpenBracket == 91
Backslash == 92
CloseBracket == 93
OpenBrace == 123
CloseBrace == 125
Digit == 48..57
Exponent == {69, 101}                     \* E e

EOF == -1

\* input_buffer_adapter::get_character and the lexer's get.
Byte(text, i) == IF i \in 1..Len(text) THEN text[i] ELSE EOF

\* A token ends before the byte at `next'.
Token(type, value, next) == [type |-> type, value |-> value, next |-> next]
ParseError(i) == Token("parse_error", <<>>, i)

-----------------------------------------------------------------------------
(* Strings.  A unit is what one turn of the loop of scan_string reads: the *)
(* bytes it adds to the buffer and where it ends.  Each operator gives the *)
(* set of the units of its kind that begin at i: one, or none.             *)

ControlCharacters == 0..31

Unit(bytes, next) == [bytes |-> bytes, next |-> next]

PlainCharacters == (32..127) \ {Quote, Backslash}

PlainUnit(text, i) == {Unit(<<b>>, i + 1) : b \in {Byte(text, i)} \cap PlainCharacters}

\* \" \\ \/ \b \f \n \r \t
Escapes ==
  [b \in {Quote, Backslash, Slash, 98, 102, 110, 114, 116} |->
     CASE b = 98 -> 8 [] b = 102 -> 12 [] b = 110 -> 10 [] b = 114 -> 13 [] b = 116 -> 9
       [] OTHER -> b]

ShortEscape(text, i) ==
  {Unit(<<Escapes[b]>>, i + 2) :
     b \in {x \in DOMAIN Escapes : Byte(text, i) = Backslash /\ Byte(text, i + 1) = x}}

HexValue ==
  [b \in (Digit \cup (65..70)) \cup (97..102) |->
     CASE b \in Digit -> b - 48 [] b \in 65..70 -> b - 55 [] OTHER -> b - 87]

\* get_codepoint: the number four hexadecimal digits after \u spell.
CodePoint(text, i) ==
  IF /\ Byte(text, i) = Backslash /\ Byte(text, i + 1) = 117
     /\ \A k \in 2..5 : Byte(text, i + k) \in DOMAIN HexValue
  THEN LET h(k) == HexValue[text[i + k]]
       IN  {((h(2) * 16 + h(3)) * 16 + h(4)) * 16 + h(5)}
  ELSE {}

HighSurrogate == 55296..56319
LowSurrogate == 56320..57343
AnySurrogate == HighSurrogate \cup LowSurrogate

Utf8(c) ==
  LET trail(shift) == 128 + ((c \div shift) % 64)
  IN  CASE c < 128 -> <<c>>
        [] c \in 128..2047 -> <<192 + (c \div 64), trail(1)>>
        [] c \in 2048..65535 -> <<224 + (c \div 4096), trail(64), trail(1)>>
        [] OTHER -> <<240 + (c \div 262144), trail(4096), trail(64), trail(1)>>

\* Fault: half of a surrogate pair is taken for a character.
FaultUnicodeEscape(text, i) == {Unit(Utf8(c), i + 6) : c \in CodePoint(text, i)}

\* One code unit, or a high surrogate and a low one; neither goes alone.
UnicodeEscape(text, i) ==
  {Unit(Utf8(c), i + 6) : c \in CodePoint(text, i) \ AnySurrogate}
  \cup
  {Unit(Utf8(pair[1] * 1024 + pair[2] - 56613888), i + 12) :
     pair \in (CodePoint(text, i) \cap HighSurrogate)
              \X (CodePoint(text, i + 6) \cap LowSurrogate)}

Trail == 128..191

\* The ranges of next_byte_in_range, for every first byte above 127.
Utf8Ranges ==
  { <<194..223, Trail>>,
    <<{224}, 160..191, Trail>>,
    <<225..236, Trail, Trail>>,
    <<{237}, 128..159, Trail>>,
    <<238..239, Trail, Trail>>,
    <<{240}, 144..191, Trail, Trail>>,
    <<241..243, Trail, Trail, Trail>>,
    <<{244}, 128..143, Trail, Trail>> }

MultiByte(text, i) ==
  {Unit(SubSeq(text, i, i + Len(ranges) - 1), i + Len(ranges)) :
     ranges \in {r \in Utf8Ranges : \A k \in 1..Len(r) : Byte(text, i + k - 1) \in r[k]}}

UnitAt(text, i) ==
  PlainUnit(text, i) \cup ShortEscape(text, i) \cup UnicodeEscape(text, i) \cup MultiByte(text, i)

\* What is read from the byte at k on, when `scan' is what is read from each
\* later one: the string ends, breaks off, or goes on after a unit.
StringFrom(text, scan, k) ==
  IF Byte(text, k) = Quote THEN Token("value_string", <<>>, k + 1)
  ELSE IF Byte(text, k) \in ControlCharacters \cup {EOF} \/ UnitAt(text, k) = {}
       THEN ParseError(k)
  ELSE LET unit == CHOOSE u \in UnitAt(text, k) : TRUE
           rest == scan[unit.next]
       IN  IF rest.type = "parse_error" THEN rest
           ELSE [rest EXCEPT !.value = unit.bytes \o @]

\* scan_string, from the byte after the quote.
ScanString(text, i) ==
  LET scan[k \in 1..(Len(text) + 1)] == StringFrom(text, scan, k)
  IN  scan[i]

-----------------------------------------------------------------------------
(* Numbers: the labels of scan_number are the states of an automaton.      *)

Move(from, bytes, to) == [from |-> from, bytes |-> bytes, to |-> to]

IntegerMoves ==
  { Move("init", {Minus}, "minus"),
    Move("init", {48}, "zero"), Move("init", 49..57, "any1"),
    Move("minus", {48}, "zero"), Move("minus", 49..57, "any1"),
    Move("any1", Digit, "any1") }

FractionMoves ==
  { Move("zero", {Point}, "decimal1"), Move("any1", {Point}, "decimal1"),
    Move("decimal1", Digit, "decimal2"), Move("decimal2", Digit, "decimal2") }

ExponentMoves ==
  { Move("zero", Exponent, "exponent"), Move("any1", Exponent, "exponent"),
    Move("decimal2", Exponent, "exponent"),
    Move("exponent", {Plus, Minus}, "sign"), Move("exponent", Digit, "any2"),
    Move("sign", Digit, "any2"), Move("any2", Digit, "any2") }

Moves == IntegerMoves \cup FractionMoves \cup ExponentMoves
NumberStates == {m.from : m \in Moves} \cup {m.to : m \in Moves}

\* Where the automaton stops, from a state and a byte, when `run' is where it
\* stops from each later one: the byte that no move reads is given back.
NumberFrom(text, run, k, state) ==
  LET moves == {m \in Moves : m.from = state /\ Byte(text, k) \in m.bytes}
  IN  IF moves = {} THEN [state |-> state, next |-> k]
      ELSE run[<<k + 1, (CHOOSE m \in moves : TRUE).to>>]

RunNumber(text, i) ==
  LET run[p \in (1..(Len(text) + 1)) \X NumberStates] == NumberFrom(text, run, p[1], p[2])
  IN  run[<<i, "init">>]

Lexeme(text, i, next) == SubSeq(text, i, next - 1)
Occurs(set, s) == \E k \in 1..Len(s) : s[k] \in set

\* The type of a number; its value is the bytes it is spelled with.
ScanNumber(text, i) ==
  LET end == RunNumber(text, i)
      lexeme == Lexeme(text, i, end.next)
      type == IF Occurs({Point} \cup Exponent, lexeme) THEN "value_float"
              ELSE IF Byte(text, i) = Minus THEN "value_integer"
              ELSE "value_unsigned"
  IN  IF end.state \in {"zero", "any1", "decimal2", "any2"}
      THEN Token(type, lexeme, end.next)
      ELSE ParseError(i)

-----------------------------------------------------------------------------

Structural ==
  [b \in {OpenBracket, CloseBracket, OpenBrace, CloseBrace, Colon, Comma} |->
     CASE b = OpenBracket -> "begin_array" [] b = CloseBracket -> "end_array"
       [] b = OpenBrace -> "begin_object" [] b = CloseBrace -> "end_object"
       [] b = Colon -> "name_separator" [] b = Comma -> "value_separator"]

Literals ==
  { [bytes |-> <<116, 114, 117, 101>>, type |-> "literal_true"],
    [bytes |-> <<102, 97, 108, 115, 101>>, type |-> "literal_false"],
    [bytes |-> <<110, 117, 108, 108>>, type |-> "literal_null"] }

ScanLiteral(text, i) ==
  LET found == {l \in Literals : \A k \in 1..Len(l.bytes) : Byte(text, i + k - 1) = l.bytes[k]}
  IN  IF found = {} THEN ParseError(i)
      ELSE LET l == CHOOSE l \in found : TRUE IN Token(l.type, <<>>, i + Len(l.bytes))

Whitespace == {32, 9, 10, 13}

\* The token that begins at the byte at i.  A null byte ends the input.
TokenAt(text, i) ==
  LET b == Byte(text, i)
  IN  CASE b \in DOMAIN Structural -> Token(Structural[b], <<>>, i + 1)
        [] b = Quote -> ScanString(text, i + 1)
        [] b \in Digit \cup {Minus} -> ScanNumber(text, i)
        [] b \in {0, EOF} -> Token("end_of_input", <<>>, i + 1)
        [] OTHER -> ScanLiteral(text, i)

\* scan.
Scan(text, i) ==
  TokenAt(text, Min({k \in i..(Len(text) + 1) : Byte(text, k) \notin Whitespace}))

ByteOrderMark == <<239, 187, 191>>

\* The first scan, which skips a byte order mark and takes half of one for an
\* error.
FirstScan(text) ==
  IF Byte(text, 1) # 239 THEN Scan(text, 1)
  ELSE IF \A k \in 1..3 : Byte(text, k) = ByteOrderMark[k] THEN Scan(text, 4)
  ELSE ParseError(1)
=============================================================================
