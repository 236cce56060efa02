----------------------------- MODULE JsonParser -----------------------------
(***************************************************************************)
(* The parser of the JSON library (tai_mux json.hpp: class parser and      *)
(* json_sax_dom_parser), one action per turn of the loop of                *)
(* sax_parse_internal.  The vector `states' and the ref_stack always hold  *)
(* the same containers; `open' stands for both, each with what has been    *)
(* put into it.  An error throws an exception: the parse is rejected.      *)
(***************************************************************************)
EXTENDS JsonLexer

VARIABLES
  file,      \* the text that is parsed
  token,     \* last_token, its value and where it ends
  open,      \* the arrays and objects that are not closed yet
  root,      \* the value the parser makes
  reading    \* "idle", "value" (last_token begins a value), "state" (a value
             \* is complete), "accepted", "rejected"

parseVars == <<file, token, open, root, reading>>

NoToken == Token("uninitialized", <<>>, 1)

\* Values.  The members of an object are a function from keys to values.
NullValue == [kind |-> "null"]
Boolean(b) == [kind |-> "boolean", boolean |-> b]
Number(lexeme) == [kind |-> "number", lexeme |-> lexeme]
String(bytes) == [kind |-> "string", bytes |-> bytes]
Array(items) == [kind |-> "array", items |-> items]
Object(members) == [kind |-> "object", members |-> members]

Idle == file = <<>> /\ token = NoToken /\ open = <<>> /\ root = NullValue /\ reading = "idle"

Reset == file' = <<>> /\ token' = NoToken /\ open' = <<>> /\ root' = NullValue /\ reading' = "idle"

\* The constructor of parser reads the first token.
BeginParse(text) ==
  /\ reading = "idle"
  /\ file' = text
  /\ token' = FirstScan(text)
  /\ reading' = "value"
  /\ UNCHANGED <<open, root>>

\* get_token, with the token before it.
After(t) == Scan(file, t.next)

\* Fault: the first of two members with the same key stays.
FaultSetMember(members, key, v) ==
  [k \in DOMAIN members \cup {key} |-> IF k \in DOMAIN members THEN members[k] ELSE v]

\* operator[] of an object and the assignment to it: a key that comes again
\* replaces the earlier member.
SetMember(members, key, v) ==
  [k \in DOMAIN members \cup {key} |-> IF k = key THEN v ELSE members[k]]

\* What the container c is when v has been put into it.
WithValue(c, v) ==
  IF c.kind = "array" THEN [c EXCEPT !.items = Append(@, v)]
  ELSE [c EXCEPT !.members = SetMember(@, c.key, v)]

\* handle_value: v is complete; `stack' holds the containers around it.
HandleValue(stack, v) ==
  /\ reading' = "state"
  /\ IF stack = <<>>
     THEN root' = v /\ open' = stack
     ELSE root' = root /\ open' = Append(Front(stack), WithValue(Last(stack), v))

Reject ==
  /\ reading' = "rejected"
  /\ UNCHANGED <<token, open, root>>

OpenArray ==
  /\ reading = "value" /\ token.type = "begin_array"
  /\ token' = After(token)
  /\ IF token'.type = "end_array"
     THEN HandleValue(open, Array(<<>>))
     ELSE /\ open' = Append(open, [kind |-> "array", items |-> <<>>])
          /\ UNCHANGED <<root, reading>>
  /\ UNCHANGED file

\* A key, the colon after it and the token of the value: `key' is the last
\* token read, `stack' the containers with the object innermost.
ReadKey(key, stack) ==
  IF key.type = "value_string" /\ After(key).type = "name_separator"
  THEN /\ token' = After(After(key))
       /\ open' = Append(Front(stack), [Last(stack) EXCEPT !.key = key.value])
       /\ reading' = "value"
       /\ UNCHANGED root
  ELSE Reject

OpenObject ==
  /\ reading = "value" /\ token.type = "begin_object"
  /\ IF After(token).type = "end_object"
     THEN token' = After(token) /\ HandleValue(open, Object(<<>>))
     ELSE ReadKey(After(token),
                  Append(open, [kind |-> "object", members |-> <<>>, key |-> <<>>]))
  /\ UNCHANGED file

\* strtod answers infinity: the exponent is above 308 and a digit before it
\* is not zero (what becomes of exponents close to 308 is left out).
Overflows(lexeme) ==
  \E e \in 1..Len(lexeme) :
    /\ lexeme[e] \in Exponent
    /\ Occurs(49..57, SubSeq(lexeme, 1, e - 1))
    /\ ~Occurs({Minus}, SubSeq(lexeme, e, Len(lexeme)))
    /\ LET digits == SelectSeq(SubSeq(lexeme, e, Len(lexeme)), LAMBDA b : b \in Digit)
           value[k \in 0..Len(digits)] ==
             IF k = 0 THEN 0 ELSE value[k - 1] * 10 + digits[k] - 48
       IN  value[Len(digits)] > 308

\* The scalar a token stands for, if it stands for one.
ScalarOf(t) ==
  CASE t.type = "literal_null" -> {NullValue}
    [] t.type = "literal_true" -> {Boolean(TRUE)}
    [] t.type = "literal_false" -> {Boolean(FALSE)}
    [] t.type = "value_string" -> {String(t.value)}
    [] t.type \in {"value_unsigned", "value_integer"} -> {Number(t.value)}
    [] t.type = "value_float" -> IF Overflows(t.value) THEN {} ELSE {Number(t.value)}
    [] OTHER -> {}

Scalar ==
  /\ reading = "value"
  /\ \E v \in ScalarOf(token) : HandleValue(open, v)
  /\ UNCHANGED <<file, token>>

\* A token that begins no value, and a number out of range.
Unexpected ==
  /\ reading = "value"
  /\ token.type \notin {"begin_array", "begin_object"}
  /\ ScalarOf(token) = {}
  /\ Reject
  /\ UNCHANGED file

\* A value is complete within an array.
EvaluateArray ==
  /\ reading = "state" /\ open # <<>> /\ Last(open).kind = "array"
  /\ LET t == After(token)
     IN  \/ /\ t.type = "value_separator"
            /\ token' = After(t)
            /\ reading' = "value"
            /\ UNCHANGED <<open, root>>
         \/ /\ t.type = "end_array"
            /\ token' = t
            /\ HandleValue(Front(open), Array(Last(open).items))
         \/ /\ t.type \notin {"value_separator", "end_array"}
            /\ Reject
  /\ UNCHANGED file

\* A value is complete within an object.
EvaluateObject ==
  /\ reading = "state" /\ open # <<>> /\ Last(open).kind = "object"
  /\ LET t == After(token)
     IN  \/ t.type = "value_separator" /\ ReadKey(After(t), open)
         \/ /\ t.type = "end_object"
            /\ token' = t
            /\ HandleValue(Front(open), Object(Last(open).members))
         \/ /\ t.type \notin {"value_separator", "end_object"}
            /\ Reject
  /\ UNCHANGED file

\* The document is complete: nothing may follow it.
Finish ==
  /\ reading = "state" /\ open = <<>>
  /\ reading' = IF After(token).type = "end_of_input" THEN "accepted" ELSE "rejected"
  /\ UNCHANGED <<file, token, open, root>>

ParseNext ==
  OpenArray \/ OpenObject \/ Scalar \/ Unexpected \/ EvaluateArray \/ EvaluateObject \/ Finish
=============================================================================
