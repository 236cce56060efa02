----------------------------- MODULE MCMuxConfig -----------------------------
(* Files and libraries for MuxConfig.                                      *)
EXTENDS MuxConfigReference

CONSTANTS liba, libb

InQuotes(s) == <<34>> \o s \o <<34>>
SeqsUpTo(set, n) == UNION {[1..m -> set] : m \in 1..n}

\* Every sequence of up to five of: { } [ ] : , "1" null 0 blank NUL
MCLexemes ==
  {<<123>>, <<125>>, <<91>>, <<93>>, <<58>>, <<44>>, InQuotes(<<49>>),
   <<110, 117, 108, 108>>, <<48>>, <<32>>, <<0>>}

MCTokenTexts == {<<>>} \cup {FlattenSeq(s) : s \in SeqsUpTo(MCLexemes, 5)}

\* Every text of up to five of: - 0 8 . e +, and a number out of range.
MCNumbers == SeqsUpTo({45, 48, 56, 46, 101, 43}, 5)

\* Strings of two bytes, of the forms of UTF-8 and their neighbours, of one
\* \uXXXX and of two.
MCBytes == SeqsUpTo({0, 31, 32, 34, 92, 110, 117, 120, 127, 128, 194}, 2)
MCUtf8 ==
  LET lead == {193, 194, 223, 224, 225, 237, 238, 239, 240, 241, 243, 244, 245}
      second == {127, 128, 143, 144, 159, 160, 191, 192}
      later == {128, 191, 192}
  IN  {<<a, b>> : a \in lead, b \in second}
      \cup {<<a, b, c>> : a \in lead, b \in second, c \in later}
      \cup {<<a, b, c, d>> : a \in lead, b \in second, c \in later, d \in later}
Hex(s) == <<92, 117>> \o s
\* 0 8 D f g, and D800 DBFF DC00 DFFF 0041
MCEscapes ==
  {Hex(s) : s \in [1..4 -> {48, 56, 68, 102, 103}]}
  \cup {Hex(p[1]) \o Hex(p[2]) :
          p \in {<<68, 56, 48, 48>>, <<68, 66, 70, 70>>, <<68, 67, 48, 48>>,
                 <<68, 70, 70, 70>>, <<48, 48, 52, 49>>} \X
                {<<68, 56, 48, 48>>, <<68, 66, 70, 70>>, <<68, 67, 48, 48>>,
                 <<68, 70, 70, 70>>, <<48, 48, 52, 49>>}}
MCStrings == {InQuotes(s) : s \in MCBytes \cup MCUtf8 \cup MCEscapes}

\* Objects of two members: the keys "1", "\u0031", "2"; the values "a", "b",
\* "\u0061", 8, ["a"], {"1":null}.
MCKeys == {InQuotes(<<49>>), InQuotes(Hex(<<48, 48, 51, 49>>)), InQuotes(<<50>>)}
MCValues ==
  {InQuotes(<<97>>), InQuotes(<<98>>), InQuotes(Hex(<<48, 48, 54, 49>>)), <<56>>,
   <<91>> \o InQuotes(<<97>>) \o <<93>>,
   <<123>> \o InQuotes(<<49>>) \o <<58, 110, 117, 108, 108, 125>>}
MCMember(k, v) == k \o <<58>> \o v
MCObject(k1, v1, k2, v2) == <<123>> \o MCMember(k1, v1) \o <<44, 10>> \o MCMember(k2, v2) \o <<125>>
MCObjects == {MCObject(k1, v1, k2, v2) : k1 \in MCKeys, k2 \in MCKeys, v1 \in MCValues, v2 \in MCValues}

\* A byte order mark, half of one, two.
MCMarks ==
  LET bom == <<239, 187, 191>>
  IN  {bom, bom \o <<123, 125>>, <<239, 187>>, <<239, 187, 123, 125>>,
       bom \o bom \o <<123, 125>>, <<32>> \o bom \o <<123, 125>>}

MCFirstFiles == MCTokenTexts \cup MCNumbers \cup MCStrings \cup MCObjects \cup MCMarks

\* {"1":"a","2":"b"}, and one that is no JSON.
MCLaterFiles ==
  {MCObject(InQuotes(<<49>>), InQuotes(<<97>>), InQuotes(<<50>>), InQuotes(<<98>>)), <<123>>}

MCLocationOf == <<49>> :> 1 @@ <<50>> :> 2
MCLibraryOf == <<97>> :> liba @@ <<98>> :> libb

\* Exec: the script always names the same library for a location, or fails.
MCStableAnswers == 1 :> {liba, Null} @@ 2 :> {libb, Null} @@ 3 :> {liba, Null}
=============================================================================
