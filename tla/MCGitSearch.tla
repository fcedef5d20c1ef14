---------------------------- MODULE MCGitSearch ----------------------------
(* One file of up to two lines over the characters a and b; w takes two    *)
(* bytes.  The line aabb has all words of abb and one more.                *)
EXTENDS GitSearch

CONSTANTS a, b, w, f

aa == <<a, a>>
ab == <<a, b>>
bb == <<b, b>>
aab == <<a, a, b>>
abb == <<a, b, b>>
aabb == <<a, a, b, b>>

MCFiles == {f}
MCChars == {a, b, w}
MCWideChars == {w}
MCLines == {abb, aabb}
MCWords == {aab, abb}
MCLineTexts == {{abb}, {aab, abb}}

\* a+bb, aa?bb, aab|abb, (abb){2,}, [ab]bb, w*aab, and one with a group.
MCSearched ==
  {Concat(<<Repetition(Literal(<<a>>), 1, NoMax), Literal(bb)>>),
   Concat(<<Literal(<<a>>), Repetition(Literal(<<a>>), 0, 1), Literal(bb)>>),
   Alternation(<<Literal(aab), Literal(abb)>>),
   Repetition(Literal(abb), 2, NoMax),
   Concat(<<Class({a, b}), Literal(bb)>>),
   Concat(<<Repetition(Literal(<<w>>), 0, NoMax), Literal(aab)>>),
   Capture(Literal(aab))}

\* The parts of these expressions.
MCParts ==
  {Literal(<<a>>), Literal(bb), Literal(aab), Literal(abb), Literal(<<w>>), Class({a, b}),
   Repetition(Literal(<<a>>), 1, NoMax), Repetition(Literal(<<a>>), 0, 1),
   Repetition(Literal(<<w>>), 0, NoMax)}

MCExpressions == MCSearched \cup MCParts

MCDepth ==
  [e \in MCExpressions |-> CASE e.kind \in {"literal", "class"} -> 0
                              [] e.kind = "repetition" -> 1
                              [] OTHER -> 2]

\* aabb; ab; aab abb; wa; and the expressions.
MCQueries ==
  {EmptyQuery, Plain(<<aabb>>), Plain(<<ab>>), Plain(<<aab, abb>>), Plain(<< <<w, a>> >>)}
    \cup {Regex(e) : e \in MCSearched}
=============================================================================
