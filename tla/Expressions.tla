---------------------------- MODULE Expressions -----------------------------
(***************************************************************************)
(* Infix expressions as sequences of tokens, and the tree each stands for: *)
(* the reference for the two converters of the repository, c204 of IAL and *)
(* expression.c of IFJ.  A leaf is <<operand>>, a node <<operator, left,   *)
(* right>>.                                                                *)
(***************************************************************************)
EXTENDS Integers, SequencesExt, FiniteSetsExt

Relations == {"<"}
Additive == {"+", "-"}
Multiplicative == {"*", "/"}
Operators == Relations \cup Additive \cup Multiplicative
Operand(t) == t \notin Operators \cup {"(", ")"}

\* How many parentheses are open after i tokens.
Open(s, i) ==
  Cardinality({j \in 1 .. i : s[j] = "("}) - Cardinality({j \in 1 .. i : s[j] = ")"})

\* The operators of a level that are in no parentheses, and the one that is
\* applied last.
Outer(s, level) == {i \in DOMAIN s : s[i] \in level /\ Open(s, i) = 0}
Levels == <<Relations, Additive, Multiplicative>>
Loosest(s) == SelectInSeq(Levels, LAMBDA level : Outer(s, level) # {})
Root(s) == Max(Outer(s, Levels[Loosest(s)]))
Before(s) == SubSeq(s, 1, Root(s) - 1)
Behind(s) == SubSeq(s, Root(s) + 1, Len(s))

\* A comparison does not compare comparisons.
IsExpression[s \in Seq(STRING)] ==
  CASE Len(s) = 0 -> FALSE
    [] Len(s) = 1 -> Operand(s[1])
    [] Len(s) > 1 /\ Loosest(s) = 0 ->
         s[1] = "(" /\ s[Len(s)] = ")" /\ IsExpression[SubSeq(s, 2, Len(s) - 1)]
    [] OTHER ->
         /\ Loosest(s) = 1 => Cardinality(Outer(s, Relations)) = 1
         /\ IsExpression[Before(s)] /\ IsExpression[Behind(s)]

TreeOf[s \in Seq(STRING)] ==
  CASE Len(s) = 1 -> s
    [] Len(s) > 1 /\ Loosest(s) = 0 -> TreeOf[SubSeq(s, 2, Len(s) - 1)]
    [] OTHER -> <<s[Root(s)], TreeOf[Before(s)], TreeOf[Behind(s)]>>
=============================================================================
