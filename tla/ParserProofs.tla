---------------------------- MODULE ParserProofs ----------------------------
(* What the global flags of IFJ/parser.c stand for, for any nesting of bodies; where the
   precedence analysis of IFJ/expression.c reduces, for expressions of any length; and
   which calls args() and args_n() accept, for any number of parameters.               *)
EXTENDS Parser, PrecedenceParser, Arguments, SequenceTheorems, TLAPS

Body == [kind : {"func", "while", "if", "else"}, name : FunctionIds \cup {""},
         inner : BOOLEAN]

\* The innermost open function is body k.
EnclosedBy(k) ==
  /\ k \in 1 .. Len(bodies)
  /\ bodies[k].kind = "func"
  /\ \A j \in 1 .. Len(bodies) : j > k => bodies[j].kind # "func"

\* A body that is not a function's is open directly around what is read next, and
\* the flag that says so is clear: a while or an if has ended in it.
FlagCleared ==
  bodies # <<>> /\ ~inside_ifwhile /\ bodies[Len(bodies)].kind # "func"
    => bodies[Len(bodies)].inner

ParserInv ==
  /\ bodies \in Seq(Body)
  /\ inside_ifwhile \in BOOLEAN /\ inside_function \in BOOLEAN
  /\ FlagCleared
  /\ BlockKeepsFunctionsOut
  /\ inside_function =>
       \E k \in 1 .. Len(bodies) : EnclosedBy(k) /\ bodies[k].name = current_function

\* The innermost open function is the only one with no function above it.
LEMMA EnclosingBody ==
  ASSUME NEW k \in 1 .. Len(bodies), bodies \in Seq(Body), EnclosedBy(k)
  PROVE  Enclosing = k
<1> DEFINE functions == {i \in 1 .. Len(bodies) : bodies[i].kind = "func"}
<1>1. k \in functions /\ \A i \in functions : k >= i
  BY DEF EnclosedBy
<1>2. \A x \in functions : (\A i \in functions : x >= i) => x = k
  BY <1>1
<1>3. Max(functions) = k
  BY <1>1, <1>2 DEF Max
<1>4. Enclosing = IF functions # {} THEN Max(functions) ELSE 0
  BY DEF Enclosing, SelectLastInSubSeq
<1> QED BY <1>1, <1>3, <1>4

\* A body is opened.
LEMMA Opening ==
  ASSUME NEW s \in Seq(Body), NEW b \in Body
  PROVE  /\ Append(s, b) \in Seq(Body)
         /\ Len(Append(s, b)) = Len(s) + 1
         /\ Append(s, b)[Len(s) + 1] = b
         /\ \A i \in 1 .. Len(s) : Append(s, b)[i] = s[i]
OBVIOUS

\* A body is closed.
LEMMA Closing ==
  ASSUME NEW s \in Seq(Body), s # <<>>
  PROVE  /\ Front(s) \in Seq(Body)
         /\ Len(Front(s)) = Len(s) - 1
         /\ \A i \in 1 .. Len(s) - 1 : Front(s)[i] = s[i]
<1>1. Len(s) \in Nat /\ Len(s) # 0
  OBVIOUS
<1>2. \A i \in 1 .. Len(s) - 1 : s[i] \in Body
  BY <1>1
<1>3. Front(s) = [i \in 1 .. Len(s) - 1 |-> s[i]]
  BY <1>1 DEF Front
<1> HIDE DEF Body
<1> QED BY <1>1, <1>2, <1>3

\* The head of a function keeps the invariant.
LEMMA FunctionHeadStep ==
  ASSUME ParserInv, NEW f \in FunctionIds, FunctionHead(f), bodies' # bodies
  PROVE  ParserInv'
<1> DEFINE b == [kind |-> "func", name |-> f, inner |-> FALSE]
<1>1. /\ ~inside_ifwhile /\ bodies' = Append(bodies, b)
      /\ inside_function' = TRUE /\ current_function' = f
      /\ inside_ifwhile' = inside_ifwhile
  BY DEF FunctionHead, Refused, OpensBody
<1>2. b \in Body /\ bodies \in Seq(Body)
  BY DEF Body, ParserInv
<1> DEFINE n == Len(bodies)
<1>3. /\ bodies' \in Seq(Body) /\ Len(bodies') = n + 1 /\ bodies'[n + 1] = b
      /\ \A i \in 1 .. n : bodies'[i] = bodies[i]
      /\ n \in Nat
  BY <1>1, <1>2, Opening
<1>4. FlagCleared'
  BY <1>3 DEF FlagCleared
<1>5. BlockKeepsFunctionsOut'
  <2> SUFFICES ASSUME NEW i \in 2 .. n + 1, bodies'[i].kind = "func",
                      bodies'[i - 1].kind # "func"
               PROVE  bodies'[i - 1].inner
    BY <1>3 DEF BlockKeepsFunctionsOut
  <2>1. CASE i = n + 1
    <3>1. i - 1 = n /\ n \in 1 .. n /\ bodies # <<>>
      BY <1>2, <1>3, <2>1
    <3> QED BY <1>1, <1>3, <3>1 DEF ParserInv, FlagCleared
  <2>2. CASE i # n + 1
    <3>1. i \in 2 .. n /\ i - 1 \in 1 .. n /\ i \in 1 .. n
      BY <1>3, <2>2
    <3> QED BY <1>3, <3>1 DEF ParserInv, BlockKeepsFunctionsOut
  <2> QED BY <2>1, <2>2
<1>6. \E k \in 1 .. Len(bodies') : EnclosedBy(k)' /\ bodies'[k].name = current_function'
  <2>1. PICK k \in Nat : k = n + 1
    BY <1>3
  <2>2. k \in 1 .. Len(bodies') /\ bodies'[k] = b
    BY <1>3, <2>1
  <2>3. \A j \in 1 .. Len(bodies') : ~(j > k)
    BY <1>3, <2>1
  <2>4. EnclosedBy(k)'
    BY <2>2, <2>3 DEF EnclosedBy
  <2> QED BY <1>1, <2>2, <2>4
<1>7. inside_ifwhile' \in BOOLEAN /\ inside_function' \in BOOLEAN
  BY <1>1 DEF ParserInv
<1> QED BY <1>3, <1>4, <1>5, <1>6, <1>7 DEF ParserInv

\* The end of a function keeps the invariant: the flag it clears is the whole of it.
LEMMA FunctionEndStep ==
  ASSUME ParserInv, FunctionEnd, bodies' # bodies
  PROVE  ParserInv'
<1> DEFINE n == Len(bodies)
<1>1. /\ bodies # <<>> /\ bodies[n].kind = "func" /\ bodies' = Front(bodies)
      /\ inside_function' = FALSE /\ inside_ifwhile' = inside_ifwhile
  BY DEF FunctionEnd, FunctionEndLeaves, Refused, Inside, Last
<1>2. bodies \in Seq(Body) /\ n \in Nat \ {0}
  BY <1>1 DEF ParserInv
<1>3. /\ bodies' \in Seq(Body) /\ Len(bodies') = n - 1
      /\ \A i \in 1 .. n - 1 : bodies'[i] = bodies[i]
  BY <1>1, <1>2, Closing
<1>4. FlagCleared'
  <2> SUFFICES ASSUME bodies' # <<>>, bodies'[n - 1].kind # "func"
               PROVE  bodies'[n - 1].inner
    BY <1>3 DEF FlagCleared
  <2>1. n \in 2 .. n /\ n - 1 \in 1 .. n - 1
    BY <1>2, <1>3
  <2> QED BY <1>1, <1>3, <2>1 DEF ParserInv, BlockKeepsFunctionsOut
<1>5. BlockKeepsFunctionsOut'
  <2>1. \A i \in 2 .. n - 1 : i \in 2 .. n /\ i \in 1 .. n - 1 /\ i - 1 \in 1 .. n - 1
    BY <1>2
  <2> QED BY <1>3, <2>1 DEF ParserInv, BlockKeepsFunctionsOut
<1> QED BY <1>1, <1>3, <1>4, <1>5 DEF ParserInv

\* The bodies up to m stay, with whatever is opened above them that is no function.
LEMMA BlockStep ==
  ASSUME ParserInv, NEW m \in Nat, m <= Len(bodies),
         \A j \in 1 .. Len(bodies) : j > m => bodies[j].kind # "func",
         bodies' \in Seq(Body), Len(bodies') \in {m, m + 1},
         \A i \in 1 .. m : /\ bodies'[i].kind = bodies[i].kind
                           /\ bodies'[i].name = bodies[i].name
                           /\ bodies[i].inner => bodies'[i].inner,
         Len(bodies') = m + 1 => bodies'[m + 1].kind # "func",
         inside_ifwhile' \in BOOLEAN, FlagCleared',
         UNCHANGED <<inside_function, current_function>>
  PROVE  ParserInv'
<1>1. bodies \in Seq(Body) /\ Len(bodies) \in Nat
  BY DEF ParserInv
<1>2. BlockKeepsFunctionsOut'
  <2> SUFFICES ASSUME NEW i \in 2 .. Len(bodies'), bodies'[i].kind = "func",
                      bodies'[i - 1].kind # "func"
               PROVE  bodies'[i - 1].inner
    BY DEF BlockKeepsFunctionsOut
  <2>1. i \in 2 .. m /\ i \in 1 .. m /\ i - 1 \in 1 .. m /\ i \in 2 .. Len(bodies)
    BY <1>1
  <2> QED BY <2>1 DEF ParserInv, BlockKeepsFunctionsOut
<1>3. ASSUME inside_function'
      PROVE  \E k \in 1 .. Len(bodies') :
               EnclosedBy(k)' /\ bodies'[k].name = current_function'
  <2>1. PICK k \in 1 .. Len(bodies) : EnclosedBy(k) /\ bodies[k].name = current_function
    BY <1>3 DEF ParserInv
  <2>2. k \in 1 .. m /\ k \in 1 .. Len(bodies')
    BY <1>1, <2>1 DEF EnclosedBy
  <2>3. \A j \in 1 .. Len(bodies') : j > k => bodies'[j].kind # "func"
    <3> TAKE j \in 1 .. Len(bodies')
    <3>1. j = m + 1 \/ (j \in 1 .. m /\ j \in 1 .. Len(bodies))
      BY <1>1
    <3> QED BY <2>1, <3>1 DEF EnclosedBy
  <2>4. EnclosedBy(k)' /\ bodies'[k].name = current_function'
    BY <2>1, <2>2, <2>3 DEF EnclosedBy
  <2> QED BY <2>2, <2>4
<1> QED BY <1>2, <1>3 DEF ParserInv

\* Every statement keeps the invariant.
LEMMA ParserStep == ParserInv /\ [statement]_parserVars => ParserInv'
<1> SUFFICES ASSUME ParserInv, [statement]_parserVars PROVE ParserInv'
  OBVIOUS
<1> DEFINE n == Len(bodies)
<1>0. bodies \in Seq(Body) /\ n \in Nat /\ inside_ifwhile \in BOOLEAN
  BY DEF ParserInv
<1>1. CASE UNCHANGED <<bodies, parserFlags>>
  BY <1>1 DEF parserFlags, ParserInv, FlagCleared, BlockKeepsFunctionsOut, EnclosedBy
<1>2. ASSUME UNCHANGED <<bodies, inside_ifwhile, inside_function, current_function>>
      PROVE  ParserInv'
  BY <1>2 DEF ParserInv, FlagCleared, BlockKeepsFunctionsOut, EnclosedBy
<1>3. ASSUME NEW f \in FunctionIds, FunctionHead(f) PROVE ParserInv'
  <2>1. CASE Refused
    BY <1>1, <2>1 DEF Refused
  <2>2. CASE ~Refused
    <3> DEFINE b == [kind |-> "func", name |-> f, inner |-> FALSE]
    <3>1. bodies' = Append(bodies, b)
      BY <1>3, <2>2 DEF FunctionHead, OpensBody
    <3>2. b \in Body
      BY DEF Body
    <3> HIDE DEF b
    <3>3. Len(bodies') = n + 1
      BY <1>0, <3>1, <3>2, Opening
    <3>4. bodies' # bodies
      BY <1>0, <3>3
    <3> QED BY <1>3, <3>4, FunctionHeadStep
  <2> QED BY <2>1, <2>2
<1>4. CASE FunctionEnd
  <2>1. CASE Refused
    BY <1>1, <2>1 DEF Refused
  <2>2. CASE ~Refused
    <3>1. bodies' = Front(bodies) /\ bodies # <<>>
      BY <1>4, <2>2 DEF FunctionEnd, FunctionEndLeaves, Inside
    <3>2. bodies' # bodies
      BY <1>0, <3>1, Closing
    <3> QED BY <1>4, <3>2, FunctionEndStep
  <2> QED BY <2>1, <2>2
<1>5. ASSUME NEW kind \in {"while", "if"}, BlockHead(kind) PROVE ParserInv'
  <2>1. CASE Refused
    BY <1>1, <2>1 DEF Refused
  <2>2. CASE OpensBody(kind, "", NoVariables) /\ Block(TRUE)
    <3> DEFINE b == [kind |-> kind, name |-> "", inner |-> FALSE]
    <3>1. b \in Body /\ b.kind # "func"
      BY DEF Body
    <3>2. /\ bodies' = Append(bodies, b) /\ inside_ifwhile' = TRUE
          /\ UNCHANGED <<inside_function, current_function>>
      BY <2>2 DEF OpensBody, Block
    <3> HIDE DEF b
    <3>3. /\ bodies' \in Seq(Body) /\ Len(bodies') = n + 1 /\ bodies'[n + 1] = b
          /\ \A i \in 1 .. n : bodies'[i] = bodies[i]
      BY <1>0, <3>1, <3>2, Opening
    <3>4. FlagCleared'
      BY <3>2 DEF FlagCleared
    <3> QED BY <1>0, <3>1, <3>2, <3>3, <3>4, BlockStep
  <2> QED BY <1>5, <2>1, <2>2 DEF BlockHead
<1>6. CASE IfEnd
  <2>1. CASE Refused
    BY <1>1, <2>1 DEF Refused
  <2>2. CASE ~Refused
    <3> DEFINE b == [kind |-> "else", name |-> "", inner |-> FALSE]
    <3>1. b \in Body /\ b.kind # "func"
      BY DEF Body
    <3>2. /\ bodies # <<>> /\ bodies[n].kind = "if"
          /\ bodies' = Append(Front(bodies), b) /\ inside_ifwhile' = TRUE
          /\ UNCHANGED <<inside_function, current_function>>
      BY <1>6, <2>2 DEF IfEnd, Block, Inside, Last
    <3> HIDE DEF b
    <3>3. /\ Front(bodies) \in Seq(Body) /\ Len(Front(bodies)) = n - 1
          /\ \A i \in 1 .. n - 1 : Front(bodies)[i] = bodies[i]
      BY <1>0, <3>2, Closing
    <3>4. /\ bodies' \in Seq(Body) /\ Len(bodies') = n /\ bodies'[n] = b
          /\ \A i \in 1 .. n - 1 : bodies'[i] = bodies[i]
          /\ n - 1 \in Nat
      BY <1>0, <3>1, <3>2, <3>3, Opening
    <3>5. FlagCleared'
      BY <3>2 DEF FlagCleared
    <3>6. \A j \in 1 .. n : j > n - 1 => bodies[j].kind # "func"
      BY <1>0, <3>2
    <3> QED BY SMTT(30), <1>0, <3>1, <3>2, <3>4, <3>5, <3>6, BlockStep
  <2> QED BY <2>1, <2>2
<1>7. CASE BlockEnd
  <2>1. /\ bodies # <<>> /\ bodies[n].kind # "func" /\ inside_ifwhile' = FALSE
        /\ bodies' = [i \in 1 .. n - 1 |-> IF i = n - 1 THEN [bodies[i] EXCEPT !.inner = TRUE]
                                                       ELSE bodies[i]]
        /\ UNCHANGED <<inside_function, current_function>>
    BY <1>7 DEF BlockEnd, Block, Inside, Last
  <2>2. n - 1 \in Nat
    BY <1>0, <2>1
  <2>3. \A i \in 1 .. n - 1 : bodies[i] \in Body /\ [bodies[i] EXCEPT !.inner = TRUE] \in Body
    <3>1. \A b \in Body : [b EXCEPT !.inner = TRUE] \in Body
      BY DEF Body
    <3> QED BY <1>0, <2>2, <3>1
  <2>4. bodies' \in Seq(Body) /\ Len(bodies') = n - 1
    BY <2>1, <2>2, <2>3
  <2>5. \A i \in 1 .. n - 1 : /\ bodies'[i].kind = bodies[i].kind
                              /\ bodies'[i].name = bodies[i].name
                              /\ bodies[i].inner => bodies'[i].inner
    BY <2>1, <2>2, <2>3 DEF Body
  <2>6. FlagCleared'
    <3>1. bodies' # <<>> => n - 1 \in 1 .. n - 1
      BY <2>2, <2>4
    <3>2. n - 1 \in 1 .. n - 1 => bodies'[n - 1].inner
      BY <2>1, <2>2, <2>3 DEF Body
    <3> QED BY <2>4, <3>1, <3>2 DEF FlagCleared
  <2>7. \A j \in 1 .. n : j > n - 1 => bodies[j].kind # "func"
    BY <1>0, <2>1
  <2>8. n - 1 <= n /\ n - 1 # (n - 1) + 1
    BY <1>0, <2>2
  <2>10. inside_ifwhile' \in BOOLEAN
    BY <2>1
  <2> HIDE DEF n
  <2>9. n = Len(bodies)
    BY DEF n
  <2> QED BY <2>1, <2>2, <2>4, <2>5, <2>6, <2>7, <2>8, <2>9, <2>10, BlockStep
<1>8. CASE Return
  BY <1>1, <1>2, <1>8 DEF Return, Refused
<1>9. ASSUME NEW kind, NEW x, Declaration(kind, x) \/ DeclarationOfCall(kind, x)
      PROVE  ParserInv'
  BY <1>1, <1>2, <1>9 DEF Declaration, DeclarationOfCall, Refused
<1>10. ASSUME NEW x, Assignment(x) PROVE ParserInv'
  BY <1>1, <1>10 DEF Assignment, Refused, program_vars
<1>11. CASE Call \/ EndOfFile \/ StrayBrace
  BY <1>1, <1>11 DEF Call, EndOfFile, StrayBrace, Refused, program_vars
<1>12. CASE UNCHANGED parserVars
  BY <1>2, <1>12 DEF parserVars
<1> QED BY <1>3, <1>4, <1>5, <1>6, <1>7, <1>8, <1>9, <1>10, <1>11, <1>12 DEF statement

\* The invariant holds in every state of the parser.
LEMMA ParserInvariant == parserSpec => []ParserInv
<1>1. ASSUME parse PROVE ParserInv
  <2>1. bodies = <<>> /\ Len(bodies) = 0 /\ ~inside_ifwhile /\ ~inside_function
    BY <1>1 DEF parse
  <2>2. bodies \in Seq(Body)
    BY <2>1
  <2>3. \A i \in 2 .. Len(bodies) : FALSE
    BY <2>1
  <2>4. BlockKeepsFunctionsOut
    BY <2>3 DEF BlockKeepsFunctionsOut
  <2>5. inside_ifwhile \in BOOLEAN /\ inside_function \in BOOLEAN
    BY <1>1 DEF parse
  <2> QED BY <2>1, <2>2, <2>4, <2>5 DEF ParserInv, FlagCleared
<1> QED BY <1>1, ParserStep, PTL DEF parserSpec

\* However deep bodies nest, a function is accepted in a while or an if only behind
\* another while or if that has ended in it (inside_ifwhile in parser.c).
THEOREM FunctionsKeptOut == parserSpec => []BlockKeepsFunctionsOut
<1>1. ParserInv => BlockKeepsFunctionsOut
  BY DEF ParserInv
<1> QED BY <1>1, ParserInvariant, PTL

\* However deep functions nest, the globals inside_function and current_function of
\* parser.c stand for the innermost open function whenever a return is accepted.
THEOREM ReturnsChecked == parserSpec => []ReturnsInFunction
<1>1. ParserInv => ReturnsInFunction
  <2> SUFFICES ASSUME ParserInv, inside_function
               PROVE  Enclosing # 0 /\ current_function = bodies[Enclosing].name
    BY DEF ReturnsInFunction
  <2>1. PICK k \in 1 .. Len(bodies) : EnclosedBy(k) /\ bodies[k].name = current_function
    BY DEF ParserInv
  <2>2. bodies \in Seq(Body)
    BY DEF ParserInv
  <2>3. Enclosing = k
    BY <2>1, <2>2, EnclosingBody
  <2> QED BY <2>1, <2>3
<1> QED BY <1>1, ParserInvariant, PTL

-----------------------------------------------------------------------------
(* The stack of the precedence analysis of expression.c.                      *)

\* The terminals that an operand may follow.
Opens == {"$", "("} \cup Operators

\* What may lie at place i of the stack s: an S below a terminal or below an operand
\* and its operator, an operand on the terminal it follows.
Fits(s, i) ==
  /\ \/ s[i].symbol = "S" /\ i < Len(s) /\ s[i - 1].symbol \in Opens
     \/ s[i].symbol = "E" /\ s[i - 1].symbol \in Opens
     \/ s[i].symbol = "E" /\ s[i - 1].symbol = "S" /\ i < Len(s)
     \/ s[i].symbol \in {"i", "("} /\ s[i - 1].symbol = "S"
     \/ /\ s[i].symbol \in Operators
        /\ \/ s[i - 1].symbol = "S"
           \/ s[i - 1].symbol = "E" /\ s[i - 2].symbol = "S"
     \/ /\ s[i].symbol = ")"
        /\ \/ s[i - 1].symbol = "("
           \/ s[i - 1].symbol = "E" /\ s[i - 2].symbol = "("
  /\ s[i].symbol \in {"i", ")"} => i = Len(s)

\* A sequence of whatever its elements are.
Sequence(s) == s \in Seq(ToSet(s))

Stacked(s) ==
  /\ Sequence(s) /\ Len(s) >= 2
  /\ s[1].symbol = "EMPTY" /\ s[2].symbol = "$"
  /\ \A i \in 3 .. Len(s) : Fits(s, i)

\* An operand is on top only before a token that cannot begin another one.
ExpInv ==
  err = <<>> =>
    /\ Stacked(exp_stack)
    /\ IF current_token = "" THEN Len(exp_stack) = 2
       ELSE current_token \in Tokens /\ check_token_symbol(current_token) # "invalid"
    /\ exp_stack[Len(exp_stack)].symbol = "E" => Symbol \notin {"i", "("}

\* What the table says of a terminal and a symbol.
LEMMA TableSays ==
  ASSUME NEW top \in Opens \cup {"i", ")"}, NEW symbol \in Opens \cup {"i", ")"}
  PROVE  /\ prec_table(top, symbol) = "S" =>
              top \in Opens /\ symbol \in {"i", "("} \cup Operators
         /\ prec_table(top, symbol) = "W" => top = "(" /\ symbol = ")"
         /\ prec_table(top, symbol) = "R" =>
              top \in {"i", ")"} \cup Operators /\ symbol \notin {"i", "("}
<1> USE DEF Opens, Operators, Relations, Additive, Multiplicative, prec_table
<1>1. CASE top \in {"$", "("}
  BY <1>1
<1>2. CASE top \in {")", "i"}
  BY <1>2
<1>3. CASE top \in Operators /\ symbol \notin Operators
  BY <1>3
<1>4. CASE top \in Operators /\ symbol \in Operators
  BY <1>4
<1> QED BY <1>1, <1>2, <1>3, <1>4

\* A token that was not refused is one of the symbols of the table.
LEMMA SymbolKnown ==
  ASSUME current_token \in Tokens, check_token_symbol(current_token) # "invalid"
  PROVE  Symbol \in Opens \cup {"i", ")"}
BY DEF Symbol, check_token_symbol, Tokens, Identifiers, Literals, Opens, Operators,
   Relations, Additive, Multiplicative

\* The largest element of a set.
LEMMA MaxIs ==
  ASSUME NEW S \in SUBSET Int, NEW x \in S, \A y \in S : x >= y
  PROVE  Max(S) = x
<1>1. \A z \in S : (\A y \in S : z >= y) => z = x
  OBVIOUS
<1> QED BY <1>1 DEF Max

\* The topmost terminal is the top of the stack or has an operand on it.
LEMMA TopTerminal ==
  ASSUME Stacked(exp_stack)
  PROVE  /\ Topmost \in 2 .. Len(exp_stack)
         /\ exp_stack[Topmost].symbol \in Opens \cup {"i", ")"}
         /\ \/ Topmost = Len(exp_stack)
            \/ /\ Topmost = Len(exp_stack) - 1 /\ exp_stack[Len(exp_stack)].symbol = "E"
               /\ exp_stack[Topmost].symbol \in Opens
<1> DEFINE n == Len(exp_stack)
           terminals == {i \in DOMAIN exp_stack : Terminal(exp_stack[i])}
<1>1. n \in Nat /\ n >= 2 /\ DOMAIN exp_stack = 1 .. n /\ terminals \in SUBSET Int
  BY DEF Stacked, Sequence
<1>a. Topmost = Max(terminals)
  BY DEF Topmost
<1>2. \/ n = 2 /\ exp_stack[n].symbol = "$"
      \/ n > 2 /\ Fits(exp_stack, n)
  BY <1>1 DEF Stacked
<1>3. CASE exp_stack[n].symbol = "E"
  <2>1. exp_stack[n - 1].symbol \in Opens /\ n > 2
    BY <1>2, <1>3 DEF Fits, Operators, Relations, Additive, Multiplicative
  <2>2. n - 1 \in terminals /\ \A i \in terminals : n - 1 >= i
    BY <1>1, <1>3, <2>1 DEF Terminal, Opens, Operators, Relations, Additive, Multiplicative
  <2> HIDE DEF terminals
  <2>3. Topmost = n - 1
    BY <1>1, <1>a, <2>2, MaxIs
  <2>4. Topmost \in 2 .. n
    BY <1>1, <2>1, <2>3
  <2> QED BY <1>3, <2>1, <2>3, <2>4
<1>4. CASE exp_stack[n].symbol # "E"
  <2>1. exp_stack[n].symbol \in Opens \cup {"i", ")"}
    BY <1>1, <1>2, <1>4 DEF Fits, Opens
  <2>2. n \in terminals /\ \A i \in terminals : n >= i
    BY <1>1, <2>1 DEF Terminal, Opens, Operators, Relations, Additive, Multiplicative
  <2> HIDE DEF terminals
  <2>3. Topmost = n
    BY <1>1, <1>a, <2>2, MaxIs
  <2> QED BY <1>1, <2>1, <2>3
<1> QED BY <1>3, <1>4

\* Where the table reduces, a right-hand side lies on the topmost S.
LEMMA HandleFound ==
  ASSUME Stacked(exp_stack), exp_stack[Topmost].symbol \in {"i", ")"} \cup Operators
  PROVE  \E a \in 3 .. Len(exp_stack) - 1 :
           /\ exp_stack[a].symbol = "S" /\ exp_stack[a - 1].symbol \in Opens
           /\ a >= Len(exp_stack) - 3
           /\ \A j \in a + 1 .. Len(exp_stack) : exp_stack[j].symbol # "S"
<1> DEFINE n == Len(exp_stack)
           Anchor(a) == /\ a \in 3 .. n - 1
                        /\ exp_stack[a].symbol = "S" /\ exp_stack[a - 1].symbol \in Opens
                        /\ a >= n - 3
                        /\ \A j \in a + 1 .. n : exp_stack[j].symbol # "S"
<1> SUFFICES \E a : Anchor(a)
  OBVIOUS
<1> USE DEF Operators, Relations, Additive, Multiplicative
<1>1. n \in Nat /\ n >= 2 /\ exp_stack[1].symbol = "EMPTY" /\ exp_stack[2].symbol = "$"
  BY DEF Stacked, Sequence
<1>2. \A i \in 3 .. n : Fits(exp_stack, i)
  BY DEF Stacked, Sequence
<1>3. Topmost \in 3 .. n /\ Fits(exp_stack, Topmost)
  BY <1>1, <1>2, TopTerminal
<1>4. ASSUME NEW i \in 3 .. n, exp_stack[i].symbol = "S"
      PROVE  exp_stack[i - 1].symbol \in Opens
  BY <1>2, <1>4 DEF Fits
<1>a. ASSUME NEW a \in {n - 3, n - 2, n - 1}, a >= 3, exp_stack[a].symbol = "S",
             \A j \in {n - 2, n - 1, n} : j > a => exp_stack[j].symbol # "S"
      PROVE  Anchor(a)
  <2>1. a \in 3 .. n - 1 /\ a \in 3 .. n /\ a >= n - 3
    BY <1>1, <1>a
  <2>2. \A j \in a + 1 .. n : j \in {n - 2, n - 1, n} /\ j > a
    BY <1>1, <1>a
  <2> QED BY <1>4, <1>a, <2>1, <2>2
<1>5. CASE Topmost = n
  <2>1. CASE exp_stack[n].symbol = "i"
    <3>1. n - 1 \in 3 .. n /\ exp_stack[n - 1].symbol = "S"
      BY <1>1, <1>3, <1>5, <2>1 DEF Fits
    <3>2. Anchor(n - 1)
      BY <1>1, <1>a, <2>1, <3>1
    <3> QED BY <3>2
  <2>2. CASE exp_stack[n].symbol = ")" /\ exp_stack[n - 1].symbol = "("
    <3>1. n - 1 \in 3 .. n /\ Fits(exp_stack, n - 1)
      BY <1>1, <1>2, <1>3, <1>5, <2>2
    <3>2. n - 2 \in 3 .. n /\ exp_stack[n - 2].symbol = "S"
      BY <1>1, <2>2, <3>1 DEF Fits
    <3>3. Anchor(n - 2)
      BY <1>1, <1>a, <2>2, <3>2
    <3> QED BY <3>3
  <2>3. CASE /\ exp_stack[n].symbol = ")" /\ exp_stack[n - 1].symbol = "E"
             /\ exp_stack[n - 2].symbol = "("
    <3>1. n - 2 \in 3 .. n /\ Fits(exp_stack, n - 2)
      BY <1>1, <1>2, <1>3, <1>5, <2>3
    <3>2. n - 3 \in 3 .. n /\ exp_stack[n - 3].symbol = "S"
      BY <1>1, <2>3, <3>1 DEF Fits
    <3>3. Anchor(n - 3)
      BY <1>1, <1>a, <2>3, <3>2
    <3> QED BY <3>3
  <2>4. CASE exp_stack[n].symbol \in Operators /\ exp_stack[n - 1].symbol = "S"
    <3>1. n - 1 \in 3 .. n
      BY <1>1, <1>3, <1>5, <2>4
    <3>2. Anchor(n - 1)
      BY <1>1, <1>a, <2>4, <3>1
    <3> QED BY <3>2
  <2>5. CASE /\ exp_stack[n].symbol \in Operators /\ exp_stack[n - 1].symbol = "E"
             /\ exp_stack[n - 2].symbol = "S"
    <3>1. n - 2 \in 3 .. n
      BY <1>1, <1>3, <1>5, <2>5
    <3>2. Anchor(n - 2)
      BY <1>1, <1>a, <2>5, <3>1
    <3> QED BY <3>2
  <2> QED BY <1>3, <1>5, <2>1, <2>2, <2>3, <2>4, <2>5 DEF Fits
<1>6. CASE Topmost = n - 1 /\ exp_stack[n].symbol = "E" /\ exp_stack[n - 1].symbol \in Operators
  <2>1. CASE exp_stack[n - 2].symbol = "S"
    <3>1. n - 2 \in 3 .. n
      BY <1>1, <1>3, <1>6, <2>1
    <3>2. Anchor(n - 2)
      BY <1>1, <1>a, <1>6, <2>1, <3>1
    <3> QED BY <3>2
  <2>2. CASE exp_stack[n - 2].symbol = "E" /\ exp_stack[n - 3].symbol = "S"
    <3>1. n - 3 \in 3 .. n
      BY <1>1, <1>3, <1>6, <2>2
    <3>2. Anchor(n - 3)
      BY <1>1, <1>a, <1>6, <2>2, <3>1
    <3> QED BY <3>2
  <2> QED BY <1>3, <1>6, <2>1, <2>2 DEF Fits
<1> QED BY <1>5, <1>6, TopTerminal DEF Opens

\* The handle is that right-hand side with its S.
LEMMA HandleIs ==
  ASSUME Stacked(exp_stack), NEW a \in 3 .. Len(exp_stack) - 1,
         exp_stack[a].symbol = "S", a >= Len(exp_stack) - 3,
         \A j \in a + 1 .. Len(exp_stack) : exp_stack[j].symbol # "S"
  PROVE  /\ Handle = SubSeq(exp_stack, a, Len(exp_stack))
         /\ Len(Handle) = Len(exp_stack) - a + 1
         /\ \A k \in 1 .. Len(Handle) : Handle[k] = exp_stack[a + k - 1]
<1> DEFINE n == Len(exp_stack)
           anchors == {i \in DOMAIN exp_stack : exp_stack[i].symbol = "S"}
           places == {n - 3} \cup anchors
<1>1. n \in Nat /\ DOMAIN exp_stack = 1 .. n /\ exp_stack \in Seq(ToSet(exp_stack))
  BY DEF Stacked, Sequence
<1>2. places \in SUBSET Int /\ a \in places /\ \A i \in places : a >= i
  <2>1. anchors \subseteq 1 .. n /\ a \in anchors /\ n - 3 \in Int /\ a >= n - 3
    BY <1>1
  <2>2. \A i \in anchors : i \notin a + 1 .. n
    OBVIOUS
  <2>3. \A i \in anchors : a >= i
    BY <1>1, <2>1, <2>2
  <2> HIDE DEF anchors
  <2>4. \A i \in anchors : i \in Int
    BY <1>1, <2>1
  <2>5. \A i \in places : i = n - 3 \/ i \in anchors
    OBVIOUS
  <2> HIDE DEF n
  <2> QED BY <2>1, <2>3, <2>4, <2>5
<1>3. Max(places) = a
  <2> HIDE DEF places
  <2> QED BY <1>2, MaxIs
<1>4. Handle = SubSeq(exp_stack, a, n)
  BY <1>3 DEF Handle
<1> QED BY <1>1, <1>4

\* What is below the topmost S and what follows a terminal stays where it fits.
LEMMA FitsKept ==
  ASSUME NEW s, NEW t, NEW i \in 3 .. Len(s), Fits(s, i), i < Len(t),
         s[i].symbol \notin {"i", ")"},
         t[i] = s[i], t[i - 1] = s[i - 1], t[i - 2] = s[i - 2]
  PROVE  Fits(t, i)
BY DEF Fits

\* A sequence is one of its own elements.
LEMMA OwnElements ==
  ASSUME NEW V, NEW s \in Seq(V)
  PROVE  Sequence(s)
<1>1. \A i \in 1 .. Len(s) : s[i] \in ToSet(s)
  BY DEF ToSet
<1> QED BY <1>1 DEF Sequence

\* An item is pushed.
LEMMA PushedItem ==
  ASSUME NEW V, NEW s \in Seq(V), NEW x
  PROVE  /\ Sequence(Append(s, x)) /\ Len(Append(s, x)) = Len(s) + 1
         /\ \A i \in 1 .. Len(s) : Append(s, x)[i] = s[i]
         /\ Append(s, x)[Len(s) + 1] = x
<1>1. Append(s, x) \in Seq(V \cup {x})
  OBVIOUS
<1>2. Sequence(Append(s, x))
  BY <1>1, OwnElements
<1> QED BY <1>2

\* t is s with x put above the place m and y on the top.
Pushed(t, s, m, x, y) ==
  /\ Sequence(t) /\ Len(t) = Len(s) + 2
  /\ \A i \in 1 .. m : t[i] = s[i]
  /\ t[m + 1] = x /\ t[Len(s) + 2] = y
  /\ m = Len(s) - 1 => t[m + 2] = s[m + 1]

\* An item is inserted and another pushed.
LEMMA PushedItems ==
  ASSUME NEW s, Sequence(s), Len(s) >= 2, NEW x, NEW y, NEW m \in Len(s) - 1 .. Len(s)
  PROVE  Pushed(Append(InsertAt(s, m + 1, x), y), s, m, x, y)
<1> DEFINE V == ToSet(s) \cup {x, y}
           n == Len(s)
           under == SubSeq(s, 1, m)
           above == SubSeq(s, m + 1, n)
           v == under \o <<x>>
           u == v \o above
<1>1. s \in Seq(V) /\ n \in Nat /\ n >= 2 /\ m \in n - 1 .. n /\ x \in V
  BY DEF ToSet, Sequence
<1>2. /\ under \in Seq(V) /\ Len(under) = m
      /\ \A i \in 1 .. m : under[i] = s[i]
  BY <1>1
<1>3. /\ above \in Seq(V) /\ Len(above) = n - m
      /\ m = n - 1 => above[1] = s[m + 1]
  BY <1>1
<1>4. InsertAt(s, m + 1, x) = u
  <2>1. (m + 1) - 1 = m
    BY <1>1
  <2>2. InsertAt(s, m + 1, x) = (SubSeq(s, 1, (m + 1) - 1) \o <<x>>) \o above
    BY DEF InsertAt
  <2> QED BY <2>1, <2>2
<1>5. /\ v \in Seq(V) /\ Len(v) = m + 1 /\ v[m + 1] = x
      /\ \A i \in 1 .. m : v[i] = s[i]
  <2> HIDE DEF V, n, under
  <2> QED BY <1>1, <1>2
<1>6. /\ u \in Seq(V) /\ Len(u) = n + 1 /\ u[m + 1] = x
      /\ \A i \in 1 .. m : u[i] = s[i]
      /\ m = n - 1 => u[m + 2] = s[m + 1]
  <2> HIDE DEF V, n, above, v
  <2>1. u \in Seq(V) /\ Len(u) = n + 1
    BY <1>1, <1>3, <1>5
  <2>2. \A i \in 1 .. m + 1 : u[i] = v[i]
    BY <1>1, <1>3, <1>5
  <2>3. m = n - 1 => u[m + 2] = above[1]
    <3>1. \A i \in 1 .. Len(v) + Len(above) :
            u[i] = IF i <= Len(v) THEN v[i] ELSE above[i - Len(v)]
      BY <1>3, <1>5, ConcatProperties
    <3>2. m = n - 1 => /\ m + 2 \in 1 .. Len(v) + Len(above)
                       /\ ~(m + 2 <= Len(v)) /\ (m + 2) - Len(v) = 1
      BY <1>1, <1>3, <1>5
    <3> QED BY <3>1, <3>2
  <2> HIDE DEF u
  <2> QED BY <1>1, <1>3, <1>5, <2>1, <2>2, <2>3
<1>7. /\ Sequence(Append(u, y)) /\ Len(Append(u, y)) = Len(u) + 1
      /\ \A i \in 1 .. Len(u) : Append(u, y)[i] = u[i]
      /\ Append(u, y)[Len(u) + 1] = y
  <2> HIDE DEF u, V
  <2> QED BY <1>6, PushedItem
<1>8. \A i \in 1 .. m + 2 : m = n - 1 => i \in 1 .. n + 1
  BY <1>1
<1>9. \A i \in 1 .. m + 1 : i \in 1 .. n + 1
  BY <1>1
<1> HIDE DEF u
<1> QED BY <1>1, <1>4, <1>6, <1>7, <1>8, <1>9 DEF Pushed

\* A terminal that is shifted over an S fits, and so does the operand between them.
LEMMA ShiftFits ==
  ASSUME Stacked(exp_stack), exp_stack[Topmost].symbol \in Opens,
         NEW symbol \in {"i", "("} \cup Operators, NEW tree,
         exp_stack[Len(exp_stack)].symbol = "E" => symbol \notin {"i", "("},
         NEW t, t = Append(InsertAt(exp_stack, Topmost + 1, Item("S", <<>>)),
                           Item(symbol, tree))
  PROVE  Stacked(t) /\ t[Len(t)].symbol # "E"
<1> DEFINE s == exp_stack
           n == Len(exp_stack)
           m == Topmost
<1> USE DEF Operators, Relations, Additive, Multiplicative
<1>1. /\ n \in Nat /\ n >= 2 /\ Sequence(s)
      /\ \A i \in 3 .. n : Fits(s, i)
      /\ s[1].symbol = "EMPTY" /\ s[2].symbol = "$"
  BY DEF Stacked, Sequence
<1>2. /\ m \in 2 .. n
      /\ \/ m = n
         \/ m = n - 1 /\ s[n].symbol = "E"
  BY TopTerminal
<1>3. /\ Sequence(t) /\ Len(t) = n + 2
      /\ \A i \in 1 .. m : t[i] = s[i]
      /\ t[m + 1].symbol = "S" /\ t[n + 2].symbol = symbol
      /\ m = n - 1 => t[m + 2] = s[m + 1]
  <2> DEFINE x == Item("S", <<>>)
             y == Item(symbol, tree)
  <2>1. Sequence(s) /\ Len(s) >= 2 /\ m \in Len(s) - 1 .. Len(s)
    BY <1>1, <1>2
  <2>2. x.symbol = "S" /\ y.symbol = symbol
    BY DEF Item
  <2>3. t = Append(InsertAt(s, m + 1, x), y)
    OBVIOUS
  <2> HIDE DEF s, m, x, y
  <2>4. Pushed(t, s, m, x, y)
    BY <2>1, <2>3, PushedItems
  <2> QED BY <2>2, <2>4 DEF s, Pushed
<1>4. ASSUME NEW i \in 3 .. m PROVE Fits(t, i)
  <2>1. i \in 3 .. n /\ i < Len(t) /\ Fits(s, i)
    BY <1>1, <1>2, <1>3
  <2>2. s[i].symbol \notin {"i", ")"}
    BY <1>1, <1>2, <2>1 DEF Fits, Opens
  <2>3. i \in 1 .. m /\ i - 1 \in 1 .. m /\ i - 2 \in 1 .. m
    BY <1>1, <1>2
  <2>4. t[i] = s[i] /\ t[i - 1] = s[i - 1] /\ t[i - 2] = s[i - 2]
    BY <1>3, <2>3
  <2> QED BY <2>1, <2>2, <2>4, FitsKept
<1>5. Fits(t, m + 1)
  <2>1. t[m].symbol \in Opens /\ t[(m + 1) - 1] = t[m] /\ m + 1 < Len(t)
    BY <1>2, <1>3
  <2> QED BY <1>3, <2>1 DEF Fits
<1>6. CASE m = n
  <2>1. Fits(t, n + 2)
    <3>1. t[(n + 2) - 1].symbol = "S"
      BY <1>1, <1>3, <1>6
    <3> QED BY <1>3, <3>1 DEF Fits
  <2>2. \A i \in 3 .. n + 2 : i \in 3 .. m \/ i = m + 1 \/ i = n + 2
    BY <1>1, <1>6
  <2>3. \A i \in 3 .. n + 2 : Fits(t, i)
    BY <1>4, <1>5, <2>1, <2>2
  <2> QED BY <1>1, <1>2, <1>3, <2>3 DEF Stacked
<1>7. CASE m = n - 1 /\ s[n].symbol = "E"
  <2>1. t[n + 1].symbol = "E" /\ t[n].symbol = "S"
    BY <1>1, <1>3, <1>7
  <2>2. Fits(t, n + 1)
    <3>1. t[(n + 1) - 1] = t[n] /\ n + 1 < Len(t)
      BY <1>1, <1>3
    <3> QED BY <2>1, <3>1 DEF Fits
  <2>3. Fits(t, n + 2)
    <3>1. t[(n + 2) - 1] = t[n + 1] /\ t[(n + 2) - 2] = t[n]
      BY <1>1
    <3> QED BY <1>3, <1>7, <2>1, <3>1 DEF Fits
  <2>4. \A i \in 3 .. n + 2 : i \in 3 .. m \/ i = m + 1 \/ i = n + 1 \/ i = n + 2
    BY <1>1, <1>7
  <2>5. \A i \in 3 .. n + 2 : Fits(t, i)
    BY <1>4, <1>5, <2>2, <2>3, <2>4
  <2> QED BY <1>1, <1>2, <1>3, <2>5 DEF Stacked
<1> QED BY <1>2, <1>6, <1>7

\* A closing parenthesis on what it encloses.
LEMMA ClosingFits ==
  ASSUME Stacked(exp_stack), exp_stack[Topmost].symbol = "(", NEW tree
  PROVE  LET t == Append(exp_stack, Item(")", tree))
         IN  Stacked(t) /\ t[Len(t)].symbol # "E"
<1> DEFINE n == Len(exp_stack)
           item == Item(")", tree)
           t == Append(exp_stack, item)
<1>1. /\ n \in Nat /\ n >= 2 /\ exp_stack \in Seq(ToSet(exp_stack))
      /\ \A i \in 3 .. n : Fits(exp_stack, i)
      /\ exp_stack[1].symbol = "EMPTY" /\ exp_stack[2].symbol = "$"
  BY DEF Stacked, Sequence
<1>2. /\ Sequence(t) /\ Len(t) = n + 1 /\ \A i \in 1 .. n : t[i] = exp_stack[i]
      /\ t[n + 1] = item
  <2> HIDE DEF item
  <2> QED BY <1>1, PushedItem
<1>3. item.symbol = ")"
  BY DEF Item
<1> HIDE DEF item, t
<1>4. ASSUME NEW i \in 3 .. n PROVE Fits(t, i)
  <2>1. i \in 3 .. Len(exp_stack) /\ i < Len(t) /\ Fits(exp_stack, i)
    BY <1>1, <1>2
  <2>2. i \in 1 .. n /\ i - 1 \in 1 .. n /\ i - 2 \in 1 .. n
    BY <1>1
  <2>3. exp_stack[i].symbol \notin {"i", ")"}
    <3>1. CASE i = n
      BY <3>1, TopTerminal DEF Opens, Operators, Relations, Additive, Multiplicative
    <3>2. CASE i # n
      BY <2>1, <3>2 DEF Fits
    <3> QED BY <3>1, <3>2
  <2> QED BY <1>2, <2>1, <2>2, <2>3, FitsKept
<1>5. Fits(t, n + 1)
  <2>1. t[n + 1].symbol = ")" /\ t[(n + 1) - 1] = exp_stack[n] /\ n + 1 = Len(t)
    BY <1>1, <1>2, <1>3
  <2>2. CASE Topmost = n
    BY <2>1, <2>2 DEF Fits
  <2>3. CASE Topmost = n - 1 /\ exp_stack[n].symbol = "E"
    <3>1. t[(n + 1) - 2] = exp_stack[n - 1]
      BY <1>1, <1>2
    <3> QED BY <2>1, <2>3, <3>1 DEF Fits
  <2> QED BY <2>2, <2>3, TopTerminal
<1>6. \A i \in 3 .. n + 1 : i \in 3 .. n \/ i = n + 1
  BY <1>1
<1>7. t[1] = exp_stack[1] /\ t[2] = exp_stack[2]
  BY <1>1, <1>2
<1>8. Stacked(t)
  BY <1>1, <1>2, <1>4, <1>5, <1>6, <1>7 DEF Stacked
<1> QED BY <1>2, <1>3, <1>8 DEF t, item

\* What a handle is reduced to fits where the handle was.
LEMMA ReducedFits ==
  ASSUME Stacked(exp_stack), NEW a \in 3 .. Len(exp_stack) - 1,
         exp_stack[a - 1].symbol \in Opens, NEW tree
  PROVE  Stacked(Append(SubSeq(exp_stack, 1, a - 1), Item("E", tree)))
<1> DEFINE n == Len(exp_stack)
           item == Item("E", tree)
           rest == SubSeq(exp_stack, 1, a - 1)
           t == Append(rest, item)
<1>1. /\ n \in Nat /\ n >= 2 /\ exp_stack \in Seq(ToSet(exp_stack))
      /\ \A i \in 3 .. n : Fits(exp_stack, i)
      /\ exp_stack[1].symbol = "EMPTY" /\ exp_stack[2].symbol = "$"
  BY DEF Stacked, Sequence
<1>2. /\ rest \in Seq(ToSet(exp_stack)) /\ Len(rest) = a - 1
      /\ \A i \in 1 .. a - 1 : rest[i] = exp_stack[i]
  BY <1>1
<1>3. item.symbol = "E"
  BY DEF Item
<1>4. /\ Sequence(t) /\ Len(t) = Len(rest) + 1 /\ t[Len(rest) + 1] = item
      /\ \A i \in 1 .. Len(rest) : t[i] = rest[i]
  <2> HIDE DEF item, rest
  <2> QED BY <1>2, PushedItem
<1> HIDE DEF item, t, rest
<1>5. /\ Len(t) = a /\ t[a] = item
      /\ \A i \in 1 .. a - 1 : t[i] = exp_stack[i]
  BY <1>1, <1>2, <1>4
<1>6. ASSUME NEW i \in 3 .. a - 1 PROVE Fits(t, i)
  <2>1. i \in 3 .. Len(exp_stack) /\ i < Len(t) /\ i < n /\ Fits(exp_stack, i)
    BY <1>1, <1>5
  <2>2. i \in 1 .. a - 1 /\ i - 1 \in 1 .. a - 1 /\ i - 2 \in 1 .. a - 1
    OBVIOUS
  <2>3. exp_stack[i].symbol \notin {"i", ")"}
    BY <2>1 DEF Fits
  <2> QED BY <1>5, <2>1, <2>2, <2>3, FitsKept
<1>7. Fits(t, a)
  <2>1. t[a - 1] = exp_stack[a - 1]
    BY <1>5
  <2> QED BY <1>3, <1>5, <2>1 DEF Fits
<1>8. \A i \in 3 .. a : i \in 3 .. a - 1 \/ i = a
  OBVIOUS
<1>9. t[1] = exp_stack[1] /\ t[2] = exp_stack[2]
  BY <1>5
<1>10. Stacked(t)
  BY <1>1, <1>4, <1>5, <1>6, <1>7, <1>8, <1>9 DEF Stacked
<1> QED BY <1>10 DEF t, rest, item

\* A token that is taken without an error is one of the table's.
LEMMA TokenTaken ==
  ASSUME NEW before, TakesToken(before), err' = <<>>
  PROVE  /\ current_token' \in Tokens /\ current_token' # ""
         /\ check_token_symbol(current_token') # "invalid"
<1>1. PICK t \in Tokens :
        /\ current_token' = t
        /\ err' = IF TokenError(t, before) = 0 THEN <<>> ELSE <<TokenError(t, before)>>
  BY DEF TakesToken
<1>2. TokenError(t, before) = 0
  BY <1>1
<1>3. check_token_symbol(t) # "invalid"
  BY <1>2 DEF TokenError
<1>4. t # ""
  BY DEF Tokens, Identifiers, Literals
<1> QED BY <1>1, <1>3, <1>4

\* What the round finds: a terminal on the stack and a symbol of the table.
LEMMA RoundFinds ==
  ASSUME ExpInv, err = <<>>, current_token # ""
  PROVE  /\ Stacked(exp_stack)
         /\ exp_stack[Topmost].symbol \in Opens \cup {"i", ")"}
         /\ Symbol \in Opens \cup {"i", ")"}
         /\ exp_stack[Len(exp_stack)].symbol = "E" => Symbol \notin {"i", "("}
<1>1. /\ Stacked(exp_stack)
      /\ current_token \in Tokens /\ check_token_symbol(current_token) # "invalid"
      /\ exp_stack[Len(exp_stack)].symbol = "E" => Symbol \notin {"i", "("}
  BY DEF ExpInv
<1> QED BY <1>1, SymbolKnown, TopTerminal

\* A reduction pops from the topmost S, which lies where an operand may stand.
LEMMA ReductionFinds ==
  ASSUME ExpInv, Round("R")
  PROVE  /\ Symbol \notin {"i", "("}
         /\ \E a \in 3 .. Len(exp_stack) - 1 :
              /\ exp_stack[a].symbol = "S" /\ exp_stack[a - 1].symbol \in Opens
              /\ Len(Handle) = Len(exp_stack) - a + 1
              /\ \A k \in 1 .. Len(Handle) : Handle[k] = exp_stack[a + k - 1]
              /\ DOMAIN Handle = 1 .. Len(Handle)
              /\ \A j \in a + 1 .. Len(exp_stack) : exp_stack[j].symbol # "S"
<1>1. err = <<>> /\ current_token # "" /\ prec_table(exp_stack[Topmost].symbol, Symbol) = "R"
  BY DEF Round, Action
<1>2. /\ exp_stack[Topmost].symbol \in {"i", ")"} \cup Operators
      /\ Symbol \notin {"i", "("} /\ Stacked(exp_stack)
  BY <1>1, RoundFinds, TableSays
<1>3. PICK a \in 3 .. Len(exp_stack) - 1 :
        /\ exp_stack[a].symbol = "S" /\ exp_stack[a - 1].symbol \in Opens
        /\ a >= Len(exp_stack) - 3
        /\ \A j \in a + 1 .. Len(exp_stack) : exp_stack[j].symbol # "S"
  BY <1>2, HandleFound
<1>4. /\ Handle = SubSeq(exp_stack, a, Len(exp_stack))
      /\ Len(Handle) = Len(exp_stack) - a + 1
      /\ \A k \in 1 .. Len(Handle) : Handle[k] = exp_stack[a + k - 1]
  BY <1>2, <1>3, HandleIs
<1>5. DOMAIN Handle = 1 .. Len(Handle)
  <2>1. exp_stack \in Seq(ToSet(exp_stack))
    BY <1>2 DEF Stacked, Sequence
  <2>2. Handle \in Seq(ToSet(exp_stack))
    BY <1>3, <1>4, <2>1
  <2> QED BY <2>2
<1> QED BY <1>2, <1>3, <1>4, <1>5

\* ReducesToItsAnchor follows.
LEMMA AnchorFound ==
  ASSUME ExpInv
  PROVE  ReducesToItsAnchor
<1> SUFFICES ASSUME Round("R")
             PROVE  {i \in DOMAIN Handle : Handle[i].symbol = "S"} = {1}
  BY DEF ReducesToItsAnchor
<1>1. PICK a \in 3 .. Len(exp_stack) - 1 :
        /\ exp_stack[a].symbol = "S"
        /\ Len(Handle) = Len(exp_stack) - a + 1
        /\ \A k \in 1 .. Len(Handle) : Handle[k] = exp_stack[a + k - 1]
        /\ DOMAIN Handle = 1 .. Len(Handle)
        /\ \A j \in a + 1 .. Len(exp_stack) : exp_stack[j].symbol # "S"
  BY ReductionFinds
<1>2. Len(exp_stack) \in Nat
  <2>1. Stacked(exp_stack)
    BY RoundFinds DEF Round
  <2>2. exp_stack \in Seq(ToSet(exp_stack))
    BY <2>1 DEF Stacked, Sequence
  <2> QED BY <2>2
<1>3. 1 \in DOMAIN Handle /\ Handle[1].symbol = "S"
  <2>1. 1 \in 1 .. Len(Handle) /\ (a + 1) - 1 = a
    BY <1>1, <1>2
  <2> QED BY <1>1, <2>1
<1>4. ASSUME NEW i \in DOMAIN Handle, i # 1 PROVE Handle[i].symbol # "S"
  <2>1. i \in 1 .. Len(Handle) /\ Handle[i] = exp_stack[a + i - 1]
    BY <1>1
  <2>2. a + i - 1 \in a + 1 .. Len(exp_stack)
    BY <1>1, <1>2, <1>4, <2>1
  <2> QED BY <1>1, <2>1, <2>2
<1> QED BY <1>3, <1>4

\* The invariant holds of the stack the analysis begins with.
LEMMA ExpInitial == exp_init => ExpInv
<1> SUFFICES ASSUME exp_init PROVE ExpInv
  OBVIOUS
<1>1. exp_stack = <<Item("EMPTY", <<>>), Item("$", <<>>)>> /\ current_token = ""
  BY DEF exp_init
<1>2. exp_stack \in Seq({Item("EMPTY", <<>>), Item("$", <<>>)}) /\ Len(exp_stack) = 2
  <2>1. \A x, y : <<x, y>> \in Seq({x, y}) /\ Len(<<x, y>>) = 2
    OBVIOUS
  <2> QED BY <1>1, <2>1
<1>3. exp_stack[1].symbol = "EMPTY" /\ exp_stack[2].symbol = "$"
  BY <1>1 DEF Item
<1>4. Sequence(exp_stack)
  BY <1>2, OwnElements
<1>5. Stacked(exp_stack)
  BY <1>2, <1>3, <1>4 DEF Stacked
<1> QED BY <1>1, <1>2, <1>3, <1>5 DEF ExpInv

\* Every round keeps it.
LEMMA ExpStep == ExpInv /\ [exp_Next]_expVars => ExpInv'
<1> SUFFICES ASSUME ExpInv, [exp_Next]_expVars, err' = <<>>
             PROVE  ExpInv'
  BY DEF ExpInv
<1>a. /\ Stacked(exp_stack)' /\ current_token' \in Tokens /\ current_token' # ""
      /\ check_token_symbol(current_token') # "invalid"
      /\ (exp_stack[Len(exp_stack)].symbol)' = "E" => Symbol' \notin {"i", "("}
      => ExpInv'
  BY DEF ExpInv
<1>1. CASE FirstToken
  <2>1. err = <<>> /\ current_token = "" /\ TakesToken("(") /\ exp_stack' = exp_stack
    BY <1>1 DEF FirstToken
  <2>2. Stacked(exp_stack) /\ Len(exp_stack) = 2
    BY <2>1 DEF ExpInv
  <2>3. exp_stack[Len(exp_stack)].symbol # "E"
    BY <2>2 DEF Stacked
  <2>4. Stacked(exp_stack)' /\ (exp_stack[Len(exp_stack)].symbol)' # "E"
    BY <2>1, <2>2, <2>3
  <2> QED BY <1>a, <2>1, <2>4, TokenTaken
<1>2. CASE Shift
  <2>1. err = <<>> /\ current_token # "" /\ TakesToken(current_token)
    BY <1>2 DEF Shift, Round
  <2>2. /\ Stacked(exp_stack)
        /\ exp_stack[Topmost].symbol \in Opens \cup {"i", ")"}
        /\ Symbol \in Opens \cup {"i", ")"}
        /\ exp_stack[Len(exp_stack)].symbol = "E" => Symbol \notin {"i", "("}
    BY <2>1, RoundFinds
  <2>3. Stacked(exp_stack') /\ exp_stack'[Len(exp_stack')].symbol # "E"
    <3>1. CASE /\ Round("S")
               /\ exp_stack' = Append(InsertAt(exp_stack, Topmost + 1, Item("S", <<>>)),
                                      Item(Symbol, <<current_token>>))
      <4>1. /\ exp_stack[Topmost].symbol \in Opens
            /\ Symbol \in {"i", "("} \cup Operators
        BY <2>2, <3>1, TableSays DEF Round, Action
      <4> QED BY <2>2, <3>1, <4>1, ShiftFits
    <3>2. CASE Round("W") /\ exp_stack' = Append(exp_stack, Item(Symbol, <<current_token>>))
      <4>1. exp_stack[Topmost].symbol = "(" /\ Symbol = ")"
        BY <2>2, <3>2, TableSays DEF Round, Action
      <4> QED BY <2>2, <3>2, <4>1, ClosingFits
    <3> QED BY <1>2, <3>1, <3>2 DEF Shift
  <2> QED BY <1>a, <2>1, <2>3, TokenTaken
<1>3. CASE rule_reduction
  <2> DEFINE rest == SubSeq(exp_stack, 1, Len(exp_stack) - Len(Handle))
  <2>1. /\ Round("R") /\ err = <<>> /\ current_token # ""
        /\ is_expression' = is_expression /\ consumed' = consumed
        /\ current_token' = current_token
    BY <1>3 DEF rule_reduction, Round
  <2>2. exp_stack' = Append(rest, Item("E", RuleTree(Handle)))
    BY <1>3 DEF rule_reduction
  <2>3. PICK a \in 3 .. Len(exp_stack) - 1 :
          /\ exp_stack[a - 1].symbol \in Opens
          /\ Len(Handle) = Len(exp_stack) - a + 1
    BY <2>1, ReductionFinds
  <2>4. Stacked(exp_stack)
    BY <2>1, RoundFinds
  <2>5. rest = SubSeq(exp_stack, 1, a - 1)
    <3>1. Len(exp_stack) - Len(Handle) = a - 1
      BY <2>3, <2>4 DEF Stacked, Sequence
    <3> QED BY <3>1
  <2>6. Stacked(exp_stack)'
    <3>1. Stacked(Append(SubSeq(exp_stack, 1, a - 1), Item("E", RuleTree(Handle))))
      BY <2>3, <2>4, ReducedFits
    <3> QED BY <2>2, <2>5, <3>1
  <2>7. Symbol' \notin {"i", "("}
    <3>1. Symbol' = Symbol
      BY <2>1 DEF Symbol
    <3> QED BY <2>1, <3>1, ReductionFinds
  <2>8. current_token \in Tokens /\ check_token_symbol(current_token) # "invalid"
    BY <2>1 DEF ExpInv
  <2> QED BY <1>a, <2>1, <2>6, <2>7, <2>8
<1>4. CASE Refuse
  BY <1>4 DEF Refuse
<1>5. CASE Finish
  <2>1. err' = <<0, Last(exp_stack).tree>> \/ err' = <<2>>
    BY <1>5 DEF Finish
  <2>2. \A tree : <<0, tree>> # <<>>
    <3>1. \A tree : Len(<<0, tree>>) = 2
      OBVIOUS
    <3> QED BY <3>1
  <2>3. <<2>> # <<>>
    OBVIOUS
  <2> HIDE DEF ExpInv
  <2> QED BY <2>1, <2>2, <2>3
<1>6. CASE UNCHANGED expVars
  <2>1. /\ err = <<>> /\ is_expression' = is_expression /\ consumed' = consumed
        /\ current_token' = current_token /\ exp_stack' = exp_stack
    BY <1>6 DEF expVars
  <2>2. Symbol' = Symbol
    BY <2>1 DEF Symbol
  <2> QED BY <2>1, <2>2 DEF ExpInv
<1> QED BY <1>1, <1>2, <1>3, <1>4, <1>5, <1>6 DEF exp_Next

\* The precedence analysis of expression(): every reduction pops exactly one S, the
\* lowest of what it pops, so it never takes what an outer operator or the bottom of the
\* stack needs, for expressions of any length.
THEOREM ReductionsFindAnchor == exp_Spec => []ReducesToItsAnchor
<1>1. exp_init => ExpInv
  BY ExpInitial
<1>2. ExpInv /\ [exp_Next]_expVars => ExpInv'
  BY ExpStep
<1>3. ExpInv => ReducesToItsAnchor
  BY AnchorFound
<1> QED BY <1>1, <1>2, <1>3, PTL DEF exp_Spec

-----------------------------------------------------------------------------
(* The arguments of a call against the parameters of its function.            *)

\* What the tokens of a call and the names of parameters are.
Texts == CallTokens \cup {"_", "NULL"}
Parameter == [name : CallNames \cup {"_", "NULL"}, type : {"Int", "String"}]
\* The arguments before the one that is read are complete, and each has its parameter.
Placed ==
  /\ params # <<>> /\ param \in 1 .. Len(params) + 1
  /\ Len(given) = param /\ counted_args = param - 1
  /\ \A i \in 1 .. param - 1 : TakenFor(given[i], params[i])

\* What has been read of an argument in each state.
WellRead(state, name, piece) ==
  /\ state = "argument" => piece = <<>>
  /\ state = "named" => name \in CallNames /\ piece = <<name>>
  /\ state \in {"value", "valued"} =>
       param <= Len(params) /\ params[param].name = name /\ name \in CallNames
  /\ state = "value" => piece = <<name, ":">>
  /\ state = "valued" =>
       \E v \in ValuesOf(params[param].type) \cup {"STRING_PLUS"} :
         piece = MeantFor(params[param], v)
  /\ state = "end" => param <= Len(params) /\ TakenFor(piece, params[param])

ArgsInv ==
  /\ params \in Seq(Parameter)
  /\ argState = "declaring" => ~Unchecked
  /\ ~Unchecked =>
       /\ param_number = Len(params)
       /\ given \in Seq(Seq(Texts))
       /\ argState \in {"declaring", "first"} =>
            given = <<<<>>>> /\ param = 1 /\ counted_args = 0
       /\ argState \in {"argument", "named", "value", "valued", "end"} =>
            Placed /\ WellRead(argState, label, given[param])
       /\ ArgumentsFit

\* What must follow argument i.
EndOf(i) == IF i = Len(params) THEN ")" ELSE ","

\* A sequence that begins another agrees with it place by place.
LEMMA PrefixPlaces ==
  ASSUME NEW s \in Seq(Texts), NEW w \in Seq(Texts), IsPrefix(s, w)
  PROVE  Len(s) <= Len(w) /\ \A k \in 1 .. Len(s) : s[k] = w[k]
<1>1. Len(s) <= Len(w) /\ SubSeq(s, 1, Len(s)) = SubSeq(w, 1, Len(s))
  BY DEF IsPrefix
<1>2. \A k \in 1 .. Len(s) : SubSeq(s, 1, Len(s))[k] = s[k] /\ SubSeq(w, 1, Len(s))[k] = w[k]
  BY <1>1
<1> QED BY <1>1, <1>2

Labelled(p) == p.name \notin {"_", "NULL"}

\* What is meant for a parameter is one token or, under a label, three.
LEMMA MeantShape ==
  ASSUME NEW p \in Parameter, NEW v \in Texts
  PROVE  /\ MeantFor(p, v) \in Seq(Texts)
         /\ ~Labelled(p) => MeantFor(p, v) = <<v>> /\ Len(MeantFor(p, v)) = 1
         /\ Labelled(p) => MeantFor(p, v) = <<p.name, ":", v>> /\ Len(MeantFor(p, v)) = 3
<1>1. p.name \in Texts /\ ":" \in Texts
  BY DEF Parameter, CallTokens, Texts
<1>2. CASE ~Labelled(p)
  <2>1. MeantFor(p, v) = <<v>>
    BY <1>2 DEF MeantFor, Labelled
  <2>2. <<v>> \in Seq(Texts) /\ Len(<<v>>) = 1
    OBVIOUS
  <2> QED BY <1>2, <2>1, <2>2
<1>3. CASE Labelled(p)
  <2>1. MeantFor(p, v) = <<p.name, ":", v>>
    BY <1>3 DEF MeantFor, Labelled
  <2>2. <<p.name, ":", v>> \in Seq(Texts) /\ Len(<<p.name, ":", v>>) = 3
    BY <1>1
  <2> QED BY <1>3, <2>1, <2>2
<1> QED BY <1>2, <1>3

\* The values of a type are tokens.
LEMMA ValuesAre ==
  ASSUME NEW type
  PROVE  /\ type = "Int" => ValuesOf(type) = {"INT", "n"}
         /\ type # "Int" => ValuesOf(type) = {"STRING", "STRING_PLUS", "t"}
         /\ \A x \in ValuesOf(type) \cup {"STRING_PLUS"} : x \in Texts
<1>1. {"INT", "n", "STRING", "STRING_PLUS", "t"} \subseteq Texts
  BY DEF Texts, CallTokens, CallNames, CallLiterals
<1>2. CASE type = "Int"
  <2>1. ValuesOf(type) = {"INT", "n"}
    BY <1>2 DEF ValuesOf
  <2> QED BY <1>1, <1>2, <2>1
<1>3. CASE type # "Int"
  <2>1. ValuesOf(type) = {"STRING", "STRING_PLUS", "t"}
    BY <1>3 DEF ValuesOf
  <2> QED BY <1>1, <1>3, <2>1
<1> QED BY <1>2, <1>3

\* An argument that is complete is as long as any that is meant.
LEMMA TakenLength ==
  ASSUME NEW p \in Parameter, NEW piece \in Seq(Texts), TakenFor(piece, p), NEW v \in Texts
  PROVE  Len(piece) >= Len(MeantFor(p, v))
<1>1. Len(MeantFor(p, v)) = IF Labelled(p) THEN 3 ELSE 1
  BY MeantShape
<1>2. ASSUME NEW x \in ValuesOf(p.type) \cup {"STRING_PLUS"}
      PROVE  /\ MeantFor(p, x) \in Seq(Texts)
             /\ Len(MeantFor(p, x)) = Len(MeantFor(p, v))
  <2>1. x \in Texts
    BY ValuesAre
  <2>2. MeantFor(p, x) \in Seq(Texts)
    BY <2>1, MeantShape
  <2>3. Len(MeantFor(p, x)) = IF Labelled(p) THEN 3 ELSE 1
    BY <2>1, MeantShape
  <2> QED BY <1>1, <2>2, <2>3
<1> DEFINE m == Len(MeantFor(p, v))
<1>3. CASE p.name = "_" /\ Len(piece) = 1
  <2>1. ~Labelled(p)
    BY <1>3 DEF Labelled
  <2>2. Len(piece) = 1 /\ m = 1
    BY <1>1, <1>3, <2>1
  <2> HIDE DEF m
  <2>3. Len(piece) >= m
    BY <2>2
  <2> QED BY <2>3 DEF m
<1>4. ASSUME NEW x \in ValuesOf(p.type) \cup {"STRING_PLUS"}, piece = MeantFor(p, x)
      PROVE  Len(piece) = m
  BY <1>2, <1>4
<1>5. ASSUME NEW x \in ValuesOf(p.type) \cup {"STRING_PLUS"}, NEW stray,
             piece = Append(MeantFor(p, x), stray)
      PROVE  Len(piece) = m + 1
  <2> DEFINE w == MeantFor(p, x)
  <2>1. w \in Seq(Texts) /\ Len(w) = m
    BY <1>2
  <2> HIDE DEF w, m
  <2>2. piece = Append(w, stray)
    BY <1>5 DEF w
  <2> QED BY <2>1, <2>2
<1>6. m \in Nat
  <2>1. MeantFor(p, v) \in Seq(Texts)
    BY MeantShape
  <2> QED BY <2>1
<1>7. \/ p.name = "_" /\ Len(piece) = 1
      \/ \E x \in ValuesOf(p.type) \cup {"STRING_PLUS"} :
           \/ piece = MeantFor(p, x)
           \/ \E stray : piece = Append(MeantFor(p, x), stray)
  BY DEF TakenFor
<1>8. Len(piece) = m \/ Len(piece) = m + 1 \/ Len(piece) >= m
  <2> HIDE DEF m
  <2> QED BY <1>3, <1>4, <1>5, <1>7 DEF m
<1> HIDE DEF m
<1>9. Len(piece) >= m
  BY <1>6, <1>8
<1> QED BY <1>9 DEF m

\* Behind a complete argument nothing but its end is meant.
LEMMA OnlyItsEnd ==
  ASSUME NEW p \in Parameter, NEW piece \in Seq(Texts), TakenFor(piece, p),
         NEW t \in Texts, NEW e \in Texts, t # e, NEW v \in Texts
  PROVE  ~IsPrefix(Append(piece, t), Append(MeantFor(p, v), e))
<1> DEFINE m == MeantFor(p, v)
<1>1. m \in Seq(Texts) /\ Len(piece) >= Len(m)
  BY MeantShape, TakenLength
<1>2. /\ Append(piece, t) \in Seq(Texts) /\ Len(Append(piece, t)) = Len(piece) + 1
      /\ Append(piece, t)[Len(piece) + 1] = t
  OBVIOUS
<1> HIDE DEF m
<1>3. /\ Append(m, e) \in Seq(Texts) /\ Len(Append(m, e)) = Len(m) + 1
      /\ Append(m, e)[Len(m) + 1] = e
  BY <1>1
<1> SUFFICES ASSUME IsPrefix(Append(piece, t), Append(m, e)) PROVE FALSE
  BY DEF m
<1>4. /\ Len(Append(piece, t)) <= Len(Append(m, e))
      /\ \A k \in 1 .. Len(Append(piece, t)) : Append(piece, t)[k] = Append(m, e)[k]
  BY <1>2, <1>3, PrefixPlaces
<1>5. Len(piece) = Len(m) /\ Len(piece) + 1 \in 1 .. Len(Append(piece, t))
  BY <1>1, <1>2, <1>3, <1>4
<1> QED BY <1>2, <1>3, <1>4, <1>5

\* What begins a meant argument, one token after another.
LEMMA MeantTokens ==
  ASSUME NEW p \in Parameter, NEW v \in Texts, NEW e \in Texts, NEW l \in Texts, NEW t \in Texts
  PROVE  LET w == Append(MeantFor(p, v), e)
         IN  /\ IsPrefix(<<t>>, w) => t = IF Labelled(p) THEN p.name ELSE v
             /\ IsPrefix(<<l, t>>, w) =>
                  \/ Labelled(p) /\ l = p.name /\ t = ":"
                  \/ ~Labelled(p) /\ l = v /\ t = e
             /\ IsPrefix(<<l, ":", t>>, w) /\ Labelled(p) => t = v
<1> DEFINE m == MeantFor(p, v)
           w == Append(m, e)
<1>1. m \in Seq(Texts)
  BY MeantShape
<1>a. (Labelled(p) => Len(m) = 3) /\ (~Labelled(p) => Len(m) = 1)
  BY MeantShape
<1>2. /\ Labelled(p) => m[1] = p.name /\ m[2] = ":" /\ m[3] = v
      /\ ~Labelled(p) => m[1] = v
  <2>1. CASE Labelled(p)
    <3>1. m = <<p.name, ":", v>>
      BY <2>1, MeantShape
    <3> HIDE DEF m
    <3> QED BY <2>1, <3>1
  <2>2. CASE ~Labelled(p)
    <3>1. m = <<v>>
      BY <2>2, MeantShape
    <3> HIDE DEF m
    <3> QED BY <2>2, <3>1
  <2> QED BY <2>1, <2>2
<1> HIDE DEF m
<1>3. /\ w \in Seq(Texts) /\ \A k \in 1 .. Len(m) : w[k] = m[k]
      /\ w[Len(m) + 1] = e
  BY <1>1, AppendProperties
<1>4. /\ Labelled(p) => w[1] = p.name /\ w[2] = ":" /\ w[3] = v
      /\ ~Labelled(p) => w[1] = v /\ w[2] = e
  BY <1>1, <1>a, <1>2, <1>3
<1> HIDE DEF w
<1>5. ASSUME IsPrefix(<<t>>, w) PROVE t = w[1]
  <2> DEFINE s == <<t>>
  <2>1. s \in Seq(Texts) /\ Len(s) = 1 /\ s[1] = t
    OBVIOUS
  <2> HIDE DEF s
  <2>2. \A k \in 1 .. 1 : s[k] = w[k]
    BY <1>3, <1>5, <2>1, PrefixPlaces DEF s
  <2> QED BY <2>1, <2>2
<1>6. ASSUME IsPrefix(<<l, t>>, w) PROVE l = w[1] /\ t = w[2]
  <2> DEFINE s == <<l, t>>
  <2>1. s \in Seq(Texts) /\ Len(s) = 2 /\ s[1] = l /\ s[2] = t
    OBVIOUS
  <2>2. IsPrefix(s, w)
    BY <1>6
  <2> HIDE DEF s
  <2>3. \A k \in 1 .. 2 : s[k] = w[k]
    BY <1>3, <2>1, <2>2, PrefixPlaces
  <2> QED BY <2>1, <2>3
<1>7. ASSUME IsPrefix(<<l, ":", t>>, w) PROVE t = w[3]
  <2> DEFINE s == <<l, ":", t>>
  <2>1. ":" \in Texts
    BY DEF CallTokens, Texts
  <2>2. s \in Seq(Texts) /\ Len(s) = 3 /\ s[3] = t
    BY <2>1
  <2>3. IsPrefix(s, w)
    BY <1>7
  <2> HIDE DEF s
  <2>4. \A k \in 1 .. 3 : s[k] = w[k]
    BY <1>3, <2>2, <2>3, PrefixPlaces
  <2> QED BY <2>2, <2>4
<1> QED BY <1>4, <1>5, <1>6, <1>7 DEF w, m

-----------------------------------------------------------------------------
\* A token t of a call is read.
Step(t) ==
  /\ ArgsInv /\ ~Unchecked /\ t \in CallTokens /\ UNCHANGED declaration
  /\ argState \notin {"declaring", "accepted", "refused", "crashed"}
  /\ given' = IF argState' = "argument" THEN Append(given, <<>>)
              ELSE [given EXCEPT ![Len(given)] = Append(@, t)]

\* Where the declaration stays and with it all that is said of it.
LEMMA SameCall ==
  ASSUME NEW t, Step(t)
  PROVE  /\ params' = params /\ param_number' = param_number /\ listEnd' = listEnd
         /\ ~Unchecked' /\ params \in Seq(Parameter) /\ param_number = Len(params)
         /\ given \in Seq(Seq(Texts)) /\ t \in Texts
BY DEF Step, ArgsInv, declaration, Unchecked, Texts

\* The token is added to the last argument.
LEMMA TokenAdded ==
  ASSUME NEW t, Step(t), argState' # "argument", Len(given) >= 1
  PROVE  /\ given' \in Seq(Seq(Texts)) /\ Len(given') = Len(given)
         /\ given'[Len(given)] = Append(given[Len(given)], t)
         /\ given'[Len(given)] \in Seq(Texts)
         /\ \A i \in 1 .. Len(given) - 1 : given'[i] = given[i]
<1> DEFINE n == Len(given)
           piece == given[n]
<1>1. given' = [given EXCEPT ![n] = Append(piece, t)]
  BY DEF Step
<1>2. given \in Seq(Seq(Texts)) /\ t \in Texts
  BY SameCall
<1>3. n \in 1 .. n /\ n \in Nat /\ piece \in Seq(Texts)
  BY <1>2
<1>4. Append(piece, t) \in Seq(Texts)
  <2> HIDE DEF piece
  <2> QED BY <1>2, <1>3
<1> DEFINE longer == Append(piece, t)
<1> HIDE DEF longer, piece
<1>5. given' = [given EXCEPT ![n] = longer]
  BY <1>1 DEF longer
<1>6. given' \in Seq(Seq(Texts)) /\ Len(given') = n /\ given'[n] = longer
  BY <1>2, <1>3, <1>4, <1>5 DEF longer
<1>7. \A i \in 1 .. n - 1 : given'[i] = given[i]
  BY <1>2, <1>3, <1>5
<1> QED BY <1>4, <1>6, <1>7 DEF longer, piece

\* The argument goes on.
LEMMA ReadsOn ==
  ASSUME NEW t, Step(t), Placed, argState' \in {"named", "value", "valued", "end"},
         param' = param, counted_args' = counted_args,
         WellRead(argState', label', Append(given[param], t))
  PROVE  ArgsInv'
<1>1. /\ params' = params /\ param_number' = param_number /\ listEnd' = listEnd
      /\ ~Unchecked' /\ params \in Seq(Parameter) /\ param_number = Len(params)
  BY SameCall
<1>2. Len(given) = param /\ Len(given) >= 1
  BY DEF Placed
<1>3. /\ given' \in Seq(Seq(Texts)) /\ Len(given') = param
      /\ given'[param] = Append(given[param], t)
      /\ \A i \in 1 .. param - 1 : given'[i] = given[i]
  BY <1>2, TokenAdded
<1>4. Placed'
  BY <1>1, <1>3 DEF Placed
<1>5. WellRead(argState, label, given[param])'
  BY <1>1, <1>3 DEF WellRead
<1>6. ArgumentsFit'
  BY DEF ArgumentsFit
<1> QED BY <1>1, <1>3, <1>4, <1>5, <1>6 DEF ArgsInv

\* The call is refused at a token that no meant argument has there.
LEMMA Refuses ==
  ASSUME NEW t, Step(t), Placed, argState' = "refused",
         param <= Len(params) =>
           \A v \in ValuesOf(params[param].type) :
             ~IsPrefix(Append(given[param], t), Append(MeantFor(params[param], v), EndOf(param)))
  PROVE  ArgsInv'
<1>1. /\ params' = params /\ param_number' = param_number /\ listEnd' = listEnd
      /\ ~Unchecked' /\ params \in Seq(Parameter) /\ param_number = Len(params)
  BY SameCall
<1>2. Len(given) = param /\ Len(given) >= 1
  BY DEF Placed
<1>3. /\ given' \in Seq(Seq(Texts)) /\ Len(given') = param
      /\ given'[param] = Append(given[param], t)
  BY <1>2, TokenAdded
<1> PICK n \in Nat : n = param
  BY <1>2
<1>4. n \in DOMAIN given'
  BY <1>2, <1>3
<1>5. ~BeginsAsMeant(n)'
  <2>1. ASSUME n <= Len(params), NEW v \in ValuesOf(params[n].type)
        PROVE  ~IsPrefix(given'[n], Append(MeantFor(params[n], v), EndOf(n)))
    BY <1>3, <2>1
  <2>2. ~(n < Len(given'))
    BY <1>3
  <2>3. BeginsAsMeant(n)' =>
          /\ n <= Len(params)
          /\ \E v \in ValuesOf(params[n].type) :
               IsPrefix(given'[n], Append(MeantFor(params[n], v), EndOf(n)))
    BY <1>1, <2>2, Zenon DEF BeginsAsMeant, EndOf
  <2> QED BY <2>1, <2>3
<1>6. RefusedDoesNot'
  <2>1. params' # <<>>
    BY <1>1 DEF Placed
  <2>2. RefusedDoesNot' <=> ~(\A i \in DOMAIN given' : BeginsAsMeant(i)')
    BY <2>1 DEF RefusedDoesNot
  <2> QED BY <1>4, <1>5, <2>2
<1>7. ArgumentsFit'
  BY <1>6 DEF ArgumentsFit
<1> QED BY <1>1, <1>3, <1>7 DEF ArgsInv

\* The call crashes.
LEMMA Crashes ==
  ASSUME NEW t, Step(t), Len(given) >= 1, argState' = "crashed"
  PROVE  ArgsInv'
<1>1. /\ params' = params /\ param_number' = param_number
      /\ ~Unchecked' /\ params \in Seq(Parameter) /\ param_number = Len(params)
  BY SameCall
<1>2. given' \in Seq(Seq(Texts))
  BY TokenAdded
<1>3. ArgumentsFit'
  BY DEF ArgumentsFit
<1> QED BY <1>1, <1>2, <1>3 DEF ArgsInv

\* What may follow an argument that is complete.
LEMMA BehindComplete ==
  ASSUME NEW t, Step(t), Placed, param <= Len(params), BehindArgument(t)
  PROVE  \/ argState' = "argument" /\ param' = param + 1 /\ counted_args' = counted_args + 1
         \/ /\ argState' = "accepted" /\ param = Len(params)
            /\ t = ")" \/ (listEnd = "none" /\ Len(params) = 1)
         \/ argState' = "refused" /\ t # EndOf(param)
         \/ argState' = "crashed"
<1>a. ~Unchecked /\ param_number = Len(params) /\ Len(params) \in Nat
  <2>1. params \in Seq(Parameter)
    BY SameCall
  <2> QED BY <2>1, SameCall DEF Step
<1>1. /\ ~Unchecked /\ param_number = Len(params) /\ Len(params) \in Nat
      /\ param \in 1 .. Len(params) /\ counted_args + 1 = param /\ counted_args \in Nat
      /\ param_number # -1
  BY <1>a DEF Placed
<1>2. CASE t = ")"
  BY <1>1, <1>2 DEF BehindArgument, CountArguments, EndOf
<1>3. CASE t # ")" /\ param = Len(params)
  <2>1. BehindLast(t) /\ t # EndOf(param)
    BY <1>1, <1>3 DEF BehindArgument, EndOf
  <2>2. CASE listEnd = "none" /\ param = 1
    <3>1. CountArguments(counted_args + 1)
      BY <2>1, <2>2 DEF BehindLast
    <3> QED BY <1>1, <1>3, <2>1, <2>2, <3>1 DEF CountArguments
  <2>3. CASE listEnd = "zeros" /\ param > 1
    <3>1. CountArguments(counted_args + 2)
      BY <2>1, <2>3 DEF BehindLast
    <3>2. counted_args + 2 = Len(params) + 1
      BY <1>1, <1>3
    <3>3. param_number \notin {-1, counted_args + 2}
      BY <1>1, <3>2
    <3> QED BY <2>1, <3>1, <3>3 DEF CountArguments
  <2>4. CASE listEnd = "none" /\ param > 1
    BY <2>1, <2>4 DEF BehindLast, Expects
  <2>5. CASE NextArgument(t) \/ Expects("crashed")
    BY <1>1, <2>1, <2>5 DEF NextArgument, exit_program, Expects
  <2>6. ~(listEnd = "none" /\ param = 1) /\ ~(listEnd = "zeros" /\ param > 1)
        /\ ~(listEnd = "none" /\ param > 1) => NextArgument(t) \/ Expects("crashed")
    BY <2>1 DEF BehindLast
  <2> QED BY <2>2, <2>3, <2>4, <2>5, <2>6
<1>4. CASE t # ")" /\ param # Len(params)
  <2>1. NextArgument(t)
    BY <1>1, <1>4 DEF BehindArgument
  <2> QED BY <1>1, <1>4, <2>1 DEF NextArgument, exit_program, Expects, EndOf
<1> QED BY <1>2, <1>3, <1>4

\* Behind a complete argument the call goes on as it should.
LEMMA CompleteKeeps ==
  ASSUME NEW t, Step(t), Placed, param <= Len(params),
         TakenFor(given[param], params[param]), BehindArgument(t)
  PROVE  ArgsInv'
<1>1. /\ params' = params /\ param_number' = param_number /\ listEnd' = listEnd
      /\ ~Unchecked' /\ params \in Seq(Parameter) /\ param_number = Len(params)
      /\ given \in Seq(Seq(Texts)) /\ t \in Texts
  BY SameCall
<1>2. /\ Len(given) = param /\ Len(given) >= 1 /\ param \in 1 .. Len(params)
      /\ counted_args = param - 1 /\ params # <<>>
      /\ \A i \in 1 .. param - 1 : TakenFor(given[i], params[i])
  BY <1>1 DEF Placed
<1>3. given[param] \in Seq(Texts) /\ params[param] \in Parameter
  BY <1>1, <1>2
<1>4. CASE argState' = "argument" /\ param' = param + 1 /\ counted_args' = counted_args + 1
  <2>1. given' = Append(given, <<>>)
    BY <1>4 DEF Step
  <2>2. /\ given' \in Seq(Seq(Texts)) /\ Len(given') = param + 1
        /\ given'[param + 1] = <<>>
        /\ \A i \in 1 .. param : given'[i] = given[i]
    <3>1. <<>> \in Seq(Texts)
      OBVIOUS
    <3> QED BY <1>1, <1>2, <2>1, <3>1, AppendProperties
  <2>3. \A i \in 1 .. param : TakenFor(given'[i], params[i])
    <3>1. \A i \in 1 .. param : i \in 1 .. param - 1 \/ i = param
      BY <1>2
    <3> QED BY <1>2, <2>2, <3>1
  <2>4. Placed'
    BY <1>1, <1>2, <1>4, <2>2, <2>3 DEF Placed
  <2>5. WellRead(argState, label, given[param])'
    BY <1>4, <2>2 DEF WellRead
  <2>6. ArgumentsFit'
    BY <1>4 DEF ArgumentsFit
  <2> QED BY <1>1, <1>4, <2>2, <2>4, <2>5, <2>6 DEF ArgsInv
<1>5. CASE /\ argState' = "accepted" /\ param = Len(params)
           /\ t = ")" \/ (listEnd = "none" /\ Len(params) = 1)
  <2>1. /\ given' \in Seq(Seq(Texts)) /\ Len(given') = param
        /\ given'[param] = Append(given[param], t)
        /\ \A i \in 1 .. param - 1 : given'[i] = given[i]
    BY <1>2, <1>5, TokenAdded
  <2>2. Front(given'[param]) = given[param] /\ Last(given'[param]) = t
    <3> DEFINE piece == given[param]
    <3> HIDE DEF piece
    <3>1. piece \in Seq(Texts)
      BY <1>3 DEF piece
    <3>2. Front(Append(piece, t)) = piece /\ Last(Append(piece, t)) = t
      BY <1>1, <3>1 DEF Front, Last
    <3> QED BY <2>1, <3>2 DEF piece
  <2>3. Last(given') = given'[param]
    BY <2>1 DEF Last
  <2>4. \A i \in 1 .. Len(given') :
          TakenFor(IF i < Len(given') THEN given'[i] ELSE Front(given'[i]), params[i])
    <3>1. \A i \in 1 .. param : IF i < param THEN i \in 1 .. param - 1 ELSE i = param
      BY <1>2
    <3> QED BY <1>2, <2>1, <2>2, <3>1
  <2>5. AcceptedFits'
    <3>1. params' # <<>> /\ Len(given') = Len(params')
      BY <1>1, <1>2, <1>5, <2>1
    <3>2. (listEnd' = "none" /\ Len(params') = 1) \/ Last(Last(given')) = ")"
      BY <1>1, <1>5, <2>2, <2>3
    <3>3. \A i \in DOMAIN given' :
            TakenFor(IF i < Len(given') THEN given'[i] ELSE Front(given'[i]), params'[i])
      BY <1>1, <2>1, <2>4
    <3> QED BY <3>1, <3>2, <3>3 DEF AcceptedFits
  <2>6. ArgumentsFit'
    BY <1>5, <2>5 DEF ArgumentsFit
  <2> QED BY <1>1, <1>5, <2>1, <2>6 DEF ArgsInv
<1>6. CASE argState' = "refused" /\ t # EndOf(param)
  <2>1. EndOf(param) \in Texts
    BY DEF EndOf, Texts, CallTokens
  <2>2. ASSUME NEW v \in ValuesOf(params[param].type)
        PROVE  ~IsPrefix(Append(given[param], t), Append(MeantFor(params[param], v), EndOf(param)))
    <3>1. v \in Texts
      BY ValuesAre
    <3> QED BY <1>1, <1>3, <1>6, <2>1, <3>1, OnlyItsEnd
  <2> QED BY <1>6, <2>2, Refuses
<1>7. CASE argState' = "crashed"
  BY <1>2, <1>7, Crashes
<1> QED BY <1>4, <1>5, <1>6, <1>7, BehindComplete

\* A sequence with one more element.
LEMMA Longer ==
  ASSUME NEW V, NEW s \in Seq(V), NEW x \in V, NEW w \in Seq(V), Len(w) = Len(s) + 1,
         \A i \in 1 .. Len(s) : w[i] = s[i], w[Len(s) + 1] = x
  PROVE  Append(s, x) = w
<1> DEFINE u == Append(s, x)
<1>1. /\ u \in Seq(V) /\ Len(u) = Len(w)
      /\ \A i \in 1 .. Len(s) : u[i] = s[i]
      /\ u[Len(s) + 1] = x
  BY AppendProperties
<1> HIDE DEF u
<1>2. \A i \in 1 .. Len(u) : i \in 1 .. Len(s) \/ i = Len(s) + 1
  BY <1>1
<1>3. \A i \in 1 .. Len(u) : u[i] = w[i]
  BY <1>1, <1>2
<1>4. u = w
  BY <1>1, <1>3, SeqEqual
<1> QED BY <1>4 DEF u

\* A tuple with one more element.
LEMMA LongerTuple ==
  ASSUME NEW x, NEW y, NEW z
  PROVE  Append(<<x>>, y) = <<x, y>> /\ Append(<<x, y>>, z) = <<x, y, z>>
<1> DEFINE V == {x, y, z}
           one == <<x>>
           two == <<x, y>>
           three == <<x, y, z>>
<1>1. one \in Seq(V) /\ Len(one) = 1 /\ one[1] = x
  OBVIOUS
<1>2. two \in Seq(V) /\ Len(two) = 2 /\ two[1] = x /\ two[2] = y
  OBVIOUS
<1>3. three \in Seq(V) /\ Len(three) = 3 /\ three[1] = x /\ three[2] = y /\ three[3] = z
  OBVIOUS
<1>4. x \in V /\ y \in V /\ z \in V
  OBVIOUS
<1> HIDE DEF V, one, two, three
<1>5. /\ Len(two) = Len(one) + 1 /\ two[Len(one) + 1] = y
      /\ \A i \in 1 .. Len(one) : two[i] = one[i]
  BY <1>1, <1>2
<1>6. /\ Len(three) = Len(two) + 1 /\ three[Len(two) + 1] = z
      /\ \A i \in 1 .. Len(two) : three[i] = two[i]
  BY <1>2, <1>3
<1>7. Append(one, y) = two
  BY <1>1, <1>2, <1>4, <1>5, Longer
<1>8. Append(two, z) = three
  BY <1>2, <1>3, <1>4, <1>6, Longer
<1> QED BY <1>7, <1>8 DEF one, two, three

\* Where an argument is read.
LEMMA PlaceKnown ==
  ASSUME NEW t, Step(t), Placed
  PROVE  /\ Len(given) >= 1 /\ param \in Nat /\ Len(params) \in Nat
         /\ param > Len(params) <=> ~(param <= Len(params))
<1>1. params \in Seq(Parameter)
  BY SameCall
<1>2. Len(params) \in Nat
  BY <1>1
<1> QED BY <1>2 DEF Placed

\* What is known of the parameter an argument is read for.
LEMMA ParamKnown ==
  ASSUME NEW t, Step(t), Placed, param <= Len(params)
  PROVE  /\ params[param] \in Parameter /\ EndOf(param) \in {")", ","}
         /\ EndOf(param) \in Texts
         /\ Unnamed <=> params[param].name = "NULL"
         /\ params[param].name = "_" => ~Labelled(params[param])
         /\ params[param].name \notin {"_", "NULL"} => Labelled(params[param])
<1>1. params \in Seq(Parameter) /\ param \in 1 .. Len(params)
  BY SameCall DEF Placed
<1>2. params[param] \in Parameter /\ Len(params) \in Nat
  BY <1>1
<1>3. EndOf(param) \in {")", ","} /\ EndOf(param) \in Texts
  BY DEF EndOf, Texts, CallTokens
<1>4. ~(param > Len(params))
  BY <1>1, <1>2
<1> QED BY <1>2, <1>3, <1>4 DEF Unnamed, Labelled

\* An argument begins.
LEMMA ArgumentKeeps ==
  ASSUME NEW t, Step(t), Placed, given[param] = <<>>, Argument(t)
  PROVE  ArgsInv'
<1>1. ~Unchecked /\ t \in CallTokens /\ t \in Texts /\ Len(given) >= 1
  BY SameCall, PlaceKnown DEF Step
<1>2. Append(given[param], t) = <<t>>
  <2>1. Append(<<>>, t) = <<t>>
    OBVIOUS
  <2> QED BY <2>1
<1>3. CASE t \in CallNames
  <2>a. t \notin CallLiterals
    BY <1>3 DEF CallNames, CallLiterals
  <2>1. argState' = "named" /\ label' = t /\ param' = param /\ counted_args' = counted_args
    BY <1>3, <2>a DEF Argument
  <2>2. WellRead(argState', label', Append(given[param], t))
    BY <1>2, <1>3, <2>1 DEF WellRead
  <2> QED BY <2>1, <2>2, ReadsOn
<1>4. ASSUME argState' = "refused",
             param <= Len(params) => \A v \in ValuesOf(params[param].type) :
               t # IF Labelled(params[param]) THEN params[param].name ELSE v
      PROVE  ArgsInv'
  <2>1. ASSUME param <= Len(params), NEW v \in ValuesOf(params[param].type)
        PROVE  ~IsPrefix(Append(given[param], t),
                         Append(MeantFor(params[param], v), EndOf(param)))
    <3>1. v \in Texts /\ EndOf(param) \in Texts /\ params[param] \in Parameter
      BY <2>1, ValuesAre, ParamKnown
    <3>2. IsPrefix(<<t>>, Append(MeantFor(params[param], v), EndOf(param))) =>
            t = IF Labelled(params[param]) THEN params[param].name ELSE v
      BY <1>1, <3>1, MeantTokens
    <3> QED BY <1>2, <1>4, <2>1, <3>2
  <2> QED BY <1>4, <2>1, Refuses
<1>5. CASE t \in CallLiterals
  <2>1. Compare("_", Expects("end"))
    <3>1. t \notin CallNames
      BY <1>5 DEF CallNames, CallLiterals
    <3> QED BY <1>5, <3>1 DEF Argument
  <2>2. CASE argState' = "crashed"
    BY <1>1, <2>2, Crashes
  <2>3. CASE param > Len(params) /\ argState' = "refused"
    <3>1. ~(param <= Len(params))
      BY <2>3, PlaceKnown
    <3> QED BY <1>4, <2>3, <3>1
  <2>4. CASE ~Unnamed /\ params[param].name = "_" /\ Expects("end")
    <3>1. param <= Len(params)
      BY <2>4, PlaceKnown DEF Unnamed
    <3>2. argState' = "end" /\ param' = param /\ counted_args' = counted_args /\ label' = label
      BY <2>4 DEF Expects
    <3>3. TakenFor(<<t>>, params[param])
      <4>1. Len(<<t>>) = 1 /\ <<t>>[1] = t
        OBVIOUS
      <4> QED BY <1>5, <2>4, <4>1 DEF TakenFor
    <3>4. WellRead(argState', label', Append(given[param], t))
      BY <1>2, <3>1, <3>2, <3>3 DEF WellRead
    <3> QED BY <3>2, <3>4, ReadsOn
  <2>5. CASE ~Unnamed /\ params[param].name # "_" /\ argState' = "refused"
    <3>1. ASSUME param <= Len(params), NEW v \in ValuesOf(params[param].type)
          PROVE  t # IF Labelled(params[param]) THEN params[param].name ELSE v
      <4>1. params[param].name \in CallNames /\ Labelled(params[param])
        BY <2>5, <3>1, ParamKnown DEF Unnamed, Parameter
      <4> QED BY <1>5, <4>1 DEF CallNames, CallLiterals
    <3> QED BY <1>4, <2>5, <3>1
  <2> QED BY <1>1, <2>1, <2>2, <2>3, <2>4, <2>5 DEF Compare, exit_program, Expects
<1>6. CASE t \notin CallNames \cup CallLiterals
  <2>1. argState' = "refused"
    BY <1>6 DEF Argument, exit_program, Expects
  <2>2. ASSUME param <= Len(params), NEW v \in ValuesOf(params[param].type)
        PROVE  t # IF Labelled(params[param]) THEN params[param].name ELSE v
    <3>1. v \in CallNames \cup CallLiterals
      BY ValuesAre DEF CallNames, CallLiterals
    <3>2. Labelled(params[param]) => params[param].name \in CallNames
      BY <2>2, ParamKnown DEF Parameter, Labelled
    <3> QED BY <1>6, <3>1, <3>2
  <2> QED BY <1>4, <2>1, <2>2
<1> QED BY <1>3, <1>5, <1>6

\* A name or a value that has the type of a parameter is one of its values.
LEMMA TypeFits ==
  ASSUME NEW p \in Parameter
  PROVE  /\ \A x \in {"n", "t", "INT", "STRING"} :
              x \in ValuesOf(p.type) <=> p.type = TypeOfToken(x)
         /\ ValuesOf(p.type) \subseteq {"n", "t", "INT", "STRING", "STRING_PLUS"}
<1>1. CASE p.type = "Int"
  <2>1. ValuesOf(p.type) = {"INT", "n"}
    BY <1>1, ValuesAre
  <2> QED BY <1>1, <2>1 DEF TypeOfToken
<1>2. CASE p.type = "String"
  <2>1. ValuesOf(p.type) = {"STRING", "STRING_PLUS", "t"}
    BY <1>2, ValuesAre
  <2> QED BY <1>2, <2>1 DEF TypeOfToken
<1> QED BY <1>1, <1>2 DEF Parameter

\* The token behind a name.
LEMMA NamedKeeps ==
  ASSUME NEW t, Step(t), Placed, label \in CallNames, given[param] = <<label>>, Named(t)
  PROVE  ArgsInv'
<1> DEFINE p == params[param]
<1>1. ~Unchecked /\ t \in CallTokens /\ t \in Texts /\ Len(given) >= 1
  BY SameCall, PlaceKnown DEF Step
<1>2. label \in Texts
  BY DEF Texts, CallTokens
<1>3. Append(given[param], t) = <<label, t>>
  BY LongerTuple
<1>4. ASSUME argState' = "refused",
             param <= Len(params) => \A v \in ValuesOf(p.type) :
               ~(\/ Labelled(p) /\ label = p.name /\ t = ":"
                 \/ ~Labelled(p) /\ label = v /\ t = EndOf(param))
      PROVE  ArgsInv'
  <2>1. ASSUME param <= Len(params), NEW v \in ValuesOf(p.type)
        PROVE  ~IsPrefix(Append(given[param], t), Append(MeantFor(p, v), EndOf(param)))
    <3>1. v \in Texts /\ EndOf(param) \in Texts /\ p \in Parameter
      BY <2>1, ValuesAre, ParamKnown
    <3>2. IsPrefix(<<label, t>>, Append(MeantFor(p, v), EndOf(param))) =>
            \/ Labelled(p) /\ label = p.name /\ t = ":"
            \/ ~Labelled(p) /\ label = v /\ t = EndOf(param)
      <4> DEFINE e == EndOf(param)
      <4>1. e \in Texts
        BY <3>1
      <4> HIDE DEF p, e
      <4>2. IsPrefix(<<label, t>>, Append(MeantFor(p, v), e)) =>
              \/ Labelled(p) /\ label = p.name /\ t = ":"
              \/ ~Labelled(p) /\ label = v /\ t = e
        BY <1>1, <1>2, <3>1, <4>1, MeantTokens, ZenonT(30)
      <4> QED BY <4>2 DEF e
    <3> QED BY <1>3, <1>4, <2>1, <3>2
  <2> QED BY <1>4, <2>1, Refuses
<1>5. CASE t = ":"
  <2>1. Compare(label, Expects("value"))
    BY <1>5 DEF Named, CallNames
  <2>2. CASE argState' = "crashed"
    BY <1>1, <2>2, Crashes
  <2>3. CASE param > Len(params) /\ argState' = "refused"
    BY <1>4, <2>3, PlaceKnown
  <2>4. CASE ~Unnamed /\ p.name = label /\ Expects("value")
    <3>1. argState' = "value" /\ param' = param /\ counted_args' = counted_args /\ label' = label
      BY <2>4 DEF Expects
    <3>2. param <= Len(params)
      BY <2>4, PlaceKnown DEF Unnamed
    <3>3. WellRead(argState', label', Append(given[param], t))
      BY <1>3, <1>5, <2>4, <3>1, <3>2 DEF WellRead
    <3> QED BY <3>1, <3>3, ReadsOn
  <2>5. CASE ~Unnamed /\ p.name # label /\ argState' = "refused"
    <3>1. param <= Len(params) => t # EndOf(param)
      BY <1>5, ParamKnown
    <3> QED BY <1>4, <2>5, <3>1
  <2> QED BY <1>1, <2>1, <2>2, <2>3, <2>4, <2>5 DEF Compare, exit_program, Expects
<1>6. CASE t \in CallNames \/ (t # ":" /\ label = "u")
  <2>1. t # ":" /\ argState' = "refused"
    BY <1>6 DEF Named, exit_program, Expects, CallNames
  <2>2. ASSUME param <= Len(params), NEW v \in ValuesOf(p.type)
        PROVE  ~(label = v /\ t = EndOf(param))
    <3>1. v # "u" /\ EndOf(param) \notin CallNames
      BY <2>2, ParamKnown, TypeFits DEF CallNames
    <3> QED BY <1>6, <3>1
  <2> QED BY <1>4, <2>1, <2>2
<1>7. CASE t # ":" /\ t \notin CallNames /\ label # "u"
  <2>1. Compare("_", IF OfType(TypeOfToken(label)) THEN BehindName(t) ELSE exit_program)
    BY <1>7 DEF Named
  <2>2. CASE argState' = "crashed"
    BY <1>1, <2>2, Crashes
  <2>3. CASE param > Len(params) /\ argState' = "refused"
    BY <1>4, <2>3, PlaceKnown
  <2>4. CASE /\ ~Unnamed /\ p.name = "_"
             /\ IF OfType(TypeOfToken(label)) THEN BehindName(t) ELSE exit_program
    <3>1. param <= Len(params)
      BY <2>4, PlaceKnown DEF Unnamed
    <3>2. p \in Parameter /\ ~Labelled(p) /\ label \in {"n", "t"}
      BY <1>7, <2>4, <3>1, ParamKnown DEF CallNames
    <3>3. label \in ValuesOf(p.type) <=> OfType(TypeOfToken(label))
      BY <1>1, <3>2, TypeFits DEF OfType
    <3>4. CASE ~OfType(TypeOfToken(label))
      <4>1. argState' = "refused"
        BY <2>4, <3>4 DEF exit_program, Expects
      <4> QED BY <1>4, <3>2, <3>3, <3>4, <4>1
    <3>5. CASE OfType(TypeOfToken(label)) /\ t \in CallLiterals
      <4>1. argState' = "end" /\ param' = param /\ counted_args' = counted_args
            /\ label' = label
        BY <2>4, <3>5 DEF BehindName, Expects
      <4>2. MeantFor(p, label) = <<label>>
        BY <1>2, <3>2, MeantShape
      <4>3. <<label, t>> = Append(<<label>>, t)
        OBVIOUS
      <4>4. TakenFor(<<label, t>>, p)
        BY <3>3, <3>5, <4>2, <4>3 DEF TakenFor
      <4>5. WellRead(argState', label', Append(given[param], t))
        BY <1>3, <3>1, <4>1, <4>4 DEF WellRead
      <4> QED BY <4>1, <4>5, ReadsOn
    <3>6. CASE OfType(TypeOfToken(label)) /\ t \notin CallLiterals
      <4>1. BehindArgument(t)
        BY <2>4, <3>6 DEF BehindName
      <4>2. MeantFor(p, label) = <<label>>
        BY <1>2, <3>2, MeantShape
      <4>3. TakenFor(given[param], p)
        BY <3>3, <3>6, <4>2 DEF TakenFor
      <4> QED BY <3>1, <4>1, <4>3, CompleteKeeps
    <3> QED BY <3>4, <3>5, <3>6
  <2>5. CASE ~Unnamed /\ p.name # "_" /\ argState' = "refused"
    <3>1. param <= Len(params) => Labelled(p)
      BY <2>5, ParamKnown DEF Unnamed, Labelled
    <3> QED BY <1>4, <1>7, <2>5, <3>1
  <2> QED BY <1>1, <2>1, <2>2, <2>3, <2>4, <2>5 DEF Compare, exit_program, Expects
<1> QED BY <1>5, <1>6, <1>7

\* The value behind a label.
LEMMA ValueKeeps ==
  ASSUME NEW t, Step(t), Placed, WellRead("value", label, given[param]), Value(t)
  PROVE  ArgsInv'
<1> DEFINE p == params[param]
<1>1. /\ ~Unchecked /\ t \in CallTokens /\ t \in Texts
      /\ param <= Len(params) /\ p.name = label /\ label \in CallNames
      /\ given[param] = <<label, ":">>
  BY SameCall DEF Step, WellRead
<1>2. p \in Parameter /\ EndOf(param) \in Texts /\ Labelled(p) /\ label \in Texts
  BY <1>1, ParamKnown DEF Labelled, CallNames, Texts, CallTokens
<1>3. Append(given[param], t) = <<label, ":", t>>
  BY <1>1, LongerTuple
<1>4. t \in ValuesOf(p.type) =>
        \/ t \in {"n", "t", "INT", "STRING"} /\ OfType(TypeOfToken(t))
        \/ t = "STRING_PLUS"
  BY <1>2, TypeFits DEF OfType
<1>5. CASE Expects("valued") /\ (\/ t \in {"n", "t", "INT", "STRING"} /\ OfType(TypeOfToken(t))
                                 \/ t = "STRING_PLUS")
  <2>1. argState' = "valued" /\ param' = param /\ counted_args' = counted_args /\ label' = label
    BY <1>5 DEF Expects
  <2>2. t \in ValuesOf(p.type) \cup {"STRING_PLUS"}
    BY <1>1, <1>2, <1>5, TypeFits DEF OfType
  <2>3. Append(given[param], t) = MeantFor(p, t)
    BY <1>1, <1>2, <1>3, MeantShape
  <2>4. WellRead(argState', label', Append(given[param], t))
    BY <1>1, <2>1, <2>2, <2>3 DEF WellRead
  <2> QED BY <2>1, <2>4, ReadsOn
<1>6. CASE argState' = "refused" /\ t \notin ValuesOf(p.type)
  <2>1. ASSUME NEW v \in ValuesOf(p.type)
        PROVE  ~IsPrefix(Append(given[param], t), Append(MeantFor(p, v), EndOf(param)))
    <3>1. v \in Texts
      BY ValuesAre
    <3>2. IsPrefix(<<label, ":", t>>, Append(MeantFor(p, v), EndOf(param))) => t = v
      BY <1>1, <1>2, <3>1, MeantTokens
    <3> QED BY <1>3, <1>6, <3>2
  <2> QED BY <1>6, <2>1, Refuses
<1> QED BY <1>4, <1>5, <1>6 DEF Value, exit_program, Expects

\* The token behind a value that has a label.
LEMMA ValuedKeeps ==
  ASSUME NEW t, Step(t), Placed, WellRead("valued", label, given[param]), BehindName(t)
  PROVE  ArgsInv'
<1> DEFINE p == params[param]
<1>1. /\ param <= Len(params) /\ p.name # "_"
      /\ \E v \in ValuesOf(p.type) \cup {"STRING_PLUS"} : given[param] = MeantFor(p, v)
  BY DEF WellRead, CallNames
<1>2. CASE t \in CallLiterals
  <2>1. argState' = "end" /\ param' = param /\ counted_args' = counted_args /\ label' = label
    BY <1>2 DEF BehindName, Expects
  <2>2. TakenFor(Append(given[param], t), p)
    BY <1>1, <1>2 DEF TakenFor
  <2>3. WellRead(argState', label', Append(given[param], t))
    BY <1>1, <2>1, <2>2 DEF WellRead
  <2> QED BY <2>1, <2>3, ReadsOn
<1>3. CASE t \notin CallLiterals
  <2>1. BehindArgument(t)
    BY <1>3 DEF BehindName
  <2>2. TakenFor(given[param], p)
    BY <1>1 DEF TakenFor
  <2> QED BY <1>1, <2>1, <2>2, CompleteKeeps
<1> QED BY <1>2, <1>3

\* What was read before the call: nothing, of the first argument.
LEMMA FirstPlaced ==
  ASSUME NEW t, Step(t), argState = "first", params # <<>>
  PROVE  Placed /\ given[param] = <<>>
<1>1. given = <<<<>>>> /\ param = 1 /\ counted_args = 0 /\ params \in Seq(Parameter)
  BY SameCall DEF Step, ArgsInv
<1>2. Len(given) = 1 /\ given[1] = <<>>
  BY <1>1
<1>3. Len(params) \in Nat
  BY <1>1
<1> QED BY <1>1, <1>2, <1>3 DEF Placed

\* The token behind the opening parenthesis.
LEMMA FirstKeeps ==
  ASSUME NEW t, Step(t), argState = "first", fnc_call(t)
  PROVE  ArgsInv'
<1>1. /\ params' = params /\ param_number' = param_number
      /\ ~Unchecked' /\ params \in Seq(Parameter) /\ param_number = Len(params)
      /\ given = <<<<>>>>
  BY SameCall DEF Step, ArgsInv
<1>2. Len(given) = 1 /\ given[1] = <<>> /\ Append(<<>>, t) = <<t>>
  BY <1>1
<1>3. CASE params = <<>>
  <2>1. param_number = 0
    BY <1>1, <1>3
  <2>2. argState' = IF t = ")" THEN "accepted" ELSE "refused"
    BY <2>1 DEF fnc_call, CountArguments, exit_program, Expects
  <2>3. /\ given' \in Seq(Seq(Texts)) /\ Len(given') = 1 /\ given'[1] = <<t>>
    BY <1>2, <2>2, TokenAdded
  <2>4. given' = <<<<")">>>> <=> t = ")"
    <3>1. given' = <<given'[1]>>
      BY <2>3
    <3>2. <<<<")">>>>[1] = <<")">> /\ <<")">>[1] = ")" /\ <<t>>[1] = t
      OBVIOUS
    <3> QED BY <2>3, <3>1, <3>2
  <2>5. ArgumentsFit'
    BY <1>1, <1>3, <2>2, <2>4 DEF ArgumentsFit, AcceptedFits, RefusedDoesNot
  <2> QED BY <1>1, <2>2, <2>3, <2>5 DEF ArgsInv
<1>4. CASE params # <<>>
  <2>1. Placed /\ given[param] = <<>>
    BY <1>4, FirstPlaced
  <2>2. param_number \notin {-1, 0} /\ param <= Len(params) /\ param = 1
    <3>1. Len(params) \in Nat /\ Len(params) # 0 /\ param = 1
      BY <1>1, <1>4 DEF Step, ArgsInv
    <3> QED BY <1>1, <3>1
  <2>3. CASE t = ")"
    <3>1. argState' = "refused"
      BY <2>2, <2>3 DEF fnc_call, CountArguments
    <3>2. ASSUME NEW v \in ValuesOf(params[param].type)
          PROVE  ~IsPrefix(Append(given[param], t),
                           Append(MeantFor(params[param], v), EndOf(param)))
      <4> DEFINE p == params[param]
                 e == EndOf(param)
      <4>1. v \in Texts /\ e \in Texts /\ p \in Parameter /\ t \in Texts
        BY <2>1, <2>2, ValuesAre, ParamKnown, SameCall
      <4>2. v # ")" /\ (Labelled(p) => p.name # ")")
        BY <4>1, ValuesAre, TypeFits DEF Parameter, CallNames
      <4>3. Append(given[param], t) = <<t>>
        BY <1>2, <2>1
      <4> HIDE DEF p, e
      <4>4. IsPrefix(<<t>>, Append(MeantFor(p, v), e)) =>
              t = IF Labelled(p) THEN p.name ELSE v
        BY <4>1, MeantTokens
      <4> QED BY <2>3, <4>2, <4>3, <4>4 DEF p, e
    <3> QED BY <2>1, <3>1, <3>2, Refuses
  <2>4. CASE t # ")"
    <3>1. Argument(t)
      BY <2>2, <2>4 DEF fnc_call
    <3> QED BY <2>1, <3>1, ArgumentKeeps
  <2> QED BY <2>3, <2>4
<1> QED BY <1>3, <1>4

\* The invariant holds of every list of parameters before it is declared or called.
LEMMA ArgsInitial == args_init => ArgsInv
<1> SUFFICES ASSUME args_init PROVE ArgsInv
  OBVIOUS
<1>1. params \in Seq(Parameter)
  <2>1. /\ Param("_", "Int") \in Parameter /\ Param("NULL", "String") \in Parameter
        /\ Param("t", "String") \in Parameter /\ Param("n", "Int") \in Parameter
        /\ Param("u", "Int") \in Parameter
    BY DEF Param, Parameter, CallNames
  <2>2. \A x, y, z \in Parameter : <<x>> \in Seq(Parameter) /\ <<x, y, z>> \in Seq(Parameter)
    OBVIOUS
  <2>3. \A s \in BuiltinParams : s \in Seq(Parameter)
    BY <2>1, <2>2 DEF BuiltinParams
  <2>4. <<>> \in Seq(Parameter)
    OBVIOUS
  <2>5. params = <<>> \/ params \in BuiltinParams
    BY DEF args_init
  <2> QED BY <2>3, <2>4, <2>5
<1>2. given = <<<<>>>> /\ param = 1 /\ counted_args = 0 /\ argState \in {"declaring", "first"}
  BY DEF args_init
<1>3. given \in Seq(Seq(Texts))
  <2>1. <<>> \in Seq(Texts)
    OBVIOUS
  <2> QED BY <1>2, <2>1
<1>4. ~Unchecked => param_number = Len(params)
  BY DEF args_init, Unchecked
<1>5. argState = "declaring" => ~Unchecked
  <2>1. argState = "declaring" => param_number = 0
    BY DEF args_init
  <2> QED BY <2>1 DEF Unchecked
<1>6. ArgumentsFit
  BY <1>2 DEF ArgumentsFit
<1> QED BY <1>1, <1>2, <1>3, <1>4, <1>5, <1>6 DEF ArgsInv

\* A parameter is declared, or the last of them was.
LEMMA DeclaringKeeps == ArgsInv /\ parse_for_func => ArgsInv'
<1> SUFFICES ASSUME ArgsInv, parse_for_func PROVE ArgsInv'
  OBVIOUS
<1>1. /\ ~Unchecked /\ param_number = Len(params) /\ params \in Seq(Parameter)
      /\ given = <<<<>>>> /\ param = 1 /\ counted_args = 0 /\ given \in Seq(Seq(Texts))
      /\ given' = given /\ param' = param /\ counted_args' = counted_args
  BY DEF ArgsInv, parse_for_func
<1>2. argState' \in {"declaring", "first", "crashed"}
  BY DEF parse_for_func
<1>3. params' \in Seq(Parameter) /\ param_number' = Len(params')
  <2>1. CASE params' = params /\ param_number' = param_number
    BY <1>1, <2>1
  <2>2. CASE /\ param_number' = param_number + 1
             /\ \E name \in {"_", "n"}, type \in {"Int", "String"} :
                  params' = Append(params, Param(name, type))
    <3>1. PICK name \in {"_", "n"}, type \in {"Int", "String"} :
            params' = Append(params, Param(name, type))
      BY <2>2
    <3>2. Param(name, type) \in Parameter
      BY DEF Param, Parameter, CallNames
    <3>3. params' \in Seq(Parameter) /\ Len(params') = Len(params) + 1
      BY <1>1, <3>1, <3>2, AppendProperties
    <3> QED BY <1>1, <2>2, <3>3
  <2> QED BY <2>1, <2>2 DEF parse_for_func
<1>4. ~Unchecked'
  BY <1>3 DEF Unchecked
<1>5. ArgumentsFit'
  BY <1>2 DEF ArgumentsFit
<1> QED BY <1>1, <1>2, <1>3, <1>4, <1>5 DEF ArgsInv

\* A token of a call keeps it.
LEMMA TokenKeeps == ArgsInv /\ args => ArgsInv'
<1> SUFFICES ASSUME ArgsInv, args PROVE ArgsInv'
  OBVIOUS
<1>1. PICK t \in CallTokens :
        /\ UNCHANGED declaration
        /\ \/ argState = "first" /\ fnc_call(t)
           \/ argState = "argument" /\ Argument(t)
           \/ argState = "named" /\ Named(t)
           \/ argState = "value" /\ Value(t)
           \/ argState = "valued" /\ BehindName(t)
           \/ argState = "end" /\ BehindArgument(t)
        /\ given' = CASE Unchecked -> given
                      [] ~Unchecked /\ argState' = "argument" -> Append(given, <<>>)
                      [] OTHER -> [given EXCEPT ![Len(given)] = Append(@, t)]
  BY DEF args
<1>2. CASE Unchecked
  <2>1. Unchecked' /\ params' = params
    BY <1>1, <1>2 DEF declaration, Unchecked
  <2>2. argState' # "declaring"
    BY <1>1 DEF fnc_call, Argument, Named, Value, BehindName, BehindArgument, BehindLast,
       NextArgument, CountArguments, Compare, exit_program, Expects
  <2>3. ArgumentsFit'
    BY <2>1 DEF ArgumentsFit
  <2> QED BY <2>1, <2>2, <2>3 DEF ArgsInv
<1>3. CASE ~Unchecked
  <2>1. Step(t)
    BY <1>1, <1>3 DEF Step
  <2>2. argState # "first" => Placed /\ WellRead(argState, label, given[param])
    BY <1>1, <1>3 DEF ArgsInv
  <2>3. CASE argState = "first" /\ fnc_call(t)
    BY <2>1, <2>3, FirstKeeps
  <2>4. CASE argState = "argument" /\ Argument(t)
    BY <2>1, <2>2, <2>4, ArgumentKeeps DEF WellRead
  <2>5. CASE argState = "named" /\ Named(t)
    BY <2>1, <2>2, <2>5, NamedKeeps DEF WellRead
  <2>6. CASE argState = "value" /\ Value(t)
    BY <2>1, <2>2, <2>6, ValueKeeps
  <2>7. CASE argState = "valued" /\ BehindName(t)
    BY <2>1, <2>2, <2>7, ValuedKeeps
  <2>8. CASE argState = "end" /\ BehindArgument(t)
    BY <2>1, <2>2, <2>8, CompleteKeeps DEF WellRead
  <2> QED BY <1>1, <2>3, <2>4, <2>5, <2>6, <2>7, <2>8
<1> QED BY <1>2, <1>3

\* A call that args() and args_n() accept has one argument for each parameter, of its
\* name and type, and one that has them is never refused, for lists of parameters and
\* calls of any length and whatever malloc left behind the last parameter.
THEOREM CallsFit == args_Spec => []ArgumentsFit
<1>1. args_init => ArgsInv
  BY ArgsInitial
<1>2. ArgsInv /\ [args_Next]_argVars => ArgsInv'
  <2>1. ASSUME ArgsInv, UNCHANGED argVars PROVE ArgsInv'
    <3>1. Unchecked' = Unchecked /\ ArgumentsFit' = ArgumentsFit
      BY <2>1 DEF argVars, Unchecked, ArgumentsFit, AcceptedFits, RefusedDoesNot, BeginsAsMeant
    <3>2. Placed' = Placed
      BY <2>1 DEF argVars, Placed
    <3>3. WellRead(argState, label, given[param])' = WellRead(argState, label, given[param])
      BY <2>1 DEF argVars, WellRead
    <3> QED BY <2>1, <3>1, <3>2, <3>3 DEF ArgsInv, argVars
  <2> QED BY <2>1, DeclaringKeeps, TokenKeeps DEF args_Next
<1>3. ArgsInv => ArgumentsFit
  BY DEF ArgsInv, ArgumentsFit
<1> QED BY <1>1, <1>2, <1>3, PTL DEF args_Spec
=============================================================================
