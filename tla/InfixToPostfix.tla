--------------------------- MODULE InfixToPostfix ---------------------------
(***************************************************************************)
(* infix2postfix and eval of IAL/firstproject/c204 on the stack of c202,   *)
(* one action per character of a correct expression, for stacks of several *)
(* sizes.                                                                  *)
(***************************************************************************)
EXTENDS Expressions

CONSTANTS
  StackSizes,  \* what the tests may set STACK_SIZE to
  IntSize,     \* sizeof(int)
  MaxTokens    \* bound on the length of the expression

VARIABLES
  STACK_SIZE,       \* bytes of the array of a stack
  infixExpression,  \* what has been read
  operators,        \* the stack, its top last
  postfixExpression,
  error_flag,       \* Stack_Push found the stack full; the conversion goes on
  value             \* of eval: <<>> before '=', <<"ok", n>>, <<"false">>, or
                    \* <<"undefined">> once the program writes outside its arrays

infixVars == <<STACK_SIZE, infixExpression, operators, postfixExpression, error_flag, value>>

Variables == {"a", "b"}
VariableValue(name) == IF name = "a" THEN 1 ELSE 3

infix_init ==
  /\ STACK_SIZE \in StackSizes
  /\ infixExpression = <<>> /\ operators = <<>> /\ postfixExpression = <<>>
  /\ error_flag = FALSE /\ value = <<>>

Reads(t) ==
  /\ value = <<>>
  /\ Len(infixExpression) < MaxTokens
  /\ infixExpression' = Append(infixExpression, t)
  /\ UNCHANGED STACK_SIZE

\* At the beginning, after an operator and after "(".
OperandIsNext == Last(<<"(">> \o infixExpression) \in Operators \cup {"("}

\* Stack_Push, on the stack that is left after the pops: a full one loses t.
Pushes(stack, t) ==
  IF Len(stack) = STACK_SIZE
    THEN error_flag' = TRUE /\ operators' = stack
    ELSE UNCHANGED error_flag /\ operators' = Append(stack, t)

\* Writes what is above place k of the stack to the output.
PopsTo(k) == postfixExpression' =
  postfixExpression \o Reverse(SubSeq(operators, k + 1, Len(operators)))

ReadOperand ==
  /\ OperandIsNext
  /\ \E t \in Variables :
       Reads(t) /\ postfixExpression' = Append(postfixExpression, t)
  /\ UNCHANGED <<operators, error_flag, value>>

ReadLeft ==
  /\ OperandIsNext
  /\ Reads("(")
  /\ Pushes(operators, "(")
  /\ UNCHANGED <<postfixExpression, value>>

\* Mutant: an operator stays under one of its own level.
StaysTight(top, c) == top = "(" \/ ~(top \in Multiplicative /\ c \in Additive)

\* What doOperation leaves under the operator c.
Stays(top, c) == top = "(" \/ (top \in Additive /\ c \in Multiplicative)

doOperation(c) ==
  LET k == Max({0} \cup {i \in DOMAIN operators : Stays(operators[i], c)}) IN
  /\ ~OperandIsNext
  /\ Reads(c)
  /\ PopsTo(k)
  /\ Pushes(SubSeq(operators, 1, k), c)
  /\ UNCHANGED value

ReadRight ==
  /\ ~OperandIsNext /\ Open(infixExpression, Len(infixExpression)) > 0
  /\ Reads(")")
  /\ UNCHANGED error_flag

untilLeftPar ==
  LET k == Max({0} \cup {i \in DOMAIN operators : operators[i] = "("}) IN
  /\ ReadRight
  /\ k > 0
  /\ PopsTo(k)
  /\ operators' = SubSeq(operators, 1, k - 1)
  /\ UNCHANGED value

\* The "(" was lost: Stack_Top leaves temp as it is when the stack is empty, and the
\* loop writes it to the output without end.
NoLeftPar ==
  /\ ReadRight
  /\ "(" \notin Range(operators)
  /\ value' = <<"undefined">>
  /\ UNCHANGED <<operators, postfixExpression>>

\* perform_operation, with C's division.
Magnitude(n) == IF n < 0 THEN -n ELSE n
Quotient(a, b) ==
  IF (a < 0) = (b < 0) THEN Magnitude(a) \div Magnitude(b)
  ELSE -(Magnitude(a) \div Magnitude(b))
perform_operation(a, b, operator) ==
  CASE operator = "+" -> a + b
    [] operator = "-" -> a - b
    [] operator = "*" -> a * b
    [] operator = "/" -> IF b = 0 THEN 0 ELSE Quotient(a, b)

\* expr_value_push writes an int at its place whether the array goes that far or not.
expr_value_push(state, n) ==
  IF (Len(state.values) + 1) * IntSize > STACK_SIZE
    THEN [state EXCEPT !.verdict = "undefined"]
    ELSE [state EXCEPT !.values = Append(@, n)]

\* What expr_value_pop gives out as the i-th value from the top, 0 below the last.
expr_value_pop(values, i) ==
  IF i > Len(values) THEN 0 ELSE values[Len(values) + 1 - i]

\* One character of eval, unless it has returned false or gone astray.
EvalStep(state, c) ==
  LET outcome == perform_operation(expr_value_pop(state.values, 2),
                                   expr_value_pop(state.values, 1), c)
      popped == [state EXCEPT !.values = SubSeq(@, 1, Len(@) - 2)]
  IN CASE state.verdict # "ok" -> state
       [] state.verdict = "ok" /\ c \in Variables ->
            expr_value_push(state, VariableValue(c))
       [] OTHER -> IF outcome = 0 THEN [state EXCEPT !.verdict = "false"]
                   ELSE expr_value_push(popped, outcome)

eval(postfix) ==
  LET state == FoldLeft(EvalStep, [verdict |-> "ok", values |-> <<>>], postfix)
  IN CASE state.verdict # "ok" -> <<state.verdict>>
       [] state.verdict = "ok" /\ Len(state.values) = 1 -> <<"ok", state.values[1]>>
       [] OTHER -> <<"false">>

ReadEnd ==
  /\ ~OperandIsNext /\ Open(infixExpression, Len(infixExpression)) = 0
  /\ value = <<>>
  /\ PopsTo(0) /\ operators' = <<>>
  /\ value' = eval(postfixExpression')
  /\ UNCHANGED <<STACK_SIZE, infixExpression, error_flag>>

infix_Next ==
  \/ ReadOperand \/ ReadLeft \/ untilLeftPar \/ NoLeftPar \/ ReadEnd
  \/ \E c \in Additive \cup Multiplicative : doOperation(c)

infix_Spec == infix_init /\ [][infix_Next]_infixVars

-----------------------------------------------------------------------------
(* Properties.                                                             *)

RECURSIVE PostfixOf(_), ValueOfTree(_, _)
PostfixOf(t) ==
  IF Len(t) = 1 THEN t ELSE PostfixOf(t[2]) \o PostfixOf(t[3]) \o <<t[1]>>

\* The value of a tree that is evaluated above so many values: left operand, right
\* operand, operation; <<"false">> from the first operation that gives 0, and
\* undefined from the first value that has no room.
ValueOfTree(t, below) ==
  IF Len(t) = 1
  THEN IF (below + 1) * IntSize <= STACK_SIZE THEN <<"ok", VariableValue(t[1])>>
       ELSE <<"undefined">>
  ELSE LET left == ValueOfTree(t[2], below)
           right == ValueOfTree(t[3], below + 1)
           outcome == perform_operation(left[2], right[2], t[1])
       IN IF left[1] # "ok" THEN left
          ELSE IF right[1] # "ok" THEN right
          ELSE IF outcome = 0 THEN <<"false">> ELSE <<"ok", outcome>>

\* An expression becomes the postfix of its tree, operators of a level from left to
\* right, unless Stack_Push has said that an operator or a parenthesis was lost; and
\* then eval gives its value, but false when any operation in it, not only the
\* last, gives 0, and it is undefined exactly from the first value on that has no
\* room in the array, for which nothing is said.
ConvertsToPostfix ==
  value # <<>> /\ ~error_flag =>
    /\ postfixExpression = PostfixOf(TreeOf[infixExpression])
    /\ value = ValueOfTree(TreeOf[infixExpression], 0)
=============================================================================
