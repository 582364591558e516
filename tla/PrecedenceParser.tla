-------------------------- MODULE PrecedenceParser --------------------------
(***************************************************************************)
(* expression() of IFJ/expression.c: the precedence analysis of the        *)
(* expression that follows in the program, one action per round of its     *)
(* loop.  The tokens are chosen as they are read.                          *)
(***************************************************************************)
EXTENDS Expressions

CONSTANT MaxExpression  \* bound on the tokens of an expression

VARIABLES
  is_expression,  \* FALSE for the condition of an if or a while
  consumed,       \* history: the tokens shifted so far
  current_token,
  exp_stack,      \* [symbol, tree], its top last
  exp_type,       \* exp_data_type: "void", "Int" or "String"
  err             \* <<>> while it runs, then <<0, tree>> or <<error code>>

expVars == <<is_expression, consumed, current_token, exp_stack, exp_type, err>>

\* "n" is a declared Int, "t" a declared String, "u" is declared nowhere.
Identifiers == {"n", "t", "u"}
Literals == {"1"}
TypeOf(t) == IF t \in {"n", "1"} THEN "Int" ELSE "String"
Tokens == Identifiers \cup Literals \cup {"+", "*", "<", "(", ")", "{", "}", ","}

check_token_symbol(t) ==
  CASE t \in Identifiers \cup Literals -> "i"
    [] t \in {"{", "}"} -> "$"  \* as keywords and the end of the file
    [] t = "," -> "invalid"
    [] OTHER -> t

\* prec_table: what to do with a symbol above the topmost terminal.
Binds(op) == SelectInSeq(Levels, LAMBDA level : op \in level)
prec_table(top, symbol) ==
  CASE top = "$" -> IF symbol \in {")", "$"} THEN "N" ELSE "S"
    [] top = "(" -> IF symbol = ")" THEN "W" ELSE IF symbol = "$" THEN "N" ELSE "S"
    [] top \in {")", "i"} -> IF symbol \in {"(", "i"} THEN "N" ELSE "R"
    [] top \in Operators /\ symbol \in {"(", "i"} -> "S"
    [] top \in Operators /\ symbol \in {")", "$"} -> "R"
    [] top \in Operators /\ symbol \in Operators ->
         IF {top, symbol} \subseteq Relations THEN "N"
         ELSE IF Binds(top) >= Binds(symbol) THEN "R" ELSE "S"

\* id_define_check: the error of an operand, or 0, and the type it settles.
id_define_check(t) ==
  CASE t = "u" -> 5
    [] t # "u" /\ exp_type \notin {"void", TypeOf(t)} -> 7
    [] OTHER -> 0
NextType(t) == IF exp_type = "void" THEN TypeOf(t) ELSE exp_type

\* The symbol the loop sees: an operand that follows no operator ends an
\* expression, which is how the next statement begins.
Continues(before) == before \in Operators \cup {"("}
Symbol ==
  IF is_expression /\ consumed # <<>> /\ current_token \in Identifiers \cup Literals
     /\ ~Continues(Last(consumed))
  THEN "$" ELSE check_token_symbol(current_token)

\* The tests of a token that has been read.
TokenError(t, before) ==
  CASE check_token_symbol(t) = "invalid" -> 2
    [] check_token_symbol(t) = "i" /\ is_expression /\ Continues(before) ->
         id_define_check(t)
    [] t = "u" /\ ~is_expression -> 5
    [] OTHER -> 0

TakesToken(before) ==
  \E t \in Tokens :
    /\ current_token' = t
    /\ err' = IF TokenError(t, before) = 0 THEN <<>> ELSE <<TokenError(t, before)>>
    /\ exp_type' =
         IF is_expression /\ check_token_symbol(t) = "i" /\ Continues(before)
         THEN NextType(t) ELSE exp_type

Item(symbol, tree) == [symbol |-> symbol, tree |-> tree]
Terminal(item) == item.symbol \notin {"S", "E", "EMPTY"}

exp_init ==
  /\ is_expression \in BOOLEAN
  /\ exp_type \in IF is_expression THEN {"void", "Int"} ELSE {"void"}
  /\ consumed = <<>> /\ current_token = "" /\ err = <<>>
  /\ exp_stack = <<Item("EMPTY", <<>>), Item("$", <<>>)>>

\* The token before the loop.  The first operand is always tested.
FirstToken ==
  /\ err = <<>> /\ current_token = ""
  /\ TakesToken("(")
  /\ UNCHANGED <<is_expression, consumed, exp_stack>>

\* The place of the topmost terminal.
Topmost == Max({i \in DOMAIN exp_stack : Terminal(exp_stack[i])})
Action == prec_table(exp_stack[Topmost].symbol, Symbol)
builtCorrect == [i \in DOMAIN exp_stack |-> exp_stack[i].symbol] = <<"EMPTY", "$", "E">>
Round(what) ==
  /\ err = <<>> /\ current_token # "" /\ ~(Symbol = "$" /\ builtCorrect)
  /\ Action = what

\* Mutant: stackShiftPush marks a terminal only when it is on top.
ShiftUnmarked ==
  /\ \/ Round("S") /\ exp_stack' =
          (IF Topmost = Len(exp_stack) THEN Append(exp_stack, Item("S", <<>>)) ELSE exp_stack)
            \o <<Item(Symbol, <<current_token>>)>>
     \/ Round("W") /\ exp_stack' = Append(exp_stack, Item(Symbol, <<current_token>>))
  /\ Len(consumed) < MaxExpression
  /\ consumed' = Append(consumed, current_token)
  /\ TakesToken(current_token)
  /\ UNCHANGED is_expression

Shift ==
  /\ \/ Round("S") /\ exp_stack' =
          Append(InsertAt(exp_stack, Topmost + 1, Item("S", <<>>)),
                 Item(Symbol, <<current_token>>))
     \/ Round("W") /\ exp_stack' = Append(exp_stack, Item(Symbol, <<current_token>>))
  /\ Len(consumed) < MaxExpression
  /\ consumed' = Append(consumed, current_token)
  /\ TakesToken(current_token)
  /\ UNCHANGED is_expression

\* The items that are popped: up to and with the topmost S, four at most.
Handle ==
  LET anchors == {i \in DOMAIN exp_stack : exp_stack[i].symbol = "S"}
  IN SubSeq(exp_stack, Max({Len(exp_stack) - 3} \cup anchors), Len(exp_stack))
Symbols(items) == [i \in DOMAIN items |-> items[i].symbol]

\* Mutant: E -> E op E takes its operands in the order they are popped.
RuleTreeSwapped(h) ==
  CASE Symbols(h) = <<"S", "i">> -> h[2].tree
    [] Symbols(h) = <<"S", "(", "E", ")">> -> h[3].tree
    [] Len(h) = 4 /\ h[2].symbol = "E" /\ h[4].symbol = "E" ->
         <<h[3].symbol, h[4].tree, h[2].tree>>
    [] OTHER -> <<>>

\* The tree a handle is reduced to, <<>> when no rule fits.
RuleTree(h) ==
  CASE Symbols(h) = <<"S", "i">> -> h[2].tree
    [] Symbols(h) = <<"S", "(", "E", ")">> -> h[3].tree
    [] Len(h) = 4 /\ h[2].symbol = "E" /\ h[4].symbol = "E" ->
         <<h[3].symbol, h[2].tree, h[4].tree>>
    [] OTHER -> <<>>

rule_reduction ==
  LET rest == SubSeq(exp_stack, 1, Len(exp_stack) - Len(Handle)) IN
  /\ Round("R")
  /\ IF RuleTree(Handle) = <<>>
       THEN exp_stack' = rest /\ err' = <<2>>
       ELSE exp_stack' = Append(rest, Item("E", RuleTree(Handle))) /\ err' = <<>>
  /\ UNCHANGED <<is_expression, consumed, current_token, exp_type>>

Refuse ==
  /\ Round("N")
  /\ err' = <<2>>
  /\ UNCHANGED <<is_expression, consumed, current_token, exp_stack, exp_type>>

\* A condition must be followed by its body.
Finish ==
  /\ err = <<>> /\ Symbol = "$" /\ builtCorrect
  /\ err' = IF is_expression \/ current_token = "{"
            THEN <<0, Last(exp_stack).tree>> ELSE <<2>>
  /\ UNCHANGED <<is_expression, consumed, current_token, exp_stack, exp_type>>

exp_Next == FirstToken \/ Shift \/ rule_reduction \/ Refuse \/ Finish

exp_Spec == exp_init /\ [][exp_Next]_expVars

-----------------------------------------------------------------------------
(* Properties.                                                             *)

\* What is accepted is an expression, and the tree is the one the operators'
\* priorities give; an expression of one type that ends where it may is accepted,
\* and the only syntax error after one is a condition without a body.
ParsesExpressions ==
  /\ err # <<>> /\ err[1] = 0 =>
       IsExpression[consumed] /\ err[2] = TreeOf[consumed]
  /\ err = <<2>> /\ Symbol = "$" /\ IsExpression[consumed] =>
       ~is_expression /\ current_token # "{"

\* Every reduction finds the S it was shifted with: it never pops what an outer
\* operator or the bottom of the stack needs.
ReducesToItsAnchor ==
  Round("R") => {i \in DOMAIN Handle : Handle[i].symbol = "S"} = {1}
=============================================================================
