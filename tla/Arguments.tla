----------------------------- MODULE Arguments ------------------------------
(***************************************************************************)
(* The arguments of a call in IFJ/parser.c: args() and args_n() walk along *)
(* the list of parameters that parse_for_func (or add_builtin_func) made,  *)
(* one action per token.  The tokens are chosen as they are read.          *)
(***************************************************************************)
EXTENDS Integers, SequencesExt, FiniteSetsExt

CONSTANTS
  MaxParams,   \* bound on the parameters of a function of the program
  MaxArguments \* bound on the arguments of a call

\* "n" is an Int, "t" a String, "u" is declared nowhere; all may be labels.  Double
\* and its literals are treated like Int.
CallNames == {"n", "t", "u"}
CallLiterals == {"INT", "STRING", "STRING_PLUS"}
CallTokens == CallNames \cup CallLiterals \cup {":", ",", ")"}

VARIABLES
  params,        \* the parameters [name, type], a name "NULL" where it has no string
  param_number,  \* -1 for write
  listEnd,       \* what malloc left behind the last parameter: an element that was not
                 \* filled in, of "zeros" or "garbage", or a next that is "none" or "wild"
  argState,      \* what is expected next; or accepted, refused, crashed
  param,         \* the parameter args() or args_n() is at
  label,         \* the name it has read
  counted_args,
  given          \* history: the tokens of each argument, behind the last one the token
                 \* that ended the call; unless anything is taken (write)

argVars == <<params, param_number, listEnd, argState, param, label, counted_args, given>>
declaration == <<params, param_number, listEnd>>

Param(name, type) == [name |-> name, type |-> type]

\* Int2Double; Double2Int, length, ord and chr; and substring, with names of the model.
BuiltinParams ==
  {<<Param("_", "Int")>>, <<Param("NULL", "String")>>,
   <<Param("t", "String"), Param("n", "Int"), Param("u", "Int")>>}

\* A function of the program whose parameters are to be read, write, or a built-in.
args_init ==
  /\ \/ params = <<>> /\ param_number = 0 /\ argState = "declaring"
        /\ listEnd \in {"zeros", "garbage"}
     \/ params = <<>> /\ param_number = -1 /\ argState = "first" /\ listEnd = "none"
     \/ /\ params \in BuiltinParams /\ param_number = Len(params)
        /\ argState = "first" /\ listEnd \in {"none", "wild"}
  /\ param = 1 /\ label = "" /\ counted_args = 0 /\ given = <<<<>>>>

\* add_new_element fills in the element whose next is NULL: the last one, if malloc
\* left that there.  The first parameter needs no such element.
parse_for_func ==
  /\ argState = "declaring"
  /\ UNCHANGED <<listEnd, param, label, counted_args, given>>
  /\ \/ argState' = "first" /\ UNCHANGED <<params, param_number>>
     \/ /\ Len(params) < MaxParams
        /\ \E name \in {"_", "n"}, type \in {"Int", "String"} :
             params' = Append(params, Param(name, type))
        /\ param_number' = param_number + 1
        /\ argState' \in {argState} \cup
             {outcome \in {"crashed"} : params # <<>> /\ listEnd = "garbage"}

-----------------------------------------------------------------------------
(* Where a token leads.                                                    *)

Expects(what) == argState' = what /\ UNCHANGED <<param, label, counted_args>>
exit_program == Expects("refused")

\* The end of a call with c arguments: it is accepted, or there are "Too many" or "Few".
CountArguments(c) ==
  /\ argState' = IF param_number \in {-1, c} THEN "accepted" ELSE "refused"
  /\ counted_args' = c /\ UNCHANGED <<param, label>>

Unchecked == param_number = -1
Unnamed == param > Len(params) \/ params[param].name = "NULL"
OfType(type) == Unchecked \/ params[param].type = type
TypeOfToken(t) == IF t \in {"n", "INT"} THEN "Int" ELSE "String"

\* strcmp of the name with the parameter's.  Without one it reads through NULL, or
\* through what malloc left, which may be some other text.
Compare(name, equal) ==
  IF Unchecked THEN equal
  ELSE IF Unnamed
    THEN \/ Expects("crashed")
         \/ param > Len(params) /\ listEnd \in {"garbage", "wild"} /\ exit_program
  ELSE IF params[param].name = name THEN equal ELSE exit_program

\* Mutant: args_n is called with the same parameter again.
NextArgumentSame(t) ==
  IF t # "," THEN exit_program
  ELSE argState' = "argument" /\ counted_args' = counted_args + 1 /\ UNCHANGED <<param, label>>

NextArgument(t) ==
  IF t # "," THEN exit_program
  ELSE /\ argState' = "argument" /\ param' = param + 1
       /\ counted_args' = counted_args + 1 /\ UNCHANGED label

\* Behind the last parameter args() ends, whatever the token, where there is no next
\* element; args_n() looks at the name of the next one and counts one more without it.
BehindLast(t) ==
  CASE listEnd = "none" /\ param = 1 -> CountArguments(counted_args + 1)
    [] listEnd = "zeros" /\ param > 1 -> CountArguments(counted_args + 2)
    [] listEnd = "none" /\ param > 1 -> Expects("crashed")
    [] OTHER -> \/ NextArgument(t)
                \/ listEnd = "wild" /\ param > 1 /\ Expects("crashed")

BehindArgument(t) ==
  IF t = ")" THEN CountArguments(counted_args + 1)
  ELSE IF ~Unchecked /\ param = Len(params) THEN BehindLast(t) ELSE NextArgument(t)

\* A literal behind a name or a value is passed over.
BehindName(t) == IF t \in CallLiterals THEN Expects("end") ELSE BehindArgument(t)

-----------------------------------------------------------------------------
(* The tokens.                                                             *)

\* A literal without a label gets no check of its type.
Argument(t) ==
  CASE t \in CallNames -> argState' = "named" /\ label' = t /\ UNCHANGED <<param, counted_args>>
    [] t \in CallLiterals -> Compare("_", Expects("end"))
    [] OTHER -> exit_program

fnc_call(t) ==
  CASE t = ")" -> CountArguments(0)
    [] t # ")" /\ param_number = 0 -> exit_program
    [] OTHER -> Argument(t)

Named(t) ==
  CASE t = ":" -> Compare(label, Expects("value"))
    [] t \in CallNames \/ (t # ":" /\ label = "u") -> exit_program
    [] OTHER -> Compare("_", IF OfType(TypeOfToken(label)) THEN BehindName(t) ELSE exit_program)

Value(t) ==
  IF \/ t \in {"n", "t", "INT", "STRING"} /\ OfType(TypeOfToken(t))
     \/ t = "STRING_PLUS"
  THEN Expects("valued") ELSE exit_program

args ==
  \E t \in CallTokens :
    /\ t = "," => counted_args + 1 < MaxArguments
    /\ UNCHANGED declaration
    /\ \/ argState = "first" /\ fnc_call(t)
       \/ argState = "argument" /\ Argument(t)
       \/ argState = "named" /\ Named(t)
       \/ argState = "value" /\ Value(t)
       \/ argState = "valued" /\ BehindName(t)
       \/ argState = "end" /\ BehindArgument(t)
    /\ given' = CASE Unchecked -> given
                  [] ~Unchecked /\ argState' = "argument" -> Append(given, <<>>)
                  [] OTHER -> [given EXCEPT ![Len(given)] = Append(@, t)]

args_Next == parse_for_func \/ args

args_Spec == args_init /\ [][args_Next]_argVars

-----------------------------------------------------------------------------
(* Properties.                                                             *)

ValuesOf(type) == IF type = "Int" THEN {"INT", "n"} ELSE {"STRING", "STRING_PLUS", "t"}

\* The argument that is meant for a parameter, and what args() takes for it: it checks
\* the type of no multi-line literal and of no literal without a label, and passes
\* over one literal behind a name or behind a value that has a label.
MeantFor(p, v) == IF p.name \in {"_", "NULL"} THEN <<v>> ELSE <<p.name, ":", v>>
TakenFor(piece, p) ==
  \/ p.name = "_" /\ Len(piece) = 1 /\ piece[1] \in CallLiterals
  \/ \E v \in ValuesOf(p.type) \cup {"STRING_PLUS"} :
       /\ v \in CallNames \/ p.name # "_"
       /\ \/ piece = MeantFor(p, v)
          \/ \E stray \in CallLiterals : piece = Append(MeantFor(p, v), stray)

\* What was read of argument i begins the one that is meant for parameter i.
BeginsAsMeant(i) ==
  /\ i <= Len(params)
  /\ \E v \in ValuesOf(params[i].type) :
       IF i < Len(given) THEN given[i] = MeantFor(params[i], v)
       ELSE IsPrefix(given[i], Append(MeantFor(params[i], v),
                                      IF i = Len(params) THEN ")" ELSE ","))

\* A call that is accepted gives every parameter, in its place and under its name, one
\* argument, of its type if it is a name; a call that does so is not refused.  Only
\* Int2Double, whose list may have an end, is accepted without its ")".
AcceptedFits ==
  IF params = <<>> THEN given = <<<<")">>>>
  ELSE /\ Len(given) = Len(params)
       /\ \A i \in DOMAIN given :
            TakenFor(IF i < Len(given) THEN given[i] ELSE Front(given[i]), params[i])
       /\ (listEnd = "none" /\ Len(params) = 1) \/ Last(Last(given)) = ")"
RefusedDoesNot ==
  IF params = <<>> THEN given # <<<<")">>>> ELSE ~\A i \in DOMAIN given : BeginsAsMeant(i)
ArgumentsFit ==
  ~Unchecked =>
    /\ argState = "accepted" => AcceptedFits
    /\ argState = "refused" => RefusedDoesNot
=============================================================================
