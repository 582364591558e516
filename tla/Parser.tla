------------------------------- MODULE Parser -------------------------------
(***************************************************************************)
(* The syntax and semantic analysis of IFJ/parser.c: statement() with its  *)
(* global flags, one action per statement or end of a body.  The program   *)
(* is chosen as it is read.  The recursion of statement() is the sequence  *)
(* of the bodies that are open; what an expression or the arguments of a   *)
(* call are is left out: they are right, or the program is refused.        *)
(***************************************************************************)
EXTENDS Naturals, SequencesExt, FiniteSetsExt

CONSTANTS
  Idents,    \* names of variables, none of them a function's
  MaxBodies  \* bound on the bodies open at once

\* The functions of the program, which parse_for_func has entered before: one that
\* has a result, one without, and one whose result may be nil.
FunctionIds == {"typed", "untyped", "optional"}
HasResult(f) == f # "untyped"  \* data_type # DTYPE_VOID

VARIABLES
  verdict,    \* "running", "accepted", "refused" (any exit_program) or "stuck"
  bodies,     \* the open bodies [kind, name, inner], the innermost last; inner is
              \* history: a while or an if has ended directly in this body
  blocks,     \* the variables and kinds of the program and of each open body
  defined,    \* the functions whose definition has been met
  returning,  \* history: the functions a return was accepted in
  inside_ifwhile, inside_function, didnt_visited_retun, current_function,
  previous    \* what is just behind: "{" of a function, "return", or ""

parserVars == <<verdict, bodies, blocks, defined, returning, inside_ifwhile,
                inside_function, didnt_visited_retun, current_function, previous>>

program_vars == <<verdict, bodies, blocks, defined, returning>>
parserFlags == <<inside_ifwhile, inside_function, didnt_visited_retun, current_function>>

NoVariables == [x \in {} |-> "var"]

parse ==
  /\ verdict = "running" /\ bodies = <<>> /\ blocks = <<NoVariables>>
  /\ defined = {} /\ returning = {} /\ current_function = "" /\ previous = ""
  /\ inside_ifwhile = FALSE /\ inside_function = FALSE
  /\ didnt_visited_retun = TRUE

Unfinished == verdict = "running"
Refused ==
  /\ verdict' = "refused"
  /\ UNCHANGED <<bodies, blocks, defined, returning, previous, parserFlags>>

Inside(kinds) == bodies # <<>> /\ Last(bodies).kind \in kinds
Enclosing == SelectLastInSubSeq(bodies, 1, Len(bodies), LAMBDA b : b.kind = "func")
BlocksWith(x) == {i \in DOMAIN blocks : x \in DOMAIN blocks[i]}

OpensBody(kind, name, variables) ==
  /\ Len(bodies) < MaxBodies
  /\ bodies' = Append(bodies, [kind |-> kind, name |-> name, inner |-> FALSE])
  /\ blocks' = Append(blocks, variables)

-----------------------------------------------------------------------------
(* Functions.                                                              *)

\* The parameters are variables of the body.  A second definition is refused by
\* parse_for_func, before any statement is read.
FunctionHead(f) ==
  /\ Unfinished /\ f \notin defined
  /\ \/ Refused
     \/ /\ ~inside_ifwhile /\ previous # "{"
        /\ \E params \in SUBSET Idents : OpensBody("func", f, [x \in params |-> "var"])
        /\ defined' = defined \cup {f}
        /\ inside_function' = TRUE /\ current_function' = f
        /\ previous' = "{"
        /\ UNCHANGED <<verdict, returning, inside_ifwhile, didnt_visited_retun>>

\* The result is looked up under the name of the last function that was begun.
\* inside_function is cleared even when the function stands in another one.
FunctionEndLeaves(insideAfter) ==
  /\ Unfinished /\ Inside({"func"})
  /\ IF HasResult(current_function) /\ didnt_visited_retun THEN Refused
     ELSE /\ bodies' = Front(bodies) /\ blocks' = Front(blocks)
          /\ inside_function' = insideAfter
          /\ previous' = ""
          /\ UNCHANGED <<verdict, defined, returning, inside_ifwhile,
                         didnt_visited_retun, current_function>>

\* Mutant: inside_function is left set.
FunctionEndKeepsFlag == FunctionEndLeaves(TRUE)
FunctionEnd == FunctionEndLeaves(FALSE)

\* A return has a value exactly when its function cannot return nil; that the value
\* is there and right is left out.
Return ==
  /\ Unfinished
  /\ \/ Refused
     \/ /\ inside_function /\ previous # "return"
        /\ returning' = returning \cup {bodies[i].name : i \in {Enclosing} \ {0}}
        /\ didnt_visited_retun' = FALSE
        /\ previous' = "return"
        /\ UNCHANGED <<verdict, bodies, blocks, defined, inside_ifwhile,
                       inside_function, current_function>>

-----------------------------------------------------------------------------
(* while, if, if let.                                                      *)

Block(flag) ==
  /\ inside_ifwhile' = flag
  /\ previous' = ""
  /\ UNCHANGED <<verdict, defined, returning, inside_function,
                 didnt_visited_retun, current_function>>

\* Mutant: the head of a block does not set the flag.
BlockHeadUnflagged(kind) ==
  /\ Unfinished
  /\ \/ Refused
     \/ OpensBody(kind, "", NoVariables) /\ Block(inside_ifwhile)

\* The condition, or the variable of "if let", is refused, or is right and
\* followed by "{".
BlockHead(kind) ==
  /\ Unfinished
  /\ \/ Refused
     \/ OpensBody(kind, "", NoVariables) /\ Block(TRUE)

\* The end of an if is followed by else and the next body, or refused.
IfEnd ==
  /\ Unfinished /\ Inside({"if"})
  /\ \/ Refused
     \/ /\ bodies' = Append(Front(bodies), [kind |-> "else", name |-> "", inner |-> FALSE])
        /\ blocks' = Append(Front(blocks), NoVariables)
        /\ Block(TRUE)

\* The block around, if any, is forgotten.
BlockEnd ==
  /\ Unfinished /\ Inside({"while", "else"})
  /\ bodies' = [i \in 1 .. Len(bodies) - 1 |->
                  IF i = Len(bodies) - 1 THEN [bodies[i] EXCEPT !.inner = TRUE]
                  ELSE bodies[i]]
  /\ blocks' = Front(blocks)
  /\ Block(FALSE)

-----------------------------------------------------------------------------
(* var and let, assignments and calls.                                     *)

Inserts(kind, x) ==
  blocks' = [blocks EXCEPT ![Len(blocks)] =
    [y \in DOMAIN @ \cup {x} |-> IF y = x THEN kind ELSE @[y]]]

\* A declaration of a type, or from a literal or a name; the name is entered before
\* the right side is looked at.  One from an expression in parentheses enters none,
\* unless what follows it is taken for the right side.
Declaration(kind, x) ==
  /\ Unfinished
  /\ \/ Refused
     \/ /\ x \notin DOMAIN Last(blocks)
        /\ Inserts(kind, x) \/ UNCHANGED blocks
        /\ didnt_visited_retun' = (kind # "var" /\ didnt_visited_retun)
        /\ previous' = ""
        /\ UNCHANGED <<verdict, bodies, defined, returning, inside_ifwhile,
                       inside_function, current_function>>

\* With a call on the right side the branch returns before the flag is cleared.
DeclarationOfCall(kind, x) ==
  /\ Unfinished /\ x \notin DOMAIN Last(blocks)
  /\ Inserts(kind, x)
  /\ previous' = ""
  /\ UNCHANGED <<verdict, bodies, defined, returning, parserFlags>>

Assignment(x) ==
  /\ Unfinished
  /\ \/ Refused
     \/ /\ BlocksWith(x) # {} /\ blocks[Max(BlocksWith(x))][x] # "let"
        /\ previous' = "" /\ UNCHANGED <<program_vars, parserFlags>>

Call ==
  /\ Unfinished
  /\ \/ Refused
     \/ previous' = "" /\ UNCHANGED <<program_vars, parserFlags>>

-----------------------------------------------------------------------------
(* The end of the program.                                                 *)

\* A body that is not closed is refused.
EndOfFile ==
  /\ Unfinished
  /\ IF bodies # <<>> THEN Refused
     ELSE /\ verdict' = "accepted" /\ blocks' = <<>>
          /\ UNCHANGED <<bodies, defined, returning, previous, parserFlags>>

\* program() calls statement() for a "}" that closes nothing, and itself, for ever.
StrayBrace ==
  /\ Unfinished /\ bodies = <<>>
  /\ verdict' = "stuck"
  /\ UNCHANGED <<bodies, blocks, defined, returning, previous, parserFlags>>

statement ==
  \/ \E f \in FunctionIds : FunctionHead(f)
  \/ \E kind \in {"while", "if"} : BlockHead(kind)
  \/ \E x \in Idents :
       \/ Assignment(x)
       \/ \E kind \in {"var", "let"} : Declaration(kind, x) \/ DeclarationOfCall(kind, x)
  \/ FunctionEnd \/ Return \/ IfEnd \/ BlockEnd
  \/ Call \/ EndOfFile \/ StrayBrace

parserSpec == parse /\ [][statement]_parserVars

-----------------------------------------------------------------------------
(* Properties.                                                             *)

\* inside_function and current_function, two globals that are not restored when a
\* nested function ends, stand for the innermost open function all the same: a
\* return that is accepted is checked against the function it is in.
ReturnsInFunction ==
  inside_function =>
    /\ Enclosing # 0
    /\ current_function = bodies[Enclosing].name

\* "Function cannot be declared in while or if" (parser.c:193) is kept for every
\* body in which no other while or if has ended: one that has resets the flag.
BlockKeepsFunctionsOut ==
  \A i \in 2 .. Len(bodies) :
    bodies[i].kind = "func" /\ bodies[i - 1].kind # "func" => bodies[i - 1].inner

\* "Return expected" (parser.c:261): a function with a result that was closed has
\* met a return.  Violated: a var declaration clears the same flag.
MissingReturnRefused ==
  \A f \in defined :
    HasResult(f) /\ (\A i \in DOMAIN bodies : bodies[i].name # f) => f \in returning
=============================================================================
