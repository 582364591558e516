---------------------------- MODULE MCSequential ----------------------------
(* The sequential programs side by side: a behaviour is one of them, chosen *)
(* in its first state, and leaves the variables of the others alone.        *)
EXTENDS DoublyLinkedList, SinglyLinkedList, HashTable, SearchTree, Queue,
        InfixToPostfix, PrecedenceParser, SymbolTable, Scanner, Parser, Arguments,
        Scene, Robots

VARIABLE program

lists == dllVars
ifjVars == <<infixVars, scanVars, expVars, scopeVars, parserVars, argVars>>
icpVars == <<sceneVars, robotVars>>

vars == <<program, lists, tableVars, treeVars, queueVars, ifjVars, icpVars>>

\* With HT_SIZE = 3, three keys of one hash, "ab", "ba" and "c", and "d" of another.
CollidingKeys == {<<97, 98>>, <<98, 97>>, <<99>>, <<100>>}

\* The part of the state a behaviour depends on: the variables of its own program,
\* without history no property of the run reads (returning) and without what was
\* last called and answered, which decides nothing that follows and is checked on
\* every step.
Memory ==
  <<program,
    CASE program \in {"c206", "c201"} ->
           <<allocated, data, nextElement, firstElement, activeElement,
             previousElement, lastElement>>
      [] program = "hashtable" -> table
      [] program = "btree" -> <<tree, running, before, path, stack, visits, items>>
      [] program = "c203" -> <<array, firstIndex, freeIndex, accepted, removed>>
      [] program = "c204" -> infixVars
      [] program = "scanner" -> scanVars
      [] program = "expression" -> expVars
      [] program = "symtable" -> scopeVars
      [] program = "parser" -> <<verdict, bodies, blocks, defined, parserFlags, previous>>
      [] program = "arguments" -> argVars
      [] program = "simscene" -> sceneVars
      [] program \in {"robot", "controlledrobot"} -> robotVars>>

Init ==
  /\ program \in {"c206", "c201", "hashtable", "btree", "c203", "c204",
                  "scanner", "expression", "symtable", "parser", "arguments",
                  "simscene", "robot", "controlledrobot"}
  /\ DLL_Init /\ ht_init /\ bst_init /\ Queue_Init /\ infix_init /\ exp_init
  /\ scopes_init /\ scanner_init /\ parse /\ args_init
  /\ initScene /\ robots_init

c206 == program = "c206" /\ DLL_Next
        /\ UNCHANGED <<program, tableVars, treeVars, queueVars, ifjVars, icpVars>>
c201 == program = "c201" /\ List_Next
        /\ UNCHANGED <<program, previousElement, lastElement, tableVars, treeVars,
                       queueVars, ifjVars, icpVars>>
hashtable == program = "hashtable" /\ ht_Next
             /\ UNCHANGED <<program, lists, treeVars, queueVars, ifjVars, icpVars>>
btree == program = "btree" /\ bst_Next
         /\ UNCHANGED <<program, lists, tableVars, queueVars, ifjVars, icpVars>>
c203 == program = "c203" /\ Queue_Next
        /\ UNCHANGED <<program, lists, tableVars, treeVars, ifjVars, icpVars>>
c204 == program = "c204" /\ infix_Next
        /\ UNCHANGED <<program, lists, tableVars, treeVars, queueVars, scanVars,
                       expVars, scopeVars, parserVars, argVars, icpVars>>
scanner == program = "scanner" /\ getToken
           /\ UNCHANGED <<program, lists, tableVars, treeVars, queueVars,
                          infixVars, expVars, scopeVars, parserVars, argVars, icpVars>>
expression == program = "expression" /\ exp_Next
              /\ UNCHANGED <<program, lists, tableVars, treeVars, queueVars,
                             infixVars, scanVars, scopeVars, parserVars, argVars, icpVars>>
symtable == program = "symtable" /\ scopes_Next
            /\ UNCHANGED <<program, lists, tableVars, treeVars, queueVars,
                           infixVars, scanVars, expVars, parserVars, argVars, icpVars>>
parser == program = "parser" /\ statement
          /\ UNCHANGED <<program, lists, tableVars, treeVars, queueVars,
                         infixVars, scanVars, expVars, scopeVars, argVars, icpVars>>
arguments == program = "arguments" /\ args_Next
             /\ UNCHANGED <<program, lists, tableVars, treeVars, queueVars,
                            infixVars, scanVars, expVars, scopeVars, parserVars, icpVars>>
simscene == program = "simscene" /\ sceneNext
            /\ UNCHANGED <<program, lists, tableVars, treeVars, queueVars, ifjVars,
                           robotVars>>
robot == \/ program = "robot" /\ robot_Next
         \/ program = "controlledrobot" /\ controlled_Next
robots == robot /\ UNCHANGED <<program, lists, tableVars, treeVars, queueVars,
                               ifjVars, sceneVars>>

Next == \/ c206 \/ c201 \/ hashtable \/ btree \/ c203 \/ c204 \/ scanner
        \/ expression \/ symtable \/ parser \/ arguments \/ simscene \/ robots

Spec == Init /\ [][Next]_vars

\* Both directions and both ends of the doubly linked list agree, walking back
\* visits what walking forth does (LinksAgree); the singly linked list, which shares
\* the elements, has no links back.
LinksOfDLL == program = "c206" => LinksAgree
=============================================================================
