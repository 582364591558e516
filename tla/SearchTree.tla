----------------------------- MODULE SearchTree -----------------------------
(***************************************************************************)
(* The iterative search tree of IAL/secondproject/btree/iter, one action   *)
(* per round of a function's loop, under the calls of a user and of        *)
(* letter_count (btree/exa).  The pointer to a pointer with which the code *)
(* walks is the path from the root; malloc() is taken to succeed.          *)
(***************************************************************************)
EXTENDS BinaryTree

CONSTANTS
  Chars,     \* the characters of the counted text
  MaxLetters \* bound on the letters that are counted in the tree

VARIABLES
  tree,
  running,   \* the call under way, <<"none">> between calls
  before,    \* the tree when it was made
  path,      \* where the loop is: a sequence of LEFT and RIGHT
  stack, visits,  \* the stacks of nodes and of first visits, tops last
  items,     \* what bst_add_node_to_items got, or the freed nodes
  bst_call, bst_result  \* the last call on the map, and <<value>> or <<>>

treeVars == <<tree, running, before, path, stack, visits, items, bst_call, bst_result>>

LEFT == 3
RIGHT == 4

\* The subtree a path leads to, and the tree with another in its place.
RECURSIVE At(_, _), Graft(_, _, _)
At(t, p) == IF p = <<>> THEN t ELSE At(t[p[1]], Tail(p))
Graft(t, p, s) == IF p = <<>> THEN s ELSE [t EXCEPT ![p[1]] = Graft(@, Tail(p), s)]

bst_init ==
  /\ tree = Empty /\ before = Empty
  /\ running = <<"none">> /\ path = <<>> /\ stack = <<>> /\ visits = <<>> /\ items = <<>>
  /\ bst_call = <<"Init">> /\ bst_result = <<>>

\* letter_count: one case of letters, and '_' for what is no letter or space.
Class(c) ==
  LET lower == IF c \in 65 .. 90 THEN c + 32 ELSE c
  IN IF lower \in 97 .. 122 \/ lower = 32 THEN lower ELSE 95
Letters == {Class(c) : c \in Chars}

Starts(what, work, first) ==
  /\ running = <<"none">>
  /\ running' = what
  /\ before' = tree
  /\ path' = <<>> /\ stack' = work /\ visits' = first /\ items' = <<>>
  /\ UNCHANGED <<tree, bst_call, bst_result>>

\* letter_count of one more character.
CountLetter(c) ==
  LET found == bst_search(tree, Class(c)) IN
  /\ MapThenSumSet(LAMBDA key : MapOf(tree)[key], DOMAIN MapOf(tree)) < MaxLetters
  /\ Starts(<<"insert", Class(c), IF found = Empty THEN 1 ELSE ValueOf(found) + 1>>,
            <<>>, <<>>)

RECURSIVE LeftSpine(_)
LeftSpine(t) == IF t = Empty THEN <<>> ELSE <<t>> \o LeftSpine(LeftOf(t))
KeysOf(nodes) == [i \in DOMAIN nodes |-> KeyOf(nodes[i])]
FirstVisits(nodes) == [i \in DOMAIN nodes |-> TRUE]

StartTraversal ==
  LET spine == LeftSpine(tree) IN
  \/ Starts(<<"inorder">>, spine, <<>>)
  \/ Starts(<<"postorder">>, spine, FirstVisits(spine))
  \/ /\ running = <<"none">>
     /\ running' = <<"preorder">> /\ before' = tree
     /\ path' = <<>> /\ stack' = spine /\ visits' = <<>> /\ items' = KeysOf(spine)
     /\ UNCHANGED <<tree, bst_call, bst_result>>

Start ==
  \/ \E c \in Chars :
       \/ CountLetter(c)
       \/ \E what \in {"get", "delete"} : Starts(<<what, Class(c)>>, <<>>, <<>>)
  \/ StartTraversal
  \/ Starts(<<"clear">>, IF tree = Empty THEN <<>> ELSE <<tree>>, <<>>)

\* The loop ends.
Ends(collected) ==
  /\ running' = <<"none">> /\ before' = Empty
  /\ path' = <<>> /\ stack' = <<>> /\ visits' = <<>>
  /\ items' = collected

\* A call on the map returns.
Finishes(answer, collected) ==
  /\ Ends(collected)
  /\ bst_call' = running /\ bst_result' = answer

Here == At(tree, path)
WalkTo(side) ==
  path' = Append(path, side)
  /\ UNCHANGED <<tree, running, before, stack, visits, items, bst_call, bst_result>>

SearchRound ==
  /\ running[1] = "get"
  /\ \/ Here = Empty /\ Finishes(<<>>, <<>>) /\ UNCHANGED tree
     \/ Here # Empty /\ KeyOf(Here) = running[2]
        /\ Finishes(<<ValueOf(Here)>>, <<>>) /\ UNCHANGED tree
     \/ Here # Empty /\ KeyOf(Here) < running[2] /\ WalkTo(RIGHT)
     \/ Here # Empty /\ KeyOf(Here) > running[2] /\ WalkTo(LEFT)

InsertRound ==
  /\ running[1] = "insert"
  /\ LET key == running[2]
         side == IF Here # Empty /\ KeyOf(Here) > key THEN LEFT ELSE RIGHT
         new == Node(key, running[3], Empty, Empty)
     IN \/ /\ Here = Empty  \* only an empty tree
           /\ tree' = new /\ Finishes(<<>>, <<>>)
        \/ /\ Here # Empty /\ KeyOf(Here) = key
           /\ tree' = Graft(tree, path, [Here EXCEPT ![2] = running[3]])
           /\ Finishes(<<>>, <<>>)
        \/ /\ Here # Empty /\ KeyOf(Here) # key /\ Here[side] = Empty
           /\ tree' = Graft(tree, path \o <<side>>, new) /\ Finishes(<<>>, <<>>)
        \/ /\ Here # Empty /\ KeyOf(Here) # key /\ Here[side] # Empty
           /\ WalkTo(side)

\* Mutant: the loop does not go on to the left.
DeleteRoundOneWay ==
  /\ running[1] = "delete"
  /\ \/ Here = Empty /\ Finishes(<<>>, <<>>) /\ UNCHANGED tree
     \/ Here # Empty /\ KeyOf(Here) # running[2] /\ WalkTo(RIGHT)
     \/ /\ Here # Empty /\ KeyOf(Here) = running[2]
        /\ tree' = Graft(tree, path, WithoutRoot(Here))
        /\ UNCHANGED <<running, before, path, stack, visits, items, bst_call, bst_result>>

\* The loop goes on after the node is gone, in what has taken its place, until
\* it falls off the tree.
DeleteRound ==
  /\ running[1] = "delete"
  /\ \/ Here = Empty /\ Finishes(<<>>, <<>>) /\ UNCHANGED tree
     \/ Here # Empty /\ KeyOf(Here) > running[2] /\ WalkTo(LEFT)
     \/ Here # Empty /\ KeyOf(Here) < running[2] /\ WalkTo(RIGHT)
     \/ /\ Here # Empty /\ KeyOf(Here) = running[2]
        /\ tree' = Graft(tree, path, WithoutRoot(Here))
        /\ UNCHANGED <<running, before, path, stack, visits, items, bst_call, bst_result>>

\* bst_dispose: the children are pushed, right first, and the node is freed.
DisposeRound ==
  /\ running[1] = "clear"
  /\ \/ /\ stack = <<>>
        /\ tree' = Empty /\ Finishes(<<>>, items)
     \/ /\ stack # <<>>
        /\ stack' = Front(stack) \o
             SelectSeq(<<RightOf(Last(stack)), LeftOf(Last(stack))>>, LAMBDA t : t # Empty)
        /\ items' = Append(items, KeyOf(Last(stack)))
        /\ UNCHANGED <<tree, running, before, path, visits, bst_call, bst_result>>

\* One round of a traversal: the next stacks and what is added to the items.
Goes(nodes, first, added) ==
  /\ stack # <<>>
  /\ stack' = nodes /\ visits' = first /\ items' = items \o added
  /\ UNCHANGED <<tree, running, before, path, bst_call, bst_result>>

TraversalReturns ==
  /\ running[1] \in {"preorder", "inorder", "postorder"}
  /\ stack = <<>>
  /\ Ends(items)
  /\ UNCHANGED <<tree, bst_call, bst_result>>

PreorderRound ==
  /\ running[1] = "preorder" /\ stack # <<>>
  /\ LET spine == LeftSpine(RightOf(Last(stack)))
     IN Goes(Front(stack) \o spine, visits, KeysOf(spine))

InorderRound ==
  /\ running[1] = "inorder" /\ stack # <<>>
  /\ Goes(Front(stack) \o LeftSpine(RightOf(Last(stack))), visits, <<KeyOf(Last(stack))>>)

\* Mutant: a node is not marked as visited for the first time below.
PostorderRoundUnmarked ==
  /\ running[1] = "postorder" /\ stack # <<>>
  /\ LET spine == LeftSpine(RightOf(Last(stack))) IN
     IF Last(visits)
       THEN Goes(stack \o spine, Front(visits) \o <<FALSE>> \o [i \in DOMAIN spine |-> FALSE], <<>>)
       ELSE Goes(Front(stack), Front(visits), <<KeyOf(Last(stack))>>)

PostorderRound ==
  /\ running[1] = "postorder" /\ stack # <<>>
  /\ LET spine == LeftSpine(RightOf(Last(stack))) IN
     IF Last(visits)
       THEN Goes(stack \o spine, Front(visits) \o <<FALSE>> \o FirstVisits(spine), <<>>)
       ELSE Goes(Front(stack), Front(visits), <<KeyOf(Last(stack))>>)

bst_Next ==
  \/ Start
  \/ SearchRound \/ InsertRound \/ DeleteRound \/ DisposeRound
  \/ PreorderRound \/ InorderRound \/ PostorderRound \/ TraversalReturns

bst_Spec == bst_init /\ [][bst_Next]_treeVars

-----------------------------------------------------------------------------
(* Properties.                                                             *)

\* A loop leaves the tree, or the list of nodes, that the recursive variant
\* makes: the same shape, the same order, every node freed once.
IterativeAsRecursive ==
  [][running # <<"none">> /\ running' = <<"none">> =>
       CASE running[1] = "insert" -> tree' = bst_insert(before, running[2], running[3])
         [] running[1] = "delete" -> tree' = bst_delete(before, running[2])
         [] running[1] = "clear" ->
              tree' = Empty /\ SortSeq(items', <) = bst_inorder(before)
         [] running[1] = "preorder" -> items' = bst_preorder(tree)
         [] running[1] = "inorder" -> items' = bst_inorder(tree)
         [] running[1] = "postorder" -> items' = bst_postorder(tree)
         [] OTHER -> tree' = tree]_treeVars

\* What a node on the stack still stands for.
Owes(i) ==
  LET t == stack[i] IN
  CASE running[1] = "preorder" -> bst_preorder(RightOf(t))
    [] running[1] = "inorder" -> <<KeyOf(t)>> \o bst_inorder(RightOf(t))
    [] running[1] = "postorder" /\ visits[i] -> bst_postorder(RightOf(t)) \o <<KeyOf(t)>>
    [] running[1] = "postorder" /\ ~visits[i] -> <<KeyOf(t)>>

\* In every round, the nodes given out and those the stack owes, from its top
\* down, are the whole traversal.
TraversalOnCourse ==
  running[1] \in {"preorder", "inorder", "postorder"} =>
    items \o FlattenSeq([j \in 1 .. Len(stack) |-> Owes(Len(stack) - j + 1)])
      = CASE running[1] = "preorder" -> bst_preorder(tree)
          [] running[1] = "inorder" -> bst_inorder(tree)
          [] OTHER -> bst_postorder(tree)

\* The tree is a map whose calls take effect when they return, answers included.
LetterMap == INSTANCE FiniteMap
  WITH map <- MapOf(IF running = <<"none">> THEN tree ELSE before),
       Keys <- Letters, MapValues <- 1 .. MaxLetters,
       call <- bst_call, result <- bst_result
TreeIsMap == LetterMap!Spec
=============================================================================
