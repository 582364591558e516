---------------------------- MODULE SymbolTable -----------------------------
(***************************************************************************)
(* The symbol tables of IFJ: the stack of scopes (stack_for_trees.c), each *)
(* a search tree that every insertion and deletion rebuilds in balance     *)
(* (symtable.c).                                                           *)
(***************************************************************************)
EXTENDS BinaryTree

CONSTANTS
  Names,      \* identifiers, numbers in the order of strcmp
  NodeData,   \* what a declaration says of its name
  ScopeSlots  \* trees that fit the array: malloc(sizeof(bst_node_t)), never enlarged

VARIABLES
  scopes,     \* the trees, the innermost last
  declared    \* history: what was declared in each scope and is not deleted,
              \* Dangling for a name declared twice

scopeVars == <<scopes, declared>>

\* node_data pointing to the parameter of a bst_insert that has returned: whatever is
\* read through it is undefined, so no operation here reads it.
Dangling == "dead parameter"

RECURSIVE arrayToBst(_), sym_insert(_, _, _), sym_delete(_, _)

\* A tree of the items of a sorted sequence, the middle one its root.
arrayToBst(nodes) ==
  LET mid == (Len(nodes) + 1) \div 2 IN
  IF nodes = <<>> THEN Empty
  ELSE Node(nodes[mid].key, nodes[mid].value, arrayToBst(SubSeq(nodes, 1, mid - 1)),
            arrayToBst(SubSeq(nodes, mid + 1, Len(nodes))))

ItemsInOrder(t) ==
  LET keys == bst_inorder(t)
  IN [i \in DOMAIN keys |-> [key |-> keys[i], value |-> ValueOf(bst_search(t, keys[i]))]]

\* Mutant: the last item is left out.
bst_balance_short(t) ==
  LET nodes == ItemsInOrder(t)
  IN arrayToBst(IF Len(nodes) < 2 THEN nodes ELSE Front(nodes))

bst_balance(t) == arrayToBst(ItemsInOrder(t))

sym_insert(t, key, value) == bst_balance(
  CASE t = Empty -> Node(key, value, Empty, Empty)
    [] t # Empty /\ key < KeyOf(t) ->
         Node(KeyOf(t), ValueOf(t), sym_insert(LeftOf(t), key, value), RightOf(t))
    [] t # Empty /\ key > KeyOf(t) ->
         Node(KeyOf(t), ValueOf(t), LeftOf(t), sym_insert(RightOf(t), key, value))
    [] t # Empty /\ key = KeyOf(t) -> Node(key, Dangling, LeftOf(t), RightOf(t)))

\* bst_replace_by_rightmost frees the rightmost node with what is on its left.
RECURSIVE CutRightmost(_)
CutRightmost(t) ==
  IF RightOf(t) = Empty THEN Empty
  ELSE Node(KeyOf(t), ValueOf(t), LeftOf(t), CutRightmost(RightOf(t)))

CutRoot(t) ==
  CASE LeftOf(t) = Empty -> RightOf(t)
    [] LeftOf(t) # Empty /\ RightOf(t) = Empty -> LeftOf(t)
    [] OTHER -> Node(KeyOf(Rightmost(LeftOf(t))), ValueOf(Rightmost(LeftOf(t))),
                     CutRightmost(LeftOf(t)), RightOf(t))

sym_delete(t, key) ==
  CASE t = Empty -> Empty
    [] t # Empty /\ key > KeyOf(t) -> bst_balance(
         Node(KeyOf(t), ValueOf(t), LeftOf(t), sym_delete(RightOf(t), key)))
    [] t # Empty /\ key < KeyOf(t) -> bst_balance(
         Node(KeyOf(t), ValueOf(t), sym_delete(LeftOf(t), key), RightOf(t)))
    [] OTHER -> bst_balance(CutRoot(t))

scopes_init == scopes = <<Empty>> /\ declared = <<[key \in {} |-> 0]>>

Stack_Push ==
  /\ Len(scopes) < ScopeSlots
  /\ scopes' = Append(scopes, Empty)
  /\ declared' = Append(declared, [key \in {} |-> 0])

Stack_Pop ==
  /\ Len(scopes) > 1  \* the parser pops the global scope at the end
  /\ scopes' = Front(scopes)
  /\ declared' = Front(declared)

element_is_declared_in_local_scope(key) == bst_search(Last(scopes), key)

\* The node of the innermost scope that has the key.
element_is_declared(key) ==
  LET found == {i \in DOMAIN scopes : bst_search(scopes[i], key) # Empty}
  IN IF found = {} THEN Empty ELSE bst_search(scopes[Max(found)], key)

\* The bst_insert of the parser.
Declare(key, value) ==
  /\ scopes' = [scopes EXCEPT ![Len(scopes)] = sym_insert(@, key, value)]
  /\ declared' = [declared EXCEPT ![Len(scopes)] =
       [x \in DOMAIN @ \cup {key} |->
          IF x # key THEN @[x] ELSE IF x \in DOMAIN @ THEN Dangling ELSE value]]

\* let and var refuse a name that the local scope has.
DeclareVariable(key, value) ==
  element_is_declared_in_local_scope(key) = Empty /\ Declare(key, value)

\* params and params_n insert what they read, also a parameter named like another.
DeclareParameter(key, value) == Declare(key, value)

\* bst_delete has no caller yet.
Undeclare(key) ==
  /\ scopes' = [scopes EXCEPT ![Len(scopes)] = sym_delete(@, key)]
  /\ declared' = [declared EXCEPT ![Len(scopes)] = Restrict(@, DOMAIN @ \ {key})]

scopes_Next ==
  \/ Stack_Push \/ Stack_Pop
  \/ \E key \in Names :
       \/ Undeclare(key)
       \/ \E value \in NodeData :
            DeclareVariable(key, value) \/ DeclareParameter(key, value)

scopes_Spec == scopes_init /\ [][scopes_Next]_scopeVars

-----------------------------------------------------------------------------
(* Properties.                                                             *)

RECURSIVE IsBalanced(_)
IsBalanced(t) ==
  \/ t = Empty
  \/ /\ Len(bst_inorder(LeftOf(t))) - Len(bst_inorder(RightOf(t))) \in {-1, 0}
     /\ IsBalanced(LeftOf(t)) /\ IsBalanced(RightOf(t))

\* A name means its innermost declaration.
InnermostDeclaration ==
  \A key \in Names :
    LET declaring == {i \in DOMAIN declared : key \in DOMAIN declared[i]}
        node == element_is_declared(key)
    IN IF declaring = {} THEN node = Empty
       ELSE node # Empty /\ ValueOf(node) = declared[Max(declaring)][key]

\* What a scope declares is found in it and nothing else, whatever was inserted
\* and deleted around it, no lookup takes longer than in a balanced tree, and a name
\* means its innermost declaration.  The value of a name declared twice in a scope is
\* lost, it is not replaced as symtable.h:88 says, and the value of no other name is.
ScopesAsDeclared ==
  /\ \A i \in DOMAIN scopes : MapOf(scopes[i]) = declared[i] /\ IsBalanced(scopes[i])
  /\ InnermostDeclaration
=============================================================================
