----------------------------- MODULE BinaryTree -----------------------------
(***************************************************************************)
(* Binary search trees as values, and the recursive functions of           *)
(* IAL/secondproject/btree/rec on them.  The empty tree is <<>>, a node    *)
(* <<key, value, left, right>>.                                            *)
(***************************************************************************)
EXTENDS Integers, SequencesExt, FiniteSetsExt

Empty == <<>>
Node(key, value, left, right) == <<key, value, left, right>>
KeyOf(t) == t[1]
ValueOf(t) == t[2]
LeftOf(t) == t[3]
RightOf(t) == t[4]

RECURSIVE bst_search(_, _), bst_insert(_, _, _), bst_delete(_, _), Rightmost(_),
          WithoutRightmost(_), bst_preorder(_), bst_inorder(_), bst_postorder(_)

\* The node with the key, or the empty tree.
bst_search(t, key) ==
  CASE t = Empty -> Empty
    [] t # Empty /\ KeyOf(t) = key -> t
    [] t # Empty /\ KeyOf(t) < key -> bst_search(RightOf(t), key)
    [] t # Empty /\ KeyOf(t) > key -> bst_search(LeftOf(t), key)

bst_insert(t, key, value) ==
  CASE t = Empty -> Node(key, value, Empty, Empty)
    [] t # Empty /\ KeyOf(t) > key ->
         Node(KeyOf(t), ValueOf(t), bst_insert(LeftOf(t), key, value), RightOf(t))
    [] t # Empty /\ KeyOf(t) < key ->
         Node(KeyOf(t), ValueOf(t), LeftOf(t), bst_insert(RightOf(t), key, value))
    [] OTHER -> Node(key, value, LeftOf(t), RightOf(t))

\* bst_replace_by_rightmost: the node whose key and value the target takes, and
\* what is left of the subtree.
Rightmost(t) == IF RightOf(t) = Empty THEN t ELSE Rightmost(RightOf(t))
WithoutRightmost(t) ==
  IF RightOf(t) = Empty THEN LeftOf(t)
  ELSE Node(KeyOf(t), ValueOf(t), LeftOf(t), WithoutRightmost(RightOf(t)))

\* The tree without its root.
WithoutRoot(t) ==
  CASE LeftOf(t) = Empty -> RightOf(t)
    [] LeftOf(t) # Empty /\ RightOf(t) = Empty -> LeftOf(t)
    [] OTHER -> Node(KeyOf(Rightmost(LeftOf(t))), ValueOf(Rightmost(LeftOf(t))),
                     WithoutRightmost(LeftOf(t)), RightOf(t))

bst_delete(t, key) ==
  CASE t = Empty -> Empty
    [] t # Empty /\ KeyOf(t) < key ->
         Node(KeyOf(t), ValueOf(t), LeftOf(t), bst_delete(RightOf(t), key))
    [] t # Empty /\ KeyOf(t) > key ->
         Node(KeyOf(t), ValueOf(t), bst_delete(LeftOf(t), key), RightOf(t))
    [] OTHER -> WithoutRoot(t)

bst_preorder(t) ==
  IF t = Empty THEN <<>>
  ELSE <<KeyOf(t)>> \o bst_preorder(LeftOf(t)) \o bst_preorder(RightOf(t))

bst_inorder(t) ==
  IF t = Empty THEN <<>>
  ELSE bst_inorder(LeftOf(t)) \o <<KeyOf(t)>> \o bst_inorder(RightOf(t))

bst_postorder(t) ==
  IF t = Empty THEN <<>>
  ELSE bst_postorder(LeftOf(t)) \o bst_postorder(RightOf(t)) \o <<KeyOf(t)>>

\* The map a search tree stands for.
MapOf(t) ==
  [key \in ToSet(bst_inorder(t)) |-> ValueOf(bst_search(t, key))]
=============================================================================
