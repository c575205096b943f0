---------------------------- MODULE TreeTraversal ----------------------------
(***************************************************************************)
(* src/blog-tutorials/example3_tree_traversal.py.  A binary tree is the   *)
(* set of paths from the root to its nodes (sequences over "L" and "R"),   *)
(* and a node's value is its path.  The recursive inorder and preorder     *)
(* traversals are operators; the two queue-based level-order functions run *)
(* one iteration of their `while queue` loop per step.  test_traversals()  *)
(* is the state machine, on any tree up to a depth instead of the sample.  *)
(***************************************************************************)
EXTENDS Naturals, Sequences, SequencesExt

CONSTANT MaxDepth   \* longest root-to-node path of a tree tried

ASSUME TreeTraversalAssumption == MaxDepth \in Nat

VARIABLES
    tree,     \* the tree test_traversals works on
    tpc,      \* where test_traversals is
    queue,    \* the running level-order function's queue
    result,   \* the running level-order function's result
    inorder, preorder, level, correct   \* what each traversal returned

vars == <<tree, tpc, queue, result, inorder, preorder, level, correct>>

Paths == BoundedSeq({"L", "R"}, MaxDepth)

\* Every tree of depth at most MaxDepth: the empty tree (root None) and
\* every prefix-closed set of paths containing the root.
Trees == {T \in SUBSET Paths : \A p \in T : p # <<>> => Front(p) \in T}

Left(p) == Append(p, "L")
Right(p) == Append(p, "R")

RECURSIVE InorderFrom(_, _), PreorderFrom(_, _)

\* inorder_traversal(node, result): left subtree, node, right subtree.
InorderFrom(T, p) ==
    IF p \notin T THEN <<>>
    ELSE InorderFrom(T, Left(p)) \o <<p>> \o InorderFrom(T, Right(p))

\* preorder_traversal(node, result): node, left subtree, right subtree.
PreorderFrom(T, p) ==
    IF p \notin T THEN <<>>
    ELSE <<p>> \o PreorderFrom(T, Left(p)) \o PreorderFrom(T, Right(p))

\* The children a level-order loop finds under `node`, left first.
Children(p) == SelectSeq(<<Left(p), Right(p)>>, LAMBDA c : c \in tree)

Init ==
    /\ tree \in Trees
    /\ tpc = "inorder"
    /\ queue = <<>> /\ result = <<>>
    /\ inorder = <<>> /\ preorder = <<>> /\ level = <<>> /\ correct = <<>>

Inorder ==
    /\ tpc = "inorder"
    /\ inorder' = InorderFrom(tree, <<>>) /\ tpc' = "preorder"
    /\ UNCHANGED <<tree, queue, result, preorder, level, correct>>

Preorder ==
    /\ tpc = "preorder"
    /\ preorder' = PreorderFrom(tree, <<>>) /\ tpc' = "level"
    /\ UNCHANGED <<tree, queue, result, inorder, level, correct>>

\* level_order_traversal(root) and level_order_correct(root): `if not
\* root: return []`, else the queue starts with the root.
LevelCall ==
    /\ tpc \in {"level", "correct"}
    /\ queue' = IF tree = {} THEN <<>> ELSE << <<>> >>
    /\ result' = <<>>
    /\ tpc' = IF tpc = "level" THEN "level_loop" ELSE "correct_loop"
    /\ UNCHANGED <<tree, inorder, preorder, level, correct>>

(***************************************************************************)
(* Reference orders, from the paths alone: p and q part at index i when    *)
(* they agree before it and p goes left there while q goes right.          *)
(***************************************************************************)
PartLeft(p, q) ==
    \E i \in 1..Len(p) : /\ i <= Len(q) /\ p[i] = "L" /\ q[i] = "R"
                        /\ SubSeq(p, 1, i - 1) = SubSeq(q, 1, i - 1)

IsProperPrefix(p, q) == Len(p) < Len(q) /\ p = SubSeq(q, 1, Len(p))

\* The nodes of T listed by a strict total order: the i-th has i - 1
\* nodes before it.
SortedBy(T, before(_, _)) ==
    [i \in 1..Cardinality(T) |->
        CHOOSE p \in T : Cardinality({q \in T : before(q, p)}) = i - 1]

\* Level order: by depth, and left to right within a level; the order of
\* the test's `expected = [1, 2, 3, 4, 5, 6]` on the sample tree.
LevelRef(T) ==
    SortedBy(T, LAMBDA p, q : Len(p) < Len(q) \/ (Len(p) = Len(q) /\ PartLeft(p, q)))

\* Preorder: an ancestor first, then left before right.
PreorderRef(T) == SortedBy(T, LAMBDA p, q : IsProperPrefix(p, q) \/ PartLeft(p, q))

\* Inorder: a node after its left subtree and before its right subtree.
InBefore(p, q) ==
    \/ IsProperPrefix(p, q) /\ q[Len(p) + 1] = "R"
    \/ IsProperPrefix(q, p) /\ p[Len(q) + 1] = "L"
    \/ PartLeft(p, q)

InorderRef(T) == SortedBy(T, InBefore)

\* Mutant of LevelStep: the children are inserted left first.
LevelStepSwapped ==
    /\ tpc = "level_loop"
    /\ IF queue # <<>>
          THEN /\ result' = Append(result, Head(queue))
               /\ queue' = Reverse(Children(Head(queue))) \o Tail(queue)
               /\ UNCHANGED <<tpc, level>>
          ELSE /\ level' = result
               /\ tpc' = IF result # LevelRef(tree) THEN "correct" ELSE "done"
               /\ UNCHANGED <<queue, result>>
    /\ UNCHANGED <<tree, inorder, preorder, correct>>

\* One iteration of level_order_traversal's loop: `queue.pop(0)`, its
\* value appended, then `queue.insert(0, node.right)` and `queue.insert(0,
\* node.left)`: the children go to the front, left first.  An empty queue
\* returns the result to test_traversals, which compares it with the
\* expected order and runs level_order_correct on a mismatch.
LevelStep ==
    /\ tpc = "level_loop"
    /\ IF queue # <<>>
          THEN /\ result' = Append(result, Head(queue))
               /\ queue' = Children(Head(queue)) \o Tail(queue)
               /\ UNCHANGED <<tpc, level>>
          ELSE /\ level' = result
               /\ tpc' = IF result # LevelRef(tree) THEN "correct" ELSE "done"
               /\ UNCHANGED <<queue, result>>
    /\ UNCHANGED <<tree, inorder, preorder, correct>>

\* Mutant of CorrectStep: the right child is appended before the left.
CorrectStepSwapped ==
    /\ tpc = "correct_loop"
    /\ IF queue # <<>>
          THEN /\ result' = Append(result, Head(queue))
               /\ queue' = Tail(queue) \o Reverse(Children(Head(queue)))
               /\ UNCHANGED <<tpc, correct>>
          ELSE /\ correct' = result /\ tpc' = "done"
               /\ UNCHANGED <<queue, result>>
    /\ UNCHANGED <<tree, inorder, preorder, level>>

\* Mutant of CorrectStep: the `if node.left` and `if node.right` guards
\* are dropped.
CorrectStepUnguarded ==
    /\ tpc = "correct_loop"
    /\ IF queue # <<>>
          THEN /\ result' = Append(result, Head(queue))
               /\ queue' = Tail(queue) \o <<Left(Head(queue)), Right(Head(queue))>>
               /\ UNCHANGED <<tpc, correct>>
          ELSE /\ correct' = result /\ tpc' = "done"
               /\ UNCHANGED <<queue, result>>
    /\ UNCHANGED <<tree, inorder, preorder, level>>

\* One iteration of level_order_correct's loop: `queue.popleft()`, its
\* value appended, then `queue.append(node.left)` and `queue.append(
\* node.right)`.
CorrectStep ==
    /\ tpc = "correct_loop"
    /\ IF queue # <<>>
          THEN /\ result' = Append(result, Head(queue))
               /\ queue' = Tail(queue) \o Children(Head(queue))
               /\ UNCHANGED <<tpc, correct>>
          ELSE /\ correct' = result /\ tpc' = "done"
               /\ UNCHANGED <<queue, result>>
    /\ UNCHANGED <<tree, inorder, preorder, level>>

\* The test has printed its last line.
Done == tpc = "done" /\ UNCHANGED vars

Next == Inorder \/ Preorder \/ LevelCall \/ LevelStep \/ CorrectStep \/ Done

Spec == Init /\ [][Next]_vars

(***************************************************************************)
(* Properties                                                              *)
(***************************************************************************)
TypeOK ==
    /\ tree \in Trees
    /\ tpc \in {"inorder", "preorder", "level", "level_loop", "correct",
               "correct_loop", "done"}
    /\ queue \in Seq(tree) /\ result \in Seq(tree)
    /\ \A s \in {inorder, preorder, level, correct} : s \in Seq(tree)

\* Once computed, inorder_traversal and preorder_traversal return every
\* node once in their order, and level_order_correct returns the level
\* order, whatever the shape of the tree (empty, one-sided, full).
TraversalsCorrect ==
    /\ tpc \notin {"inorder"} => inorder = InorderRef(tree)
    /\ tpc \notin {"inorder", "preorder"} => preorder = PreorderRef(tree)
    /\ tpc = "done" /\ level # LevelRef(tree) => correct = LevelRef(tree)

\* level_order_traversal promises the nodes level by level, as
\* test_traversals expects.  What it computes instead: inserting the right
\* child and then the left child at the front of the queue makes it a
\* depth-first walk, exactly the preorder, so it is right only on trees
\* whose preorder is their level order (paths).
LevelIsPreorder == tpc \in {"correct", "correct_loop", "done"} => level = PreorderRef(tree)

=============================================================================
