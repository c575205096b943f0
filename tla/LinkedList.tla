----------------------------- MODULE LinkedList -----------------------------
(***************************************************************************)
(* src/blog-tutorials/example2_linked_list.py: LinkedList over a heap of   *)
(* Node objects.  A node is its allocation index in `heap`; None is 0.    *)
(* append and remove are one step each, the whole method including its    *)
(* pointer walk.  The list a caller sees is what to_list() collects by     *)
(* following `next` from `head`; the module is shown to implement          *)
(* AbstractList under that mapping; `size` is not part of the mapping.    *)
(***************************************************************************)
EXTENDS Naturals, Sequences

CONSTANTS
    Values,     \* the values appended
    MaxNodes    \* Node objects a behaviour may allocate

ASSUME LinkedListAssumption == MaxNodes \in Nat

VARIABLES
    heap,     \* heap[a]: the Node at address a, [value, next]
    head,     \* self.head
    size,     \* self.size
    result    \* what the last call returned: "None", "True" or "False"

vars == <<heap, head, size, result>>

None == 0

Node(v) == [value |-> v, next |-> None]

\* walk[i]: where `current` is after i steps of `current = current.next`
\* from the head (None once it fell off the end).
Walk == LET w[i \in 0..MaxNodes] ==
              IF i = 0 THEN head
              ELSE IF w[i - 1] = None THEN None ELSE heap[w[i - 1]].next
        IN  w

\* The addresses the loops of to_list, append and remove visit, head first
\* (MaxNodes + 1 of them if the chain were a cycle: to_list would not end).
Chain ==
    LET ends == {i \in 0..MaxNodes : Walk[i] = None}
        len  == IF ends = {} THEN MaxNodes + 1
                ELSE CHOOSE i \in ends : \A j \in ends : i <= j
    IN  [i \in 1..len |-> Walk[(i - 1) % (MaxNodes + 1)]]

\* to_list(): the values along the chain.
ToList == [i \in DOMAIN Chain |-> heap[Chain[i]].value]

Init == heap = <<>> /\ head = None /\ size = 0 /\ result = "None"

\* append(value): a new Node; the head if the list is empty, else linked
\* after the last node the `while current.next` walk reaches; size += 1.
LLAppend(v) ==
    /\ Len(heap) < MaxNodes
    /\ LET new == Len(heap) + 1 IN
          IF head = None
             THEN heap' = Append(heap, Node(v)) /\ head' = new
             ELSE /\ heap' = Append([heap EXCEPT ![Chain[Len(Chain)]].next = new],
                                    Node(v))
                  /\ UNCHANGED head
    /\ size' = size + 1
    /\ result' = "None"

\* The position in the chain of the first node holding v, 0 if none.
FirstMatch(v) ==
    LET hits == {i \in DOMAIN Chain : heap[Chain[i]].value = v}
    IN  IF hits = {} THEN 0 ELSE CHOOSE i \in hits : \A j \in hits : i <= j

\* Mutant of LLRemove: a miss also decrements size.
LLRemoveMissDecrements(v) ==
    LET j == FirstMatch(v) IN
    \/ /\ j = 0
       /\ size' = size - 1 /\ result' = "False" /\ UNCHANGED <<heap, head>>
    \/ /\ j = 1
       /\ head' = heap[Chain[1]].next /\ result' = "True"
       /\ UNCHANGED <<heap, size>>
    \/ /\ j > 1
       /\ heap' = [heap EXCEPT ![Chain[j - 1]].next = heap[Chain[j]].next]
       /\ size' = size - 1 /\ result' = "True" /\ UNCHANGED head

\* Mutant of LLRemove: the walk goes on past a match and unlinks the last.
LLRemoveLast(v) ==
    LET hits == {i \in DOMAIN Chain : heap[Chain[i]].value = v}
        j    == IF hits = {} THEN 0 ELSE CHOOSE i \in hits : \A m \in hits : m <= i
    IN
    \/ /\ j = 0
       /\ result' = "False" /\ UNCHANGED <<heap, head, size>>
    \/ /\ j = 1
       /\ head' = heap[Chain[1]].next /\ result' = "True"
       /\ UNCHANGED <<heap, size>>
    \/ /\ j > 1
       /\ heap' = [heap EXCEPT ![Chain[j - 1]].next = heap[Chain[j]].next]
       /\ size' = size - 1 /\ result' = "True" /\ UNCHANGED head

\* remove(value): False on an empty list or a miss; a match at the head
\* moves head on and returns before `self.size -= 1`; any other match is
\* unlinked from its predecessor and size decremented.
LLRemove(v) ==
    LET j == FirstMatch(v) IN
    \/ /\ j = 0
       /\ result' = "False" /\ UNCHANGED <<heap, head, size>>
    \/ /\ j = 1
       /\ head' = heap[Chain[1]].next /\ result' = "True"
       /\ UNCHANGED <<heap, size>>
    \/ /\ j > 1
       /\ heap' = [heap EXCEPT ![Chain[j - 1]].next = heap[Chain[j]].next]
       /\ size' = size - 1 /\ result' = "True" /\ UNCHANGED head

Next == \E v \in Values : LLAppend(v) \/ LLRemove(v)

Spec == Init /\ [][Next]_vars

(***************************************************************************)
(* Properties                                                              *)
(***************************************************************************)
TypeOK ==
    /\ heap \in Seq([value : Values, next : 0..MaxNodes])
    /\ Len(heap) <= MaxNodes
    /\ head \in 0..Len(heap)
    /\ size \in Nat
    /\ result \in {"None", "True", "False"}

\* The list callers see through to_list() behaves as AbstractList: append
\* adds at the end, remove unlinks exactly the first occurrence and tells
\* whether there was one, through every sequence of calls, including the
\* head removal whose early return the code comments flag.
AbsList == INSTANCE AbstractList WITH lst <- ToList

ImplementsList == AbsList!Spec

=============================================================================
