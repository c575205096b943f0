---------------------------- MODULE AbstractList ----------------------------
(***************************************************************************)
(* What LinkedList of src/blog-tutorials/example2_linked_list.py promises *)
(* its callers: a list of values in insertion order, where append adds at *)
(* the end and remove(value) drops the first occurrence and says whether   *)
(* there was one.  LinkedList.tla is shown to implement this module.       *)
(***************************************************************************)
EXTENDS Naturals, Sequences, SequencesExt

CONSTANT Values   \* the values a caller may store

VARIABLES
    lst,      \* the values, head first
    result    \* what the last call returned: "None", "True" or "False"

vars == <<lst, result>>

Init == lst = <<>> /\ result = "None"

ListAppend(v) == lst' = Append(lst, v) /\ result' = "None"

ListRemove(v) ==
    IF v \in ToSet(lst) THEN lst' = RemoveFirst(lst, v) /\ result' = "True"
                        ELSE UNCHANGED lst /\ result' = "False"

Next == \E v \in Values : ListAppend(v) \/ ListRemove(v)

Spec == Init /\ [][Next]_vars

=============================================================================
