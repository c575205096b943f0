---------------------------- MODULE MCLinkedList ----------------------------
EXTENDS LinkedList

\* Two values: lists such as <<1, 2, 1>> have a head match, a match past
\* the head, a duplicate and (after removals) a miss.
MCValues == {1, 2}

\* Four allocations: removals interleave with appends on lists of up to
\* four nodes (test_linked_list's own script uses five).
MCMaxNodes == 4

=============================================================================
