--------------------------- MODULE MCTreeTraversal ---------------------------
EXTENDS TreeTraversal

\* Four levels, one more than build_sample_tree's three: every tree with
\* up to fifteen nodes, the sample among them.
MCMaxDepth == 3

=============================================================================
