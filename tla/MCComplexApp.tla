---------------------------- MODULE MCComplexApp ----------------------------
EXTENDS ComplexApp

\* recursive_depth(10) in main.py line 15.
MCDepth == 10

=============================================================================
