---------------------------- MODULE MCComplexTest ----------------------------
EXTENDS ComplexTest

\* main() calls fibonacci(0..9); the ages straddle is_adult's bound.
MCMaxN == 9
MCAges == {17, 18, 30}
MCMaxPeople == 3

=============================================================================
