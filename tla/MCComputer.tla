----------------------------- MODULE MCComputer -----------------------------
\* One operator, or two.
EXTENDS Computer

CONSTANTS o1, o2

MCOperator == {o1}
MCOperators == {o1, o2}
=============================================================================
