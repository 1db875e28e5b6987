------------------------------ MODULE MCKeyPool ------------------------------
EXTENDS KeyPoolLocking

CONSTANTS t1, t2

MCProc == {t1, t2}

MCSymmetry == Permutations(MCProc)
====
