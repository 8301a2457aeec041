----------------------------- MODULE MCExitMonitor -----------------------------
EXTENDS ExitMonitor

\* A is bought by the program, B was opened by hand and has no plan.
CONSTANTS A, B

MCMaxPlans == [s \in {A, B} |-> IF s = A THEN 1 ELSE 0]
===============================================================================
