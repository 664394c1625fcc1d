------------------------------- MODULE MC_Task -------------------------------
(* Two Task objects alive at once, each emitting up to three events.       *)
EXTENDS Task, TLC

CONSTANTS t1, t2

MCTasks == {t1, t2}

MCOneTask == {t1}

MCSymmetry == Permutations(MCTasks)

=============================================================================
