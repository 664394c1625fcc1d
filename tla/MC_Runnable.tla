------------------------------ MODULE MC_Runnable ------------------------------
EXTENDS Runnable, Integers

\* max_runtime unset (-1), zero, and a budget whose tolerance boundary
\* (9 = 10 - 10 / 10) is one of the instants the clock can show.
MCMaxRuntimes == {-1, 0, 10}
=============================================================================
