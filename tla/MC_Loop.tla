------------------------------- MODULE MC_Loop -------------------------------
EXTENDS MeasurementLoop

\* max_runtime unset.
MCMaxRuntimes == {-1}
=============================================================================
