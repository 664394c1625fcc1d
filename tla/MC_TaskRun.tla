------------------------------ MODULE MC_TaskRun ------------------------------
EXTENDS TaskRun

=============================================================================
