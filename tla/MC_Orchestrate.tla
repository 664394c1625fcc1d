--------------------------- MODULE MC_Orchestrate ---------------------------
EXTENDS Orchestrate

MCTokens == {"", "t"}
MCUsers == {"u"}
MCPasswords == {"p"}
MCExpiries == {"2018-01-01T00:00:00Z"}
=============================================================================
