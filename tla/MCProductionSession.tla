-------------------------- MODULE MCProductionSession --------------------------
\* Launch, drain and collection may fail, and stops or removals, not both.
EXTENDS ProductionSession
MCFaultSets == {{"launch", "stop", "drain", "collect"}, {"launch", "rm", "drain", "collect"}}
=============================================================================
