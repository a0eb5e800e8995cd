SPECIFICATION Spec
CONSTANT Loops <- MCLoops
INVARIANTS ModelVisibleIsLogged ToolsObeyVerdicts BoundariesNest
CHECK_DEADLOCK FALSE
