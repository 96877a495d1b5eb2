SPECIFICATION Spec
CONSTANT Fds = {0, 1, 2, 3, 4, 5}
CONSTANT Pids = {1, 2, 3, 4}
CONSTANT Diagrams <- MCDiagrams
CONSTANT Simulations = 2
CONSTANT Requests = 3
INVARIANT InStep
INVARIANT NothingLeft
PROPERTY SimulationEnds
CHECK_DEADLOCK FALSE
