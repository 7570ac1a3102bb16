\* An agent and three more PIDs, one the process table may not show and one
\* that comes back.
SPECIFICATION Spec
CONSTANTS
    None = None
    Pids <- MCPids
    AgentPid = 1
    Missable <- MCMissable
    Recycled <- MCRecycled
    RootImages = {"agent"}
    Starts <- MCStarts
    MaxBirths = 4
    MaxLag = 2
    MaxRetries = 2
PROPERTIES HandoffsAreSpared
CHECK_DEADLOCK FALSE
