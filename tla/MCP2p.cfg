SPECIFICATION Spec
CONSTANTS
    r1 = r1
    r2 = r2
    r3 = r3
INVARIANTS ProbeVerdict  CodedRight
PROPERTIES AgentReports GatherEnds
CHECK_DEADLOCK FALSE
