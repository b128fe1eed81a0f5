SPECIFICATION ListSpec
CONSTANTS
    Producers = {p1, p2}
    Nodes = {n1, n2}
    NULL = NULL
INVARIANT EmptyIsEmpty
