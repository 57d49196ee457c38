SPECIFICATION Spec
CONSTANTS
    first = first
    second = second
    here = here
    there = there
    None = None
    Clusters = {first, second}
    Namespaces = {here, there}
    NamespaceOf <- TwoNamespaces
    Nodes = {0}
    MaxFaults = 0
INVARIANT
    LiveNodesAreChecked
CHECK_DEADLOCK FALSE
