SPECIFICATION Spec
CONSTANTS
    Key = {1, 2, 3, 4, 5, 6}
    num_leaves = 1
    MaxNodes = 6
    MaxCalls = 2
INVARIANTS
    TypeOK
    SearchTree
    AVLBalanced
