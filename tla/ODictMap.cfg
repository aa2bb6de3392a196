SPECIFICATION FairSpec
CONSTANTS
    Key = {1, 2, 3, 4}
    num_leaves = 1
    MaxNodes = 5
    MaxCalls = 2
PROPERTIES
    CallReturns
    ImplementsDictionary
