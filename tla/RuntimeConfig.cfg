SPECIFICATION Spec
CONSTANTS
    First = First
    Second = Second
    Size = Size
    Limit = Limit
    DataIds <- MCDataIds
    Keys = {Size, Limit}
    Initially <- MCInitially
    Writers = {w1}
    Queries = {q1}
    Edits <- MCEdits
    Targets = {0, 1}
    MaxChanges = 2
    MaxFaults = 1

    
PROPERTIES
    WritesAreExact
    
