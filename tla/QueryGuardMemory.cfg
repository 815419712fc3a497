SPECIFICATION Spec
CONSTANTS
    Requests <- MCRequests
    Users <- MCUsers
    UserOf <- MCUserOf
    MaxConcurrent = 1
    MaxWaiting = 1
    MaxPerUser = 2
INVARIANTS
    PermitsConserved
    CountersTrue
PROPERTIES
    KeepsPromise
