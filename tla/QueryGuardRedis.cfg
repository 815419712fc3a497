SPECIFICATION RedisSpec
CONSTANTS
    Requests <- MCRequests
    Users <- MCUsers
    UserOf <- MCUserOf
    MaxConcurrent = 1
    MaxWaiting = 1
    MaxPerUser = 2
    MaxPolls = 1
    MaxFaults = 1
    FaultyAt <- Everywhere
    Errors <- OSErrors
    ExpiringKeys <- RateKeys
INVARIANTS
    
    UserRateHolds
    
    
PROPERTIES
    
    EveryoneLeaves
