CONSTANTS
    kMax = 6
    Threads = {r1, r2}
    MaxError = 1
    HeartbeatSkew = 0
SPECIFICATION Spec
INVARIANTS
    TypeOK
    NoForgottenWaiters
    WaitedIsSafe

    
    
CHECK_DEADLOCK FALSE
