\* One user with one device signed in, three requests of any kind.
CONSTANTS
    Users = {u1}
    None = None
    Requests = {1, 3, 4}
    Seeds = {2}
    Rehash = FALSE
    MaxCrashes = 1
    MaxExpired = 1
SPECIFICATION Spec
INVARIANTS
    TypeOK
    SuccessorEndsToken
    RotationsOverlap
    RevocationsReachAll
    DisabledStaysOut
