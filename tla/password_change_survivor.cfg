\* One user with one device signed in, a refresh and a password change.
CONSTANTS
    Users = {u1}
    None = None
    Requests = {1, 3}
    Seeds = {2}
    Rehash = FALSE
    MaxCrashes = 0
    MaxExpired = 0
SPECIFICATION Spec
INVARIANT OtherDevicesSignInAgain
