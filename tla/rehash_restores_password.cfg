\* One user whose hash is outdated, a sign-in and a password change.
CONSTANTS
    Users = {u1}
    None = None
    Requests = {1, 3}
    Seeds = {2}
    Rehash = TRUE
    MaxCrashes = 0
    MaxExpired = 0
SPECIFICATION Spec
INVARIANT PasswordUpdated
