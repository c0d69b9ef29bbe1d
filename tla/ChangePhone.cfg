\* One user, one request besides the profile's.
CONSTANTS
    User = {u1}
    None = None
    Nobody = Nobody
    MaxPending = 2
    MaxStrays = 0
SPECIFICATION Spec
INVARIANT ChangePhoneAsksForPhone
