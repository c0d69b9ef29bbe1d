\* Two users, two requests on their way, one thing done too soon.
CONSTANTS
    User = {u1, u2}
    None = None
    Nobody = Nobody
    MaxPending = 2
    MaxStrays = 1
SPECIFICATION Spec
SYMMETRY Users
INVARIANT TypeOK
INVARIANT SessionIsSignedIn
INVARIANT LoggedInIsRegistered
PROPERTY BusyIsAnswered
INVARIANT EditsOwnProfile
PROPERTY DeletedIsLoggedOut
PROPERTY DeletedLeavesNoProfile
INVARIANT LoginMeansLoggedOut
INVARIANT TabsMeanLoggedIn
PROPERTY LivingKeepProfile
PROPERTY RegisteredUnlessOvertaken
