\* A password change while a login or a refresh is under way.
CONSTANTS
    Requests = {r1, r2}
    AuthEnvironments <- Small
    Skew = 1
SYMMETRY Symmetry
SPECIFICATION AuthSpec
INVARIANTS PasswordChangeRevokes
CHECK_DEADLOCK FALSE
