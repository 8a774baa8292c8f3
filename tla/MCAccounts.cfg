SPECIFICATION AccountsSpec
SYMMETRY Symmetry
CONSTANTS
    Requests = {r1, r2}
    Skew = 1
    AuthEnvironments <- AccountsAuth
    Users = {1, 2, 3, 4}
    Callers = {1, 2}
    People <- MCPeople
    Misdeclared = {"other"}
    SsoEnvironments <- AccountsSso
INVARIANTS
    SessionsSound
    FactorSpentOnce
    SignInSound
PROPERTY SignInKeepsRoles
CHECK_DEADLOCK FALSE
