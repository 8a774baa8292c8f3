--------------------------- MODULE MCAuthSession ---------------------------
\* Two concurrent requests for one account.  In the first environment sign-ins
\* and refreshes of one token meet a deactivation and a change of enforcement, in
\* the second a password change and one of the two; in the third enrolments and
\* sign-ins compete for TOTP and backup codes.
EXTENDS AuthSession, TLC

Sessions == [ops |-> {"login", "sso", "refresh", "deactivate"}, tokens |-> 3,
             passwords |-> 1, secrets |-> 0, steps |-> 1, switches |-> 2]
Passwords == [Sessions EXCEPT !.ops = @ \cup {"password"}, !.passwords = 2, !.switches = 1]
Enrolments == [ops |-> {"login", "setup", "enable", "disable"}, tokens |-> 2,
               passwords |-> 1, secrets |-> 2, steps |-> 2, switches |-> 0]
MCEnvironments == {Sessions, Passwords, Enrolments}
Small == {[Passwords EXCEPT !.ops = {"login", "refresh", "password"}, !.tokens = 2, !.switches = 0]}
Symmetry == Permutations(Requests)
==============================================================================
