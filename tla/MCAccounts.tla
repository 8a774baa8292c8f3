----------------------------- MODULE MCAccounts ------------------------------
(***************************************************************************)
(* The sessions and second factors of an account, and single sign-on. Each *)
(* behaviour runs one of them while the other stays as it began.           *)
(***************************************************************************)
EXTENDS MCAuthSession, SingleSignOn

(* Single sign-on: one workspace with two callers.                         *)

\* Each environment gives the two requests one kind of interference: replayed and
\* crossed callbacks, the same new person twice, linking, memberships changing,
\* administrators, key rotation.
SsoOps == {"start", "rotate", "tick", "fail", "expire", "save", "delete", "enforce", "flip", "enrol",
           "disable", "setup", "transfer", "evict", "promote"}
NoSsoOps == [k \in SsoOps |-> 0]
Person(i, s, a, ok, ev, gr) == [iss |-> i, sub |-> s, addr |-> a, verified |-> ok, evidence |-> ev, groups |-> gr]
Ann == Person("idp", "ann", "ann@x", TRUE, {}, {"staff"})
Bob == Person("idp", "bob", "bob@x", TRUE, {"amr"}, {})
Eve == Person("idp", "eve", "none", FALSE, {}, {})
MCPeople == {Ann, Bob, Eve}
Local(a) == [addr |-> a, exact |-> "lower", active |-> TRUE, password |-> TRUE, factor |-> FALSE]
Row == [NoProvider EXCEPT !.id = 1, !.issuer = "idp", !.enabled = TRUE, !.secret = "s"]
Identity(n, sub, u) == [id |-> n, provider |-> 1, sub |-> sub, user |-> u, addr |-> "none", st |-> 0, proved |-> {}, born |-> TRUE]
Accounts(a1, a2) == [u \in Users |-> CASE u = 1 -> a1 [] u = 2 -> a2 [] OTHER -> NoAccount]
Roles(r1, r2) == [u \in Users |-> CASE u = 1 -> r1 [] u = 2 -> r2 [] OTHER -> "none"]
Put(issuer, enabled, secret) == [NoInput EXCEPT !.issuer = issuer, !.enabled = enabled, !.secret = secret]
Invite == [addr |-> "ann@x", role |-> "guest", here |-> TRUE]

Realm(p, accounts, roles, ids, pkce, flaws, saves, ops) ==
    [provider |-> p, account |-> accounts, role |-> roles, identities |-> ids, pkce |-> pkce, flaws |-> flaws,
     secret |-> "s", saves |-> saves, nextId |-> 2, invites |-> {}, ops |-> ops]
Bound2 == {Identity(1, "ann", 1), Identity(2, "bob", 2)}
Members == Accounts(Local("ann@x"), Local("bob@x"))
Enrolled == [Local("ann@x") EXCEPT !.factor = TRUE]

MCSsoEnvironments ==
    {\* two sign-ins, their callbacks crossed and repeated, at a provider that ignores PKCE
     Realm(Row, Members, Roles("owner", "member"), Bound2, FALSE, {"none", "aud"}, {}, [NoSsoOps EXCEPT !["start"] = 2]),
     \* accounts with a second factor, trusted and untrusted evidence
     Realm([Row EXCEPT !.trust = TRUE], Accounts(Enrolled, [Local("bob@x") EXCEPT !.factor = TRUE]), Roles("owner", "admin"), Bound2, TRUE, {"none"}, {},
           [NoSsoOps EXCEPT !["start"] = 1, !["flip"] = 2, !["fail"] = 1, !["expire"] = 1]),
     \* the factor disabled, replaced and enabled again under a sign-in, while the row stops
     \* trusting the evidence, asks for another one and maps the groups
     Realm([Row EXCEPT !.trust = TRUE], Accounts(Enrolled, [Local("bob@x") EXCEPT !.factor = TRUE]), Roles("owner", "member"), Bound2, TRUE, {"none"},
           {[Put("idp", "keep", "keep") EXCEPT !.trust = "off"],
            [Put("idp", "keep", "keep") EXCEPT !.acr = "phr", !.verified = "off", !.mapping = [staff |-> "guest"]],
            [Put("idp", "keep", "keep") EXCEPT !.mapping = [staff |-> "owner"]]},
           [NoSsoOps EXCEPT !["start"] = 1, !["save"] = 1, !["disable"] = 1, !["setup"] = 1, !["enrol"] = 1]),
     \* a new person twice, while an invitation for the address is accepted
     [Realm(Row, Accounts(Local("bob@x"), NoAccount), Roles("owner", "none"), {}, TRUE, {"none"}, {}, [NoSsoOps EXCEPT !["start"] = 2])
        EXCEPT !.invites = {Invite}],
     \* linking to a local account, the policy and the factor changing meanwhile
     Realm(Row, Accounts(Local("bob@x"), Enrolled), Roles("owner", "none"), {}, TRUE, {"none"},
           {[Put("idp", "keep", "keep") EXCEPT !.linking = "off"], [Put("idp", "keep", "keep") EXCEPT !.fallback = "owner"]},
           [NoSsoOps EXCEPT !["start"] = 2, !["save"] = 1, !["enrol"] = 1]),
     Realm(Row, Accounts(Local("bob@x"), Enrolled), Roles("owner", "none"), {}, TRUE, {"none"}, {},
           [NoSsoOps EXCEPT !["start"] = 1, !["enrol"] = 1, !["disable"] = 1]),
     \* roles asserted while ownership moves, members leave, are promoted and join
     [Realm([Row EXCEPT !.mapping = [staff |-> "guest", root |-> "admin"]], Members, Roles("owner", "member"),
            {Identity(1, "ann", 2), Identity(2, "bob", 1)}, TRUE, {"none"}, {},
            [NoSsoOps EXCEPT !["start"] = 1, !["transfer"] = 1, !["evict"] = 1, !["promote"] = 1])
        EXCEPT !.invites = {[Invite EXCEPT !.addr = "bob@x"]}],
     \* administrators: saves, secrets, deletion, enforcement
     Realm(Row, Members, Roles("owner", "admin"), Bound2, TRUE, {"none"},
           {Put("idp", "on", "keep"), Put("other", "keep", "clear"), Put("idp", "off", "t")},
           [NoSsoOps EXCEPT !["save"] = 2, !["delete"] = 1, !["enforce"] = 2]),
     \* enforcement and invitations, into this workspace and another
     [Realm(Row, Accounts(Local("bob@x"), NoAccount), Roles("owner", "none"), {Identity(2, "bob", 1)}, TRUE, {"none"}, {},
            [NoSsoOps EXCEPT !["start"] = 1, !["enforce"] = 2])
        EXCEPT !.invites = {Invite, [Invite EXCEPT !.here = FALSE]}],
     \* nobody is provisioned; an address two accounts spell differently
     Realm([Row EXCEPT !.jit = FALSE], Accounts(Local("bob@x"), [Local("bob@x") EXCEPT !.exact = "mixed"]), Roles("owner", "member"), {}, TRUE, {"none"}, {},
           [NoSsoOps EXCEPT !["start"] = 1]),
     \* the provider deleted under a sign-in
     Realm(Row, Members, Roles("owner", "admin"), Bound2, TRUE, {"none"}, {}, [NoSsoOps EXCEPT !["start"] = 1, !["delete"] = 1]),
     \* keys rotate
     Realm([Row EXCEPT !.jit = FALSE, !.linking = FALSE], Members, Roles("owner", "member"), {Identity(1, "ann", 1)}, TRUE, {"none"}, {},
           [NoSsoOps EXCEPT !["start"] = 2, !["rotate"] = 1, !["tick"] = 2])}
IssuerEnvironments ==
    {Realm(Row, Members, Roles("owner", "admin"), Bound2, TRUE, {"none"}, {Put("idp2", "keep", "keep")},
           [NoSsoOps EXCEPT !["save"] = 1, !["enforce"] = 1])}

-----------------------------------------------------------------------------
(* The two of them.                                                        *)

AuthAtRest == [Sessions EXCEPT !.ops = {}, !.switches = 0]
SsoAtRest == Realm(NoProvider, Accounts(NoAccount, NoAccount), Roles("none", "none"), {}, TRUE, {"none"}, {}, NoSsoOps)
AccountsAuth == MCEnvironments \cup {AuthAtRest}
AccountsSso == MCSsoEnvironments \cup {SsoAtRest}

AccountsInit == AuthInit /\ SsoInit /\ (aenv = AuthAtRest <=> senv # SsoAtRest)
AccountsNext ==
    \/ aenv # AuthAtRest /\ AuthNext /\ UNCHANGED ssovars
    \/ aenv = AuthAtRest /\ SsoNext /\ UNCHANGED authvars
AccountsSpec == AccountsInit /\ [][AccountsNext]_<<authvars, ssovars>>

\* Only single sign-on, for MCSsoIssuer.cfg.
AuthResting == {AuthAtRest}
=============================================================================
