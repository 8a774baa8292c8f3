---------------------------- MODULE SingleSignOn ----------------------------
(***************************************************************************)
(* Signing in through a workspace's identity provider.                     *)
(*                                                                         *)
(* A sign-in is several requests: Start writes a single-use row, the       *)
(* person authenticates at the provider, the callback spends the row,      *)
(* redeems the code and applies the linking rules, and a second step may   *)
(* be needed.  Every request is a sequence of database statements and      *)
(* calls to the provider that interleave with those of other requests,     *)
(* with the administrators who edit, delete and enforce the provider, and  *)
(* with ordinary changes to accounts and memberships.  Issuing the session *)
(* and checking passwords and second factors belong to module AuthSession; *)
(* here they are their outcomes.                                           *)
(***************************************************************************)
EXTENDS Integers, Sequences, FiniteSets

CONSTANTS Users,           \* numbers of the accounts that may ever exist
          Callers,         \* requests in flight
          People,          \* what the directories assert: issuer, subject, address,
                           \* whether it is verified, evidence of a second factor, groups
          Misdeclared,     \* issuers whose discovery document names another issuer
          SsoEnvironments  \* initial rows and budgets

VARIABLES senv,          \* the environment, its budgets going down
          provider,      \* the workspace's row of sso_providers
          account,       \* users: address, its spelling, flags
          role,          \* workspace_members of the workspace
          identities,    \* sso_identities
          authRequests,  \* sso_auth_requests
          pendings,      \* sso_pending_logins
          sent,          \* every sign-in ever started: its issuer, who completed it
                         \* there, the accounts enrolled in a second factor ever since
          grants,        \* authorization codes the provider honours
          jwks,          \* the signing key the provider publishes, and its age
          cached,        \* the client's cached key set and its age
          call,          \* the requests in progress
          logins,        \* sessions issued
          shown          \* <<provider, issuer>> an enforcing administrator is bound to

ssovars == <<senv, provider, account, role, identities, authRequests, pendings, sent, grants,
             jwks, cached, call, logins, shown>>
rowVars == <<provider, account, role, identities, authRequests, pendings>>
idpVars == <<sent, grants, jwks, cached>>

NoAccount == [addr |-> "none", exact |-> "none", active |-> FALSE, password |-> FALSE, factor |-> FALSE]
NoProvider == [id |-> 0, issuer |-> "none", secret |-> "none", enabled |-> FALSE, enforced |-> FALSE,
               jit |-> TRUE, linking |-> TRUE, verified |-> TRUE, trust |-> FALSE, acr |-> "none",
               fallback |-> "member", mapping |-> <<>>]
Nobody == [iss |-> "none", sub |-> "none", addr |-> "none", verified |-> FALSE, evidence |-> {}, groups |-> {}]
NoInput == [issuer |-> "none", enabled |-> "keep", secret |-> "keep", jit |-> "keep", linking |-> "keep",
            verified |-> "keep", trust |-> "keep", acr |-> "none", fallback |-> "member", mapping |-> <<>>]
NoInvite == [addr |-> "none", role |-> "none", here |-> FALSE]
Free == [pc |-> "free", kind |-> "none", st |-> 0, code |-> [state |-> 0, who |-> Nobody], prov |-> 0,
         p |-> NoProvider, flaw |-> "none", key |-> 0, got |-> 0, user |-> 0, ident |-> 0,
         proved |-> {}, in |-> NoInput, on |-> FALSE, inv |-> NoInvite]

\* The database a run starts from: accounts with an address, members among them, subjects
\* provisioned one to one, and a provider that answered discovery and is not yet enforced.
\* A directory asserts somebody.
ASSUME SsoAssumption ==
    /\ Users \subseteq Nat \ {0} /\ Nobody \notin People
    /\ \A e \in SsoEnvironments :
          /\ DOMAIN e.account = Users /\ DOMAIN e.role = Users
          /\ \A u \in Users :
                /\ DOMAIN e.account[u] = DOMAIN NoAccount
                /\ e.account[u] = NoAccount \/ e.account[u].addr # "none"
                /\ e.account[u] = NoAccount => e.role[u] = "none"
          /\ \A i \in e.identities :
                /\ DOMAIN i = {"id", "provider", "sub", "user", "addr", "st", "proved", "born"}
                /\ i.born /\ i.user \in Users /\ e.account[i.user] # NoAccount
          /\ \A i, j \in e.identities :
                i.provider = j.provider /\ (i.sub = j.sub \/ i.user = j.user) => i = j
          /\ DOMAIN e.provider = DOMAIN NoProvider
          /\ e.provider.fallback \in {"admin", "member", "guest"}
          /\ ~e.provider.enforced /\ (e.provider.enabled => e.provider.issuer \notin Misdeclared)

SsoInit ==
    \E e \in SsoEnvironments :
        /\ senv = e
        /\ provider = e.provider
        /\ account = e.account
        /\ role = e.role
        /\ identities = e.identities
        /\ authRequests = {} /\ pendings = {} /\ sent = <<>> /\ grants = {}
        /\ jwks = [key |-> 1, since |-> 2] /\ cached = [key |-> 0, age |-> 2]
        /\ call = [c \in Callers |-> Free]
        /\ logins = <<>> /\ shown = {}

CanSso(op) == senv.ops[op] > 0
SpendSso(op) == senv' = [senv EXCEPT !.ops[op] = @ - 1]
In(c, pc) == call[c].pc = pc
Enter(c, new) == call' = [call EXCEPT ![c] = new]
Go(c, pc) == call' = [call EXCEPT ![c].pc = pc]
End(c) == call' = [call EXCEPT ![c] = Free]
Who(c) == call[c].code.who
OnlyCall == UNCHANGED <<senv, rowVars, idpVars, logins, shown>>
\* The smallest number no row of the table uses.
NextId(ids) == CHOOSE n \in 1..(Cardinality(ids) + 1) : n \notin ids /\ \A m \in 1..(n - 1) : m \in ids

-----------------------------------------------------------------------------
(* The identity provider: discovery, signing keys and the person.          *)

\* A discovery document counts only when it declares the issuer it was asked of.
Metadata(i) == i \notin Misdeclared

\* In units of the shortest time between two fetches of the key set.
MinRefresh == 1
CacheTTL == 2

KeyCached(k) == cached.age < CacheTTL /\ k = cached.key
KeyRefused(k) == cached.age < MinRefresh /\ k # cached.key

\* A key set younger than the TTL answers; an unknown key is looked up again
\* unless the set is younger than minRefresh.
Key(c) ==
    /\ In(c, "verify")
    /\ \/ KeyCached(call[c].key) /\ Go(c, "claims")
       \/ KeyRefused(call[c].key) /\ End(c)
    /\ OnlyCall

fetchKeys(c) ==
    /\ In(c, "verify")
    /\ ~KeyCached(call[c].key) /\ ~KeyRefused(call[c].key)
    /\ Enter(c, [call[c] EXCEPT !.pc = "fetched", !.got = jwks.key])
    /\ OnlyCall

StoreKeys(c) ==
    /\ In(c, "fetched")
    /\ cached' = [key |-> call[c].got, age |-> 0]
    /\ IF call[c].got = call[c].key THEN Go(c, "claims") ELSE End(c)
    /\ UNCHANGED <<senv, rowVars, sent, grants, jwks, logins, shown>>

\* The provider publishes a new key and signs with it from then on.
Rotate ==
    /\ CanSso("rotate") /\ SpendSso("rotate")
    /\ jwks' = [key |-> jwks.key + 1, since |-> 0]
    /\ UNCHANGED <<rowVars, sent, grants, cached, call, logins, shown>>

\* A request to the provider times out before minRefresh passes.
TimePasses ==
    /\ CanSso("tick") /\ SpendSso("tick")
    /\ \A c \in Callers : ~In(c, "verify") /\ ~In(c, "fetched")
    /\ jwks' = [jwks EXCEPT !.since = IF @ < CacheTTL THEN @ + 1 ELSE @]
    /\ cached' = [cached EXCEPT !.age = IF @ < CacheTTL THEN @ + 1 ELSE @]
    /\ UNCHANGED <<rowVars, sent, grants, call, logins, shown>>

\* A person signs in at the provider and gets the code of that sign-in.
Authorize(s, who) ==
    /\ who.iss = sent[s].issuer /\ sent[s].who = Nobody
    /\ sent' = [sent EXCEPT ![s].who = who]
    /\ grants' = grants \cup {[state |-> s, who |-> who]}
    /\ UNCHANGED <<senv, rowVars, jwks, cached, call, logins, shown>>

-----------------------------------------------------------------------------
(* Starting a sign-in.                                                     *)

Start(c) ==
    /\ In(c, "free") /\ CanSso("start") /\ SpendSso("start")
    /\ provider.enabled /\ Metadata(provider.issuer)
    /\ Enter(c, [Free EXCEPT !.pc = "request", !.p = provider])
    /\ UNCHANGED <<rowVars, idpVars, logins, shown>>

\* The row references the provider, which may have been deleted meanwhile.
CreateAuthRequest(c) ==
    /\ In(c, "request")
    /\ IF provider.id = call[c].p.id
       THEN /\ sent' = Append(sent, [issuer |-> call[c].p.issuer, who |-> Nobody,
                                     enrolled |-> {u \in Users : account[u].factor}])
            /\ authRequests' = authRequests \cup
                   {[state |-> Len(sent) + 1, provider |-> provider.id, live |-> TRUE]}
       ELSE UNCHANGED <<sent, authRequests>>
    /\ End(c)
    /\ UNCHANGED <<senv, provider, account, role, identities, pendings, grants, jwks, cached, logins, shown>>

-----------------------------------------------------------------------------
(* The callback.                                                           *)

\* DELETE ... RETURNING: reading the row spends it.
ConsumeAuthRequest(s) == authRequests' = {q \in authRequests : q.state # s}

Callback(c, q, g) ==
    /\ In(c, "free") /\ q.live
    /\ ConsumeAuthRequest(q.state)
    /\ Enter(c, [Free EXCEPT !.pc = "load", !.st = q.state, !.code = g, !.prov = q.provider])
    /\ UNCHANGED <<senv, provider, account, role, identities, pendings, idpVars, logins, shown>>

\* Where a request continues once its provider is loaded and enabled.
AfterLoad(r) == CASE r.kind = "none" -> "exchange" [] r.kind = "totp" -> "code" [] OTHER -> "password"

LoadProvider(c) ==
    LET r == call[c] IN
    /\ In(c, "load")
    /\ IF /\ provider.id = r.prov /\ provider.enabled
          /\ r.kind = "none" => Metadata(provider.issuer)
          /\ r.kind = "link" => provider.linking
       THEN Enter(c, [r EXCEPT !.pc = AfterLoad(r), !.p = provider])
       ELSE End(c)
    /\ OnlyCall

\* The token endpoint honours a code once, for a client with the right secret
\* and, unless it ignores PKCE, only with the verifier of the code's sign-in.
Exchange(c) ==
    LET r == call[c] IN
    /\ In(c, "exchange")
    /\ IF /\ r.p.issuer = r.code.who.iss /\ r.p.secret = senv.secret
          /\ r.code \in grants
          /\ senv.pkce => r.code.state = r.st
       THEN /\ grants' = grants \ {r.code}
            /\ \E flaw \in senv.flaws : Enter(c, [r EXCEPT !.pc = "verify", !.key = jwks.key, !.flaw = flaw])
       ELSE UNCHANGED grants /\ End(c)
    /\ UNCHANGED <<senv, rowVars, sent, jwks, cached, logins, shown>>

\* The issuer; audience, authorized party and times (flaw); the nonce.
validate(r) ==
    /\ r.code.who.iss = r.p.issuer
    /\ r.flaw = "none"
    /\ r.code.state = r.st

VerifyIDToken(c) ==
    /\ In(c, "claims")
    /\ IF validate(call[c]) /\ Who(c).addr # "none" THEN Go(c, "resolve") ELSE End(c)
    /\ OnlyCall

BoundSubject(prov, sub) == {i \in identities : i.provider = prov /\ i.sub = sub}
BoundUser(prov, u) == {i \in identities : i.provider = prov /\ i.user = u}

GetIdentity(c) ==
    LET p == call[c].p
        bound == BoundSubject(p.id, Who(c).sub)
    IN /\ In(c, "resolve")
       /\ IF bound = {} THEN Go(c, "find")
          ELSE \E i \in bound : Enter(c, [call[c] EXCEPT !.pc = IF p.jit THEN "member" ELSE "touch",
                                                         !.user = i.user, !.ident = i.id])
       /\ OnlyCall

isAssignableRole(r) == r \in {"admin", "member", "guest"}
rolePrivilege(r) == CASE r = "admin" -> 3 [] r = "member" -> 2 [] r = "guest" -> 1 [] OTHER -> 0

\* The most privileged role the person's groups map to, and whether any did.
resolveRole(p, who) ==
    LET mapped == {r \in {p.mapping[g] : g \in who.groups \cap DOMAIN p.mapping} : isAssignableRole(r)}
    IN IF mapped = {} THEN [role |-> p.fallback, asserted |-> FALSE]
       ELSE [role |-> CHOOSE r \in mapped : \A o \in mapped : rolePrivilege(o) <= rolePrivilege(r),
             asserted |-> TRUE]

\* A completed link asserts no role: it only makes the account a member.
RoleFor(c) == IF call[c].kind = "link" THEN [role |-> call[c].p.fallback, asserted |-> FALSE]
              ELSE resolveRole(call[c].p, Who(c))

\* EnsureMembership, its first statement: an insert that yields to a row.
EnsureMembership(c) ==
    LET u == call[c].user
        was == role[u]
    IN /\ In(c, "member")
       /\ role' = IF was = "none" THEN [role EXCEPT ![u] = RoleFor(c).role] ELSE role
       /\ Go(c, CASE was # "none" /\ RoleFor(c).asserted -> "sync"
                  [] call[c].kind = "link" -> "issue"
                  [] OTHER -> "touch")
       /\ UNCHANGED <<senv, provider, account, identities, authRequests, pendings, idpVars, logins, shown>>

\* A fault: the predicate of the UPDATE forgets the owner.
SyncableOwnersToo(u) == role[u] # "none"
\* The rows its second statement may update: never an owner's.
Syncable(u) == role[u] \notin {"none", "owner"}

SyncRole(c) ==
    LET u == call[c].user IN
    /\ In(c, "sync")
    /\ role' = IF Syncable(u) THEN [role EXCEPT ![u] = RoleFor(c).role] ELSE role
    /\ Go(c, "touch")
    /\ UNCHANGED <<senv, provider, account, identities, authRequests, pendings, idpVars, logins, shown>>

TouchIdentity(c) ==
    /\ In(c, "touch")
    /\ identities' = {IF i.id = call[c].ident THEN [i EXCEPT !.addr = Who(c).addr] ELSE i : i \in identities}
    /\ Go(c, "active")
    /\ UNCHANGED <<senv, provider, account, role, authRequests, pendings, idpVars, logins, shown>>

\* The address is compared without its case.
Matches(addr) == {u \in Users : account[u].addr = addr}

\* No match may provision, one is challenged, two are refused.
FindLocalAccountByEmail(c) ==
    LET p == call[c].p
        found == Matches(Who(c).addr)
    IN /\ In(c, "find")
       /\ CASE found = {} -> IF p.jit /\ (p.verified => Who(c).verified) THEN Go(c, "provision") ELSE End(c)
            [] Cardinality(found) > 1 -> End(c)
            [] OTHER -> \E u \in found :
                   IF p.linking /\ account[u].active /\ account[u].password
                   THEN Enter(c, [call[c] EXCEPT !.pc = "challenge", !.user = u])
                   ELSE End(c)
       /\ OnlyCall

IdentityOf(c, u, born) ==
    [id |-> NextId({i.id : i \in identities}), provider |-> call[c].p.id, sub |-> Who(c).sub, user |-> u,
     addr |-> Who(c).addr, st |-> call[c].st, proved |-> call[c].proved, born |-> born]

newPending(c, kind) ==
    /\ pendings' = IF provider.id = call[c].p.id
                   THEN pendings \cup {[token |-> NextId({q.token : q \in pendings}), provider |-> provider.id,
                                        user |-> call[c].user, kind |-> kind, live |-> TRUE,
                                        st |-> call[c].st, code |-> call[c].code]}
                   ELSE pendings
    /\ End(c)

\* The challenge binds nothing: it leaves a token that only the holder of the
\* account's password and second factor can complete.
challengeLink(c) ==
    /\ In(c, "challenge")
    /\ newPending(c, "link")
    /\ UNCHANGED <<senv, provider, account, role, identities, authRequests, idpVars, logins, shown>>

Unused == {u \in Users : account[u] = NoAccount}

\* One transaction: the account, its membership and its identity, or nothing.
\* users.email is unique as it is spelled, an identity by its subject.
ProvisionUser(c) ==
    LET p == call[c].p
        who == Who(c)
        u == CHOOSE n \in Unused : \A m \in Unused : n <= m
    IN /\ In(c, "provision") /\ Unused # {}
       /\ IF /\ \A n \in Matches(who.addr) : account[n].exact # "lower"
             /\ provider.id = p.id /\ BoundSubject(p.id, who.sub) = {}
          THEN /\ account' = [account EXCEPT ![u] = [addr |-> who.addr, exact |-> "lower", active |-> TRUE,
                                                     password |-> FALSE, factor |-> FALSE]]
               /\ role' = [role EXCEPT ![u] = resolveRole(p, who).role]
               /\ identities' = identities \cup {IdentityOf(c, u, TRUE)}
               /\ Enter(c, [call[c] EXCEPT !.pc = "active", !.user = u])
          ELSE UNCHANGED <<account, role, identities>> /\ End(c)
       /\ UNCHANGED <<senv, provider, authRequests, pendings, idpVars, logins, shown>>

-----------------------------------------------------------------------------
(* From an assertion to a session.                                         *)

IsActive(c) ==
    /\ In(c, "active")
    /\ IF account[call[c].user].active
       THEN Go(c, CASE call[c].kind = "none" -> "factor" [] call[c].kind = "totp" -> "issue" [] OTHER -> "bind")
       ELSE End(c)
    /\ OnlyCall

\* The provider's own second factor counts when the row trusts it and the
\* token carries the evidence the row asks for: an acr, or any amr of a second factor.
Asked(p) == IF ~p.trust THEN "nothing" ELSE IF p.acr = "none" THEN "amr" ELSE p.acr
idpSatisfiedMFA(p, who) == p.trust /\ Asked(p) \in who.evidence

finish(c) ==
    /\ In(c, "factor")
    /\ Go(c, IF account[call[c].user].factor /\ ~idpSatisfiedMFA(call[c].p, Who(c)) THEN "park" ELSE "issue")
    /\ OnlyCall

ParkForSecondFactor(c) ==
    /\ In(c, "park")
    /\ newPending(c, "totp")
    /\ UNCHANGED <<senv, provider, account, role, identities, authRequests, idpVars, logins, shown>>

\* IssueSSOSession reads is_active once more.
issue(c) ==
    /\ In(c, "issue")
    /\ logins' = IF account[call[c].user].active
                 THEN Append(logins, [st |-> call[c].st, user |-> call[c].user, who |-> Who(c),
                                      proved |-> call[c].proved, trust |-> Asked(call[c].p)])
                 ELSE logins
    /\ End(c)
    /\ UNCHANGED <<senv, rowVars, idpVars, shown>>

\* A fault: the row is read and stays.
ConsumePendingLoginByReading(q) == UNCHANGED pendings
\* DELETE ... RETURNING again, for the kind the row was made for.
ConsumePendingLogin(q) == pendings' = pendings \ {q}

consumePending(c, q, kind) ==
    /\ In(c, "free") /\ q.live /\ q.kind = kind
    /\ ConsumePendingLogin(q)
    /\ Enter(c, [Free EXCEPT !.pc = "load", !.kind = q.kind, !.st = q.st, !.code = q.code, !.prov = q.provider,
                             !.user = q.user])
    /\ UNCHANGED <<senv, provider, account, role, identities, authRequests, idpVars, logins, shown>>

CompleteTOTP(c, q) == consumePending(c, q, "totp")
CompleteLink(c, q) == consumePending(c, q, "link")

VerifyPassword(c, ok) ==
    LET a == account[call[c].user] IN
    /\ In(c, "password")
    /\ IF ok /\ a.active /\ a.password
       THEN Enter(c, [call[c] EXCEPT !.pc = "needs", !.proved = {"password"}])
       ELSE End(c)
    /\ OnlyCall

SecondFactorEnabled(c) ==
    /\ In(c, "needs")
    /\ Go(c, IF account[call[c].user].factor THEN "code" ELSE "active")
    /\ OnlyCall

ConsumeSecondFactor(c, ok) ==
    /\ In(c, "code")
    /\ IF ok /\ account[call[c].user].factor
       THEN Enter(c, [call[c] EXCEPT !.pc = "active", !.proved = @ \cup {"factor"}])
       ELSE End(c)
    /\ OnlyCall

\* Both unique constraints of sso_identities refuse a second binding.
LinkIdentity(c) ==
    LET r == call[c] IN
    /\ In(c, "bind")
    /\ IF provider.id = r.p.id /\ BoundSubject(r.p.id, Who(c).sub) = {} /\ BoundUser(r.p.id, r.user) = {}
       THEN /\ identities' = identities \cup {IdentityOf(c, r.user, FALSE)}
            /\ Go(c, IF r.p.jit THEN "member" ELSE "issue")
       ELSE UNCHANGED identities /\ End(c)
    /\ UNCHANGED <<senv, provider, account, role, authRequests, pendings, idpVars, logins, shown>>

\* A statement or a call to the provider fails: the request stops where it is.
RequestFails(c) ==
    /\ ~In(c, "free") /\ CanSso("fail") /\ SpendSso("fail")
    /\ End(c)
    /\ UNCHANGED <<rowVars, idpVars, logins, shown>>

-----------------------------------------------------------------------------
(* Rows nobody comes back for.                                             *)

ExpirePending(q) ==
    /\ CanSso("expire") /\ SpendSso("expire") /\ q.live
    /\ authRequests' = {IF o = q THEN [o EXCEPT !.live = FALSE] ELSE o : o \in authRequests}
    /\ pendings' = {IF o = q THEN [o EXCEPT !.live = FALSE] ELSE o : o \in pendings}
    /\ UNCHANGED <<provider, account, role, identities, idpVars, call, logins, shown>>

CleanExpiredAuthRequests ==
    /\ \E q \in authRequests : ~q.live
    /\ authRequests' = {q \in authRequests : q.live}
    /\ UNCHANGED <<senv, provider, account, role, identities, pendings, idpVars, call, logins, shown>>

CleanExpiredPendingLogins ==
    /\ \E q \in pendings : ~q.live
    /\ pendings' = {q \in pendings : q.live}
    /\ UNCHANGED <<senv, provider, account, role, identities, authRequests, idpVars, call, logins, shown>>

-----------------------------------------------------------------------------
(* Administration.                                                         *)

requireAdmin == {u \in Users : role[u] \in {"admin", "owner"}}

\* What a save writes: a flag that was not sent is the stored one as it was
\* read, and enabling asks the issuer for its discovery document first.
boolOr(v, fallback) == IF v = "keep" THEN fallback ELSE v = "on"
DiscoveredIfEnabled(issuer, enabled) == enabled => Metadata(issuer)

validateSaveInput(in) ==
    /\ in.issuer # "none" /\ isAssignableRole(in.fallback)
    /\ \A g \in DOMAIN in.mapping : isAssignableRole(in.mapping[g])

Merged(in) == [issuer |-> in.issuer, secret |-> in.secret, acr |-> in.acr, fallback |-> in.fallback,
               mapping |-> in.mapping, enabled |-> boolOr(in.enabled, provider.enabled),
               jit |-> boolOr(in.jit, provider.jit), linking |-> boolOr(in.linking, provider.linking),
               verified |-> boolOr(in.verified, provider.verified), trust |-> boolOr(in.trust, provider.trust)]

SaveReads(c, in) ==
    /\ In(c, "free") /\ CanSso("save") /\ SpendSso("save") /\ requireAdmin # {}
    /\ validateSaveInput(in)
    /\ DiscoveredIfEnabled(in.issuer, Merged(in).enabled)
    /\ Enter(c, [Free EXCEPT !.pc = "save", !.in = Merged(in)])
    /\ UNCHANGED <<rowVars, idpVars, logins, shown>>

\* One upsert.  It never sets enforced, but clears it with enabled, and it
\* keeps the secret that none was sent for.
SaveProvider(c) ==
    LET in == call[c].in
        new == [id |-> provider.id, issuer |-> in.issuer, enabled |-> in.enabled,
                enforced |-> provider.enforced /\ in.enabled, jit |-> in.jit, linking |-> in.linking,
                verified |-> in.verified, trust |-> in.trust, acr |-> in.acr, fallback |-> in.fallback,
                mapping |-> in.mapping,
                secret |-> IF in.secret \in {"keep", "clear"} THEN provider.secret ELSE in.secret]
    IN /\ In(c, "save")
       /\ provider' = IF provider.id = 0 THEN [new EXCEPT !.id = senv.nextId] ELSE new
       /\ senv' = IF provider.id = 0 THEN [senv EXCEPT !.nextId = @ + 1] ELSE senv
       /\ IF in.secret = "clear" THEN Enter(c, [call[c] EXCEPT !.pc = "clear", !.prov = provider'.id]) ELSE End(c)
       /\ UNCHANGED <<account, role, identities, authRequests, pendings, idpVars, logins, shown>>

ClearClientSecret(c) ==
    /\ In(c, "clear")
    /\ provider' = IF provider.id = call[c].prov THEN [provider EXCEPT !.secret = "none"] ELSE provider
    /\ End(c)
    /\ UNCHANGED <<senv, account, role, identities, authRequests, pendings, idpVars, logins, shown>>

\* The row's identities, requests and half-finished sign-ins go with it.
DeleteProvider ==
    /\ CanSso("delete") /\ SpendSso("delete") /\ requireAdmin # {} /\ provider.id # 0
    /\ provider' = NoProvider
    /\ identities' = {i \in identities : i.provider # provider.id}
    /\ authRequests' = {q \in authRequests : q.provider # provider.id}
    /\ pendings' = {q \in pendings : q.provider # provider.id}
    /\ UNCHANGED <<account, role, idpVars, call, logins, shown>>

\* Enforcing takes an enabled provider and an administrator bound to it.
SetEnforcement(c, u, on) ==
    /\ In(c, "free") /\ CanSso("enforce") /\ SpendSso("enforce")
    /\ u \in requireAdmin /\ provider.id # 0
    /\ on => provider.enabled /\ BoundUser(provider.id, u) # {}
    /\ Enter(c, [Free EXCEPT !.pc = "enforce", !.p = provider, !.on = on])
    /\ shown' = IF on THEN shown \cup {<<provider.id, provider.issuer>>} ELSE shown
    /\ UNCHANGED <<rowVars, idpVars, logins>>

\* The row the write is for, and the condition it carries.
EnforceableRow(r) == provider.id = r.p.id /\ (r.on => provider.enabled)

WriteEnforced(c) ==
    /\ In(c, "enforce")
    /\ provider' = IF EnforceableRow(call[c]) THEN [provider EXCEPT !.enforced = call[c].on] ELSE provider
    /\ End(c)
    /\ UNCHANGED <<senv, account, role, identities, authRequests, pendings, idpVars, logins, shown>>

-----------------------------------------------------------------------------
(* What else changes accounts and memberships.                             *)

\* Somebody else who administers the workspace takes an account out of use, or back.
setActive(u) ==
    /\ CanSso("flip") /\ SpendSso("flip") /\ account[u] # NoAccount /\ requireAdmin \ {u} # {}
    /\ account' = [account EXCEPT ![u].active = ~@]
    /\ UNCHANGED <<provider, role, identities, authRequests, pendings, idpVars, call, logins, shown>>

\* The write of EnableTOTP carries no condition: the secret was looked at before.
EnableTOTP(u) ==
    /\ CanSso("enrol") /\ SpendSso("enrol") /\ account[u] # NoAccount
    /\ account' = [account EXCEPT ![u].factor = TRUE]
    /\ UNCHANGED <<provider, role, identities, authRequests, pendings, idpVars, call, logins, shown>>

\* The factor goes: the person disables it, or sets up another one, which does not count
\* until it is enabled.
Unenrol(u) ==
    /\ account[u].factor
    /\ account' = [account EXCEPT ![u].factor = FALSE]
    /\ sent' = [s \in DOMAIN sent |-> [sent[s] EXCEPT !.enrolled = @ \ {u}]]
    /\ UNCHANGED <<provider, role, identities, authRequests, pendings, grants, jwks, cached, call, logins, shown>>
DisableTOTP(u) == CanSso("disable") /\ SpendSso("disable") /\ Unenrol(u)
SetupTOTP(u) == CanSso("setup") /\ SpendSso("setup") /\ Unenrol(u)

\* Invitations into this workspace or another one; the address is in lower case.
Invitations == [addr : {who.addr : who \in People} \ {"none"}, role : {"admin", "member", "guest"}, here : BOOLEAN]

\* The invitation, the enforcement and the account of that very address are read; who has
\* one proves to be its holder.
AcceptInvite(c, i) ==
    LET found == {u \in Matches(i.addr) : account[u].exact = "lower"} IN
    /\ In(c, "free") /\ i \in senv.invites
    /\ i.here => ~provider.enforced
    /\ \A u \in found : account[u].active
    /\ \E u \in IF found = {} THEN {0} ELSE found :
          Enter(c, [Free EXCEPT !.pc = "join", !.inv = i, !.user = u])
    /\ OnlyCall

\* Its transaction: the account with its password if there was none, the membership that
\* yields to a row, and the invitation spent, or nothing.
JoinWorkspace(c) ==
    LET i == call[c].inv
        new == call[c].user = 0
        u == IF new THEN CHOOSE n \in Unused : \A m \in Unused : n <= m ELSE call[c].user
    IN /\ In(c, "join") /\ (new => Unused # {})
       /\ IF i \in senv.invites /\ ~(new /\ \E n \in Matches(i.addr) : account[n].exact = "lower")
          THEN /\ account' = IF new THEN [account EXCEPT ![u] = [addr |-> i.addr, exact |-> "lower", active |-> TRUE,
                                                                password |-> TRUE, factor |-> FALSE]]
                             ELSE account
               /\ role' = IF i.here /\ role[u] = "none" THEN [role EXCEPT ![u] = i.role] ELSE role
               /\ senv' = [senv EXCEPT !.invites = @ \ {i}]
          ELSE UNCHANGED <<senv, account, role>>
       /\ End(c)
       /\ UNCHANGED <<provider, identities, authRequests, pendings, idpVars, logins, shown>>

\* The guards of the statements: nobody but TransferOwnership touches an owner's row.
TransferOwnership(u) ==
    /\ CanSso("transfer") /\ SpendSso("transfer") /\ role[u] \notin {"none", "owner"}
    /\ role' = [n \in Users |-> IF n = u THEN "owner" ELSE IF role[n] = "owner" THEN "admin" ELSE role[n]]
    /\ UNCHANGED <<provider, account, identities, authRequests, pendings, idpVars, call, logins, shown>>

RemoveMember(u) ==
    /\ CanSso("evict") /\ SpendSso("evict") /\ role[u] \notin {"none", "owner"}
    /\ role' = [role EXCEPT ![u] = "none"]
    /\ UNCHANGED <<provider, account, identities, authRequests, pendings, idpVars, call, logins, shown>>

UpdateMemberRole(u, r) ==
    /\ CanSso("promote") /\ SpendSso("promote") /\ role[u] \notin {"none", "owner", r}
    /\ role' = [role EXCEPT ![u] = r]
    /\ UNCHANGED <<provider, account, identities, authRequests, pendings, idpVars, call, logins, shown>>

ChangeAccount(u) == setActive(u) \/ EnableTOTP(u) \/ DisableTOTP(u) \/ SetupTOTP(u)
ChangeMembership(u) ==
    TransferOwnership(u) \/ RemoveMember(u) \/ \E r \in {"admin", "member", "guest"} : UpdateMemberRole(u, r)

-----------------------------------------------------------------------------
SignInStep(c) ==
    \/ Start(c) \/ CreateAuthRequest(c)
    \/ \E q \in authRequests, g \in grants : Callback(c, q, g)
    \/ LoadProvider(c) \/ Exchange(c) \/ Key(c) \/ fetchKeys(c) \/ StoreKeys(c) \/ VerifyIDToken(c)
    \/ GetIdentity(c) \/ EnsureMembership(c) \/ SyncRole(c) \/ TouchIdentity(c)
    \/ FindLocalAccountByEmail(c) \/ challengeLink(c) \/ ProvisionUser(c)
    \/ IsActive(c) \/ finish(c) \/ ParkForSecondFactor(c) \/ issue(c)
    \/ \E q \in pendings : CompleteTOTP(c, q) \/ CompleteLink(c, q)
    \/ \E ok \in BOOLEAN : VerifyPassword(c, ok) \/ ConsumeSecondFactor(c, ok)
    \/ SecondFactorEnabled(c) \/ LinkIdentity(c) \/ RequestFails(c)

AdminStep(c) ==
    \/ \E in \in senv.saves : SaveReads(c, in)
    \/ SaveProvider(c) \/ ClearClientSecret(c)
    \/ \E u \in Users, on \in BOOLEAN : SetEnforcement(c, u, on)
    \/ WriteEnforced(c)

SsoNext ==
    \/ \E c \in Callers : SignInStep(c) \/ AdminStep(c) \/ JoinWorkspace(c)
    \/ \E c \in Callers, i \in Invitations : AcceptInvite(c, i)
    \/ Rotate \/ TimePasses
    \/ \E s \in DOMAIN sent, who \in People : Authorize(s, who)
    \/ \E q \in authRequests \cup pendings : ExpirePending(q)
    \/ CleanExpiredAuthRequests \/ CleanExpiredPendingLogins \/ DeleteProvider
    \/ \E u \in Users : ChangeAccount(u) \/ ChangeMembership(u)

SsoSpec == SsoInit /\ [][SsoNext]_ssovars

-----------------------------------------------------------------------------
(* Properties.                                                             *)

\* A sign-in yields at most one session, however often its state is called
\* back and its second step completed, and the session is its own: of the
\* person who completed that sign-in at the provider, whatever code the
\* callback carried, and of an account which, if it was enrolled in a second
\* factor all the time since the sign-in began, presented it or came with evidence
\* that the provider row trusts, though factors come and go and the row is edited.
SessionsAreEarned ==
    /\ \A j, k \in DOMAIN logins : logins[j].st = logins[k].st => j = k
    /\ \A k \in DOMAIN logins :
          LET l == logins[k] IN
          /\ sent[l.st].who = l.who
          /\ l.user \in sent[l.st].enrolled => "factor" \in l.proved \/ l.trust \in l.who.evidence

\* A subject is bound to the account it was provisioned with, or to one whose
\* password, and second factor where enrolled throughout, was given for it; one subject
\* per account and one account per subject, though the same person may be
\* signing in twice while somebody accepts an invitation for the address.
BoundByProof ==
    /\ \A i \in identities :
          i.born \/ ("password" \in i.proved /\ (i.user \in sent[i.st].enrolled => "factor" \in i.proved))
    /\ \A i, j \in identities :
          i.provider = j.provider /\ (i.sub = j.sub \/ i.user = j.user) => i = j

\* Signing in never makes or unmakes an owner, not even one who became owner
\* between its two statements, and changes a member's role only to one the
\* provider asserts: a default never demotes.
SignInKeepsRoles ==
    [][\A u \in Users, c \in Callers :
          role'[u] # role[u] /\ call'[c] # call[c] =>
              /\ role[u] # "owner" /\ role'[u] # "owner"
              /\ role[u] # "none" => resolveRole(call[c].p, Who(c)) = [role |-> role'[u], asserted |-> TRUE]]_ssovars

\* Passwords are only ever switched off by somebody who signs in through this
\* very provider row, though it may be deleted and made again meanwhile; and
\* an enabled provider answered discovery.
EnforcedWasShown ==
    /\ provider.enforced => provider.enabled /\ \E s \in shown : s[1] = provider.id
    /\ provider.enabled => Metadata(provider.issuer)

\* A token of the key the provider publishes is refused for its key only just
\* after the rotation, however the requests share and replace the key set.
RotationIsFollowed ==
    \A c \in Callers : In(c, "verify") /\ call[c].key = jwks.key /\ jwks.since >= MinRefresh => ~KeyRefused(call[c].key)

\* Sessions, identities and enforcement rest on sign-ins that happened.
SignInSound == SessionsAreEarned /\ BoundByProof /\ EnforcedWasShown /\ RotationIsFollowed

\* What service.go says of the lockout guard: enforcement means that somebody
\* has signed in through the provider that is now the only way in.
EnforcedIssuerWasShown == provider.enforced => <<provider.id, provider.issuer>> \in shown
=============================================================================
