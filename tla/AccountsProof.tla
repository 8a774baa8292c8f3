---------------------------- MODULE AccountsProof ---------------------------
(***************************************************************************)
(* Proofs about accounts: sessions (AuthSession) and single sign-on        *)
(* (SingleSignOn), for any number of accounts, concurrent requests, people *)
(* and rows, and any bounds and budgets.                                   *)
(***************************************************************************)
EXTENDS AuthSession, SingleSignOn, FunctionTheorems, FiniteSetTheorems, WellFoundedInduction, TLAPS

(* Sessions.                                                               *)

(* The inductive invariant, in parts.                                      *)

\* The types of AuthTypeOK; that a token has one row is a part of RowsInv.
BoundsInv ==
    /\ aenv \in AuthEnvironments
    /\ enforced \in BOOLEAN /\ switches \in 0..MaxSwitches /\ now \in 1..MaxStep
    /\ issued \in 0..MaxTokens /\ secrets \in 0..MaxSecrets /\ enrolled \in Nat
    /\ revoked \in 0..MaxPasswords
UserInv ==
    /\ user \in [active : BOOLEAN, pw : 1..MaxPasswords, secret : 0..MaxSecrets,
                 enabled : BOOLEAN, lastStep : Nat]
    /\ user.lastStep <= now + Skew
SecondFactorInv ==
    /\ codes \subseteq [id : Nat, used : BOOLEAN]
    /\ spent \subseteq [factor : Factors, times : Nat]
SignInInv ==
    /\ sessions \subseteq Session
    /\ req \in [Requests -> Request]

\* A request that is not running holds nothing, and only a refresh holds a row.
IdleInv ==
    \A r \in Requests :
        /\ req[r].at = "idle" => req[r] = Idle
        /\ req[r].op # "refresh" => req[r].token = 0

\* Tokens and roots were issued, and each of them names one row.
RowsInv ==
    /\ \A s \in sessions : s.token <= issued /\ s.root <= issued
    /\ \A s, t \in sessions : s.token = t.token \/ s.root = t.root => s = t

\* A refresh holds its token alone; the row it holds, as long as it is there, is
\* the only one of its sign-in.
HeldInv ==
    /\ \A r \in Requests : req[r].op = "refresh" =>
          /\ req[r].token \in 1..issued /\ req[r].root \in 1..issued
          /\ \A s \in sessions : s.token = req[r].token <=> s.root = req[r].root
    /\ \A q, r \in Requests :
          /\ req[q].op = "refresh" /\ req[r].op = "refresh"
          /\ req[q].token = req[r].token \/ req[q].root = req[r].root
          => q = r

\* What a request has seen of the rules when it comes to the step that relies on
\* it: a rule that holds now has been seen by everyone who runs.
SeenInv ==
    \A r \in Requests :
        /\ req[r].at # "idle" /\ user.active => req[r].sawActive
        /\ req[r].at # "idle" /\ ~enforced => req[r].sawOpen
        /\ req[r].op \in {"login", "sso"} => req[r].sawActive
        /\ req[r].op = "sso" => req[r].method = "sso"
        /\ req[r].at \in {"gate", "active", "mint"} => req[r].sawActive
        /\ req[r].at = "mint" => req[r].method = "sso" \/ req[r].sawOpen

\* A TOTP factor that was used is not after the last step burned, a backup code
\* that was used is of an enrolment so far, and a row that says unused is unused.
FactorInv ==
    /\ \A e \in spent :
          /\ e.factor.kind = "totp" => e.factor.n <= user.lastStep
          /\ e.factor.kind = "backup" => e.factor.of <= enrolled
    /\ \A c \in codes : c.id <= enrolled
    /\ \A c, d \in codes : c.id = d.id => c = d
    /\ \A c \in codes, e \in spent :
          ~c.used /\ e.factor.kind = "backup" => e.factor.of # c.id

\* The inductive invariant of an account: its requests and sessions, and its user
\* row and second factor.
SignInIInv ==
    /\ SignInInv /\ IdleInv /\ RowsInv /\ HeldInv /\ SeenInv /\ OnlyAdmitted
AccountIInv ==
    /\ BoundsInv /\ UserInv /\ SecondFactorInv /\ FactorInv /\ FactorSpentOnce
AuthIInv == SignInIInv /\ AccountIInv

-----------------------------------------------------------------------------
(* What the invariant implies.                                             *)

\* The bounds of a behaviour are numbers, and Idle is a request.
LEMMA BoundTypes ==
    ASSUME aenv \in AuthEnvironments
    PROVE  /\ MaxTokens \in Nat /\ MaxPasswords \in Nat /\ MaxSecrets \in Nat
           /\ MaxStep \in Nat /\ MaxSwitches \in Nat
           /\ MaxPasswords > 0 /\ MaxStep > 0 /\ Skew \in Nat
           /\ Idle \in Request
<1>1. /\ MaxTokens \in Nat /\ MaxPasswords \in Nat /\ MaxSecrets \in Nat
      /\ MaxStep \in Nat /\ MaxSwitches \in Nat
      /\ MaxPasswords > 0 /\ MaxStep > 0 /\ Skew \in Nat
  BY AuthAssumption DEF MaxTokens, MaxPasswords, MaxSecrets, MaxStep, MaxSwitches
<1>2. Idle \in Request
  BY <1>1, SMT DEF Idle, Request, Methods, AllOps
<1> QED
  BY <1>1, <1>2

\* One row per token makes the tokens as many as the rows.
LEMMA TokensCount ==
    ASSUME aenv \in AuthEnvironments, sessions \subseteq Session, RowsInv
    PROVE  Cardinality(Tokens) = Cardinality(sessions)
<1> DEFINE rowOf == [t \in Tokens |-> CHOOSE s \in sessions : s.token = t]
<1>1. \A t \in Tokens : rowOf[t] \in sessions /\ rowOf[t].token = t
  BY DEF Tokens
<1>2. \A s \in sessions : s.token \in Tokens /\ rowOf[s.token] = s
  BY <1>1 DEF Tokens, RowsInv
<1>3. rowOf \in Bijection(Tokens, sessions)
  <2>1. rowOf \in [Tokens -> sessions]
    BY <1>1
  <2>2. \A t, u \in Tokens : rowOf[t] = rowOf[u] => t = u
    BY <1>1
  <2> HIDE DEF rowOf
  <2>3. QED
    BY <1>2, <2>1, <2>2 DEF Bijection, Injection, IsInjective, Surjection
<1>4. Tokens \subseteq 1..MaxTokens
  BY DEF Tokens, Session
<1>5. IsFiniteSet(Tokens)
  <2>1. MaxTokens \in Nat
    BY BoundTypes
  <2>2. IsFiniteSet(1..MaxTokens)
    BY <2>1, FS_Interval
  <2> QED
    BY <1>4, <2>2, FS_Subset
<1> QED
  BY <1>3, <1>5, FS_Bijection DEF ExistsBijection

\* The inductive invariant implies the two properties.
LEMMA AuthInvImplies ==
    ASSUME AuthIInv
    PROVE  SessionsSound /\ FactorSpentOnce
<1>1. AuthTypeOK
  BY TokensCount DEF AuthIInv, SignInIInv, AccountIInv, SignInInv, BoundsInv, UserInv,
     SecondFactorInv, AuthTypeOK
<1>2. OneSessionPerSignIn
  BY DEF AuthIInv, SignInIInv, RowsInv, OneSessionPerSignIn
<1> QED
  BY <1>1, <1>2 DEF AuthIInv, SignInIInv, AccountIInv, SessionsSound

-----------------------------------------------------------------------------
(* How a step of one request changes the sessions and the requests.        *)

\* The replaced request is the only one that changes.
LEMMA RequestReplaced ==
    ASSUME SignInInv, NEW r \in Requests, NEW q \in Request, UNCHANGED aenv,
           req' = [req EXCEPT ![r] = q]
    PROVE  /\ req' \in [Requests -> Request] /\ Request' = Request
           /\ req'[r] = q
           /\ \A p \in Requests : p # r => req'[p] = req[p]
<1>1. Request' = Request
  BY DEF Request, MaxPasswords, MaxSecrets, MaxTokens
<1> QED
  BY <1>1 DEF SignInInv

\* Rows that go, or change in nothing but their expiry, leave the rows sound.
LEMMA RowsShrink ==
    ASSUME SignInInv, RowsInv, OnlyAdmitted, UNCHANGED <<aenv, issued>>,
           sessions' \subseteq sessions
    PROVE  sessions' \subseteq Session' /\ RowsInv' /\ OnlyAdmitted'
<1>1. Session' = Session
  BY DEF Session, MaxPasswords, MaxTokens
<1> QED
  BY <1>1 DEF SignInInv, RowsInv, OnlyAdmitted

\* A request that goes on with what it holds and what it has seen.
LEMMA RequestGoesOn ==
    ASSUME SignInIInv, NEW r \in Requests, NEW q \in Request,
           req' = [req EXCEPT ![r] = q],
           UNCHANGED <<aenv, issued, enforced>>, user'.active = user.active,
           sessions' \subseteq sessions,
           req[r].at # "idle", q.at # "idle",
           q.op = req[r].op, q.token = req[r].token, q.root = req[r].root,
           q.method = req[r].method, q.sawActive = req[r].sawActive,
           q.sawOpen = req[r].sawOpen,
           q.at \in {"gate", "active", "mint"} => q.sawActive,
           q.at = "mint" => q.method = "sso" \/ q.sawOpen
    PROVE  SignInIInv'
<1> USE DEF SignInIInv
<1>1. /\ req' \in [Requests -> Request] /\ Request' = Request
      /\ req'[r] = q /\ \A p \in Requests : p # r => req'[p] = req[p]
  BY RequestReplaced
<1>2. sessions' \subseteq Session' /\ RowsInv' /\ OnlyAdmitted'
  BY RowsShrink
<1>3. IdleInv'
  BY <1>1 DEF IdleInv
<1>4. HeldInv'
  <2>1. \A p \in Requests : /\ req'[p].op = req[p].op /\ req'[p].token = req[p].token
                            /\ req'[p].root = req[p].root
    BY <1>1
  <2> QED
    BY <2>1 DEF HeldInv
<1>5. SeenInv'
  BY <1>1 DEF SeenInv
<1> QED
  BY <1>1, <1>2, <1>3, <1>4, <1>5 DEF SignInInv

\* A request that ends, with rows that go.
LEMMA RequestStops ==
    ASSUME SignInIInv, NEW r \in Requests, Stop(r), aenv \in AuthEnvironments,
           UNCHANGED <<aenv, issued, enforced>>, user'.active => user.active,
           sessions' \subseteq sessions
    PROVE  SignInIInv'
<1> USE DEF SignInIInv
<1>1. /\ req' \in [Requests -> Request] /\ Request' = Request
      /\ req'[r] = Idle /\ \A p \in Requests : p # r => req'[p] = req[p]
  BY RequestReplaced, BoundTypes DEF Stop
<1>2. sessions' \subseteq Session' /\ RowsInv' /\ OnlyAdmitted'
  BY RowsShrink
<1>3. IdleInv'
  BY <1>1 DEF IdleInv, Idle
<1>4. HeldInv'
  BY <1>1 DEF HeldInv, Idle
<1>5. SeenInv'
  BY <1>1 DEF SeenInv, Idle
<1> QED
  BY <1>1, <1>2, <1>3, <1>4, <1>5 DEF SignInInv

\* A request that starts, and holds no row.
LEMMA RequestStarts ==
    ASSUME SignInIInv, NEW r \in Requests, NEW q \in Request,
           req' = [req EXCEPT ![r] = q],
           UNCHANGED <<aenv, user, issued, enforced, sessions>>,
           q.at \notin {"idle", "gate", "active", "mint"},
           q.op # "refresh", q.token = 0,
           q.sawActive = user.active, q.sawOpen = ~enforced,
           q.op \in {"login", "sso"} => user.active,
           q.op = "sso" => q.method = "sso"
    PROVE  SignInIInv'
<1> USE DEF SignInIInv
<1>1. /\ req' \in [Requests -> Request] /\ Request' = Request
      /\ req'[r] = q /\ \A p \in Requests : p # r => req'[p] = req[p]
  BY RequestReplaced
<1>2. sessions' \subseteq Session' /\ RowsInv' /\ OnlyAdmitted'
  BY RowsShrink
<1>3. IdleInv'
  BY <1>1 DEF IdleInv
<1>4. HeldInv'
  BY <1>1 DEF HeldInv
<1>5. SeenInv'
  BY <1>1 DEF SeenInv
<1> QED
  BY <1>1, <1>2, <1>3, <1>4, <1>5 DEF SignInInv

\* Rows that go or expire, with every request as it was.
LEMMA RowsMove ==
    ASSUME SignInIInv, UNCHANGED <<aenv, user, issued, enforced, req>>,
           sessions' \subseteq Session,
           \A s \in sessions' : \E t \in sessions :
               /\ s.token = t.token /\ s.root = t.root /\ s.admitted = t.admitted,
           \A s, t \in sessions' : s.token = t.token => s = t
    PROVE  SignInIInv'
<1> USE DEF SignInIInv
<1>1. Request' = Request /\ Session' = Session
  BY DEF Request, Session, MaxPasswords, MaxSecrets, MaxTokens
<1>2. RowsInv'
  BY DEF RowsInv
<1>3. HeldInv'
  BY DEF HeldInv
<1> QED
  BY <1>1, <1>2, <1>3 DEF SignInInv, IdleInv, SeenInv, OnlyAdmitted

-----------------------------------------------------------------------------
(* Every step keeps the requests and the sessions sound.                   *)

\* What a running request is after a Goto: the same, at another place.
LEMMA GotoFields ==
    ASSUME SignInInv, NEW r \in Requests,
           NEW at \in {"gate", "active", "mint", "update"}, Goto(r, at)
    PROVE  \E q \in Request :
               /\ req' = [req EXCEPT ![r] = q]
               /\ q.at = at /\ q.op = req[r].op /\ q.token = req[r].token
               /\ q.root = req[r].root /\ q.method = req[r].method
               /\ q.sawActive = req[r].sawActive /\ q.sawOpen = req[r].sawOpen
<1> DEFINE q == [req[r] EXCEPT !.at = at]
<1>1. req[r] \in Request
  BY DEF SignInInv
<1>2. q \in Request
  BY <1>1 DEF Request
<1>3. req' = [req EXCEPT ![r] = q]
  BY DEF Goto
<1>4. /\ q.at = at /\ q.op = req[r].op /\ q.token = req[r].token
      /\ q.root = req[r].root /\ q.method = req[r].method
      /\ q.sawActive = req[r].sawActive /\ q.sawOpen = req[r].sawOpen
  BY <1>1 DEF Request
<1> QED
  BY <1>2, <1>3, <1>4

\* A running request that may go to a place goes on there.
LEMMA GotoStep ==
    ASSUME SignInIInv, NEW r \in Requests,
           NEW at \in {"gate", "active", "mint", "update"}, Goto(r, at),
           UNCHANGED <<aenv, issued, enforced, sessions>>, user'.active = user.active,
           req[r].at # "idle",
           at # "update" => req[r].sawActive,
           at = "mint" => req[r].method = "sso" \/ req[r].sawOpen
    PROVE  SignInIInv'
<1>1. PICK q \in Request :
               /\ req' = [req EXCEPT ![r] = q]
               /\ q.at = at /\ q.op = req[r].op /\ q.token = req[r].token
               /\ q.root = req[r].root /\ q.method = req[r].method
               /\ q.sawActive = req[r].sawActive /\ q.sawOpen = req[r].sawOpen
  BY GotoFields DEF SignInIInv
<1> QED
  BY <1>1, RequestGoesOn

\* What a request is when it starts.
LEMMA FreshFields ==
    ASSUME aenv \in AuthEnvironments, UserInv, enforced \in BOOLEAN,
           NEW op \in AllOps, NEW at \in {"load", "factor", "update", "commit"}
    PROVE  /\ Fresh(op, at) \in Request
           /\ Fresh(op, at).op = op /\ Fresh(op, at).at = at
           /\ Fresh(op, at).token = 0 /\ Fresh(op, at).method = "password"
           /\ Fresh(op, at).sawActive = user.active
           /\ Fresh(op, at).sawOpen = ~enforced
<1>1. Idle \in Request /\ user.active \in BOOLEAN
  BY BoundTypes DEF UserInv
<1>2. (~enforced) \in BOOLEAN
  OBVIOUS
<1> QED
  BY <1>1, <1>2, ZenonT(60) DEF Fresh, Request, Idle

\* The new row of a sign-in or of a refresh.
LEMMA MintStep ==
    ASSUME AuthIInv, NEW r \in Requests, issueTokens(r)
    PROVE  SignInIInv'
<1> USE DEF AuthIInv, SignInIInv, AccountIInv
<1> DEFINE root == IF req[r].op = "refresh" THEN req[r].root ELSE issued + 1
           ok == req[r].sawActive /\ (req[r].method = "sso" \/ req[r].sawOpen)
           row == [token |-> issued + 1, method |-> req[r].method, pw |-> req[r].pw,
                   root |-> root, expired |-> FALSE, admitted |-> ok]
           kept == {s \in sessions : s.token # req[r].token}
<1>1. /\ MaxTokens \in Nat /\ MaxPasswords \in Nat /\ issued \in Nat
      /\ issued < MaxTokens /\ issued' = issued + 1
      /\ UNCHANGED <<aenv, user, enforced>>
  BY BoundTypes DEF issueTokens, BoundsInv, adminVars
<1>2. sessions' = kept \cup {row}
  BY DEF issueTokens
<1>3. req[r] \in Request /\ req[r].at = "mint"
  BY DEF issueTokens, SignInInv
<1>4. ok = TRUE
  BY <1>3 DEF SeenInv
<1>5. root \in 1..(issued + 1)
  BY <1>1 DEF HeldInv
<1>6. \A s \in kept : /\ s \in sessions /\ s.token \in 1..issued /\ s.root \in 1..issued
                      /\ s.root # root
  <2> SUFFICES ASSUME NEW s \in kept
               PROVE  /\ s \in sessions /\ s.token \in 1..issued /\ s.root \in 1..issued
                      /\ s.root # root
    OBVIOUS
  <2>1. s \in sessions /\ s \in Session /\ s.token # req[r].token
    BY DEF SignInInv
  <2>2. s.token \in 1..issued /\ s.root \in 1..issued
    BY <1>1, <2>1 DEF RowsInv, Session
  <2> QED
    BY <1>1, <2>1, <2>2 DEF HeldInv
<1>7. row.token = issued + 1 /\ row.root = root /\ row.admitted = ok
  BY Zenon
<1>8. row \in Session
  <2>1. /\ issued + 1 \in 1..MaxTokens /\ root \in 1..MaxTokens
        /\ req[r].method \in Methods /\ req[r].pw \in 0..MaxPasswords
    BY <1>1, <1>3, <1>5 DEF Request
  <2> HIDE DEF root, ok
  <2> QED
    BY <1>4, <2>1 DEF Session
<1>9. /\ req' \in [Requests -> Request] /\ Request' = Request
      /\ req'[r] = Idle /\ \A p \in Requests : p # r => req'[p] = req[p]
  BY <1>1, RequestReplaced, BoundTypes DEF issueTokens, Stop, BoundsInv
<1>10. Session' = Session
  BY <1>1 DEF Session, MaxPasswords, MaxTokens
<1> HIDE DEF row, kept, ok
<1>11. sessions' \subseteq Session' /\ OnlyAdmitted'
  BY <1>2, <1>4, <1>6, <1>7, <1>8, <1>10 DEF SignInInv, OnlyAdmitted
<1>12. RowsInv'
  <2> HIDE DEF root
  <2> QED
    BY <1>1, <1>2, <1>5, <1>6, <1>7 DEF RowsInv
<1>13. HeldInv'
  <2>1. \A p \in Requests : req'[p].op = "refresh" => p # r /\ req[p].op = "refresh"
                                                  /\ req'[p] = req[p]
    BY <1>9 DEF Idle
  <2>2. \A p \in Requests : p # r /\ req[p].op = "refresh" =>
            /\ req[p].token \in 1..issued /\ req[p].root \in 1..issued
            /\ req[p].root # root
    BY <1>1 DEF HeldInv
  <2>3. \A p \in Requests : p # r /\ req[p].op = "refresh" =>
            \A s \in sessions' : s.token = req[p].token <=> s.root = req[p].root
    <3> HIDE DEF root
    <3> QED
      BY <1>1, <1>2, <1>6, <1>7, <2>2 DEF HeldInv
  <2>4. \A p \in Requests : p # r /\ req[p].op = "refresh" =>
            req[p].token \in 1..issued' /\ req[p].root \in 1..issued'
    BY <1>1, <2>2
  <2> QED
    BY <2>1, <2>3, <2>4 DEF HeldInv
<1>14. IdleInv' /\ SeenInv'
  BY <1>1, <1>9 DEF IdleInv, SeenInv, Idle
<1> QED
  BY <1>9, <1>11, <1>12, <1>13, <1>14 DEF SignInInv

\* A refresh takes a row that no other refresh holds.
LEMMA ConsumeStep ==
    ASSUME AuthIInv, NEW r \in Requests, RefreshConsume(r)
    PROVE  SignInIInv'
<1> USE DEF AuthIInv, SignInIInv, AccountIInv
<1>1. PICK s \in sessions :
        /\ s.token \notin Locked
        /\ req' = [req EXCEPT ![r] =
             [Fresh("refresh", "load") EXCEPT !.token = s.token, !.root = s.root,
                                              !.pw = s.pw, !.method = s.method]]
  BY DEF RefreshConsume
<1> DEFINE q == [Fresh("refresh", "load") EXCEPT !.token = s.token, !.root = s.root,
                                              !.pw = s.pw, !.method = s.method]
<1>2. UNCHANGED <<aenv, user, enforced, sessions, issued>> /\ req[r].at = "idle"
  BY DEF RefreshConsume, adminVars, sessionVars
<1>3. s \in Session /\ s.token \in 1..issued /\ s.root \in 1..issued
  BY DEF SignInInv, RowsInv, Session, BoundsInv
<1>4. /\ Fresh("refresh", "load") \in Request
      /\ Fresh("refresh", "load").op = "refresh" /\ Fresh("refresh", "load").at = "load"
      /\ Fresh("refresh", "load").sawActive = user.active
      /\ Fresh("refresh", "load").sawOpen = ~enforced
  BY FreshFields DEF BoundsInv, AllOps
<1>5. q \in Request /\ q.op = "refresh" /\ q.at = "load" /\ q.token = s.token
      /\ q.root = s.root /\ q.sawActive = user.active /\ q.sawOpen = ~enforced
  <2>1. MaxTokens \in Nat /\ MaxPasswords \in Nat
    BY BoundTypes DEF BoundsInv
  <2>2. ASSUME NEW f \in Request
        PROVE  LET g == [f EXCEPT !.token = s.token, !.root = s.root, !.pw = s.pw,
                                  !.method = s.method]
               IN  /\ g \in Request /\ g.op = f.op /\ g.at = f.at /\ g.token = s.token
                   /\ g.root = s.root /\ g.sawActive = f.sawActive
                   /\ g.sawOpen = f.sawOpen
    <3>1. /\ s.token \in 0..MaxTokens /\ s.root \in 0..MaxTokens
          /\ s.pw \in 0..MaxPasswords /\ s.method \in Methods
      BY <1>3, <2>1 DEF Session
    <3> QED
      BY <3>1 DEF Request
  <2> QED
    BY <1>4, <2>2, Zenon
<1>6. req' = [req EXCEPT ![r] = q]
  BY <1>1
<1> HIDE DEF q
<1>7. /\ req' \in [Requests -> Request] /\ Request' = Request
      /\ req'[r] = q /\ \A p \in Requests : p # r => req'[p] = req[p]
  BY <1>2, <1>5, <1>6, RequestReplaced
<1>8. sessions' \subseteq Session' /\ RowsInv' /\ OnlyAdmitted'
  BY <1>2, RowsShrink
<1>9. \A p \in Requests : req[p].op = "refresh" =>
          req[p].token # s.token /\ req[p].root # s.root
  BY <1>1 DEF Locked, HeldInv
<1>10. HeldInv'
  <2>1. \A t \in sessions : t.token = s.token <=> t.root = s.root
    BY DEF RowsInv
  <2> QED
    BY <1>2, <1>3, <1>5, <1>7, <1>9, <2>1 DEF HeldInv
<1>11. IdleInv' /\ SeenInv'
  BY <1>2, <1>5, <1>7, ZenonT(60) DEF IdleInv, SeenInv
<1> QED
  BY <1>7, <1>8, <1>10, <1>11 DEF SignInInv

\* A request that starts with what Fresh gives it and one more field: a password,
\* a provider's word, the secret it has read, or the rows it will delete.
LEMMA FreshStep ==
    ASSUME AuthIInv, NEW r \in Requests, NEW q,
           NEW op \in AllOps \ {"refresh"}, NEW at \in {"load", "factor", "update", "commit"},
           req' = [req EXCEPT ![r] = q],
           UNCHANGED <<aenv, user, enforced, sessions, issued>>,
           op \in {"login", "sso"} => user.active,
           \/ q = Fresh(op, at) /\ op # "sso"
           \/ q = [Fresh(op, at) EXCEPT !.pw = user.pw] /\ op # "sso"
           \/ q = [Fresh(op, at) EXCEPT !.method = "sso"]
           \/ q = [Fresh(op, at) EXCEPT !.secret = user.secret] /\ op # "sso"
           \/ q = [Fresh(op, at) EXCEPT !.victims = Tokens] /\ op # "sso"
    PROVE  SignInIInv'
<1> DEFINE Like(g, f) == /\ g \in Request /\ g.op = f.op /\ g.at = f.at
                         /\ g.token = f.token /\ g.sawActive = f.sawActive
                         /\ g.sawOpen = f.sawOpen
                         /\ f.op # "sso" \/ g.method = "sso"
<1>1. /\ Fresh(op, at) \in Request
      /\ Fresh(op, at).op = op /\ Fresh(op, at).at = at
      /\ Fresh(op, at).token = 0
      /\ Fresh(op, at).sawActive = user.active
      /\ Fresh(op, at).sawOpen = ~enforced
  BY FreshFields DEF AuthIInv, AccountIInv, BoundsInv
<1>2. /\ user.pw \in 0..MaxPasswords /\ user.secret \in 0..MaxSecrets
      /\ Tokens \subseteq 1..MaxTokens
  BY BoundTypes DEF AuthIInv, AccountIInv, SignInIInv, BoundsInv, UserInv, SignInInv,
     Tokens, Session
<1>3. ASSUME NEW f \in Request
      PROVE  /\ f.op # "sso" => Like(f, f)
             /\ f.op # "sso" => Like([f EXCEPT !.pw = user.pw], f)
             /\ Like([f EXCEPT !.method = "sso"], f)
             /\ f.op # "sso" => Like([f EXCEPT !.secret = user.secret], f)
             /\ f.op # "sso" => Like([f EXCEPT !.victims = Tokens], f)
  BY <1>2 DEF Request, Methods
<1>4. Like(q, Fresh(op, at))
  <2> HIDE DEF Like
  <2>1. Fresh(op, at).op = op /\ Fresh(op, at) \in Request
    BY <1>1
  <2> QED
    BY <1>3, <2>1, Zenon
<1> QED
  BY <1>1, <1>4, RequestStarts DEF AuthIInv, AllOps

\* Every step of one request.
LEMMA AuthSignInStep ==
    ASSUME AuthIInv, NEW r \in Requests
    PROVE  /\ LoginPassword(r) \/ SsoFinish(r) => SignInIInv'
           /\ LoadFactor(r) \/ consumeTOTP(r) \/ ReadBackup(r) \/ SpendBackup(r) => SignInIInv'
           /\ FactorRefused(r) \/ Gate(r) \/ SsoActive(r) => SignInIInv'
           /\ RefreshActive(r) \/ RefreshPurge(r) \/ Abort(r) => SignInIInv'
           /\ PasswordVerify(r) \/ PasswordUpdate(r) => SignInIInv'
           /\ PurgeStart(r) \/ PurgeEnd(r) => SignInIInv'
           /\ DeactivateStart(r) \/ DeactivateCommit(r) => SignInIInv'
           /\ SetupLoad(r) \/ SetupWrite(r) \/ EnableLoad(r) \/ EnableWrite(r) => SignInIInv'
           /\ DisableLoad(r) \/ DisableWrite(r) => SignInIInv'
<1> USE DEF sessionVars, adminVars
<1>0. /\ SignInIInv /\ SignInInv /\ IdleInv /\ SeenInv /\ req[r] \in Request
      /\ aenv \in AuthEnvironments
  BY DEF AuthIInv, SignInIInv, AccountIInv, BoundsInv, SignInInv
<1>1. CASE LoginPassword(r)
  <2>1. /\ req' = [req EXCEPT ![r] = [Fresh("login", "load") EXCEPT !.pw = user.pw]]
        /\ UNCHANGED <<aenv, user, enforced, sessions, issued>> /\ user.active
    BY <1>1 DEF LoginPassword
  <2>2. /\ "login" \in AllOps \ {"refresh"} /\ "load" \in {"load", "factor", "update", "commit"}
        /\ "login" # "sso"
    BY <2>1 DEF AllOps
  <2> QED
    BY <2>1, <2>2, FreshStep, Zenon
<1>2. CASE SsoFinish(r)
  <2>1. /\ req' = [req EXCEPT ![r] = [Fresh("sso", "load") EXCEPT !.method = "sso"]]
        /\ UNCHANGED <<aenv, user, enforced, sessions, issued>> /\ user.active
    BY <1>2 DEF SsoFinish
  <2>2. /\ "sso" \in AllOps \ {"refresh"} /\ "load" \in {"load", "factor", "update", "commit"}
        /\ user.active
    BY <2>1 DEF AllOps
  <2> QED
    BY <2>1, <2>2, FreshStep, Zenon
<1>3. CASE PasswordVerify(r)
  <2>1. /\ req' = [req EXCEPT ![r] = Fresh("password", "update")]
        /\ UNCHANGED <<aenv, user, enforced, sessions, issued>>
    BY <1>3 DEF PasswordVerify
  <2>2. /\ "password" \in AllOps \ {"refresh"} /\ "update" \in {"load", "factor", "update", "commit"}
        /\ "password" \notin {"login", "sso"} /\ "password" # "sso"
    BY <2>1 DEF AllOps
  <2> QED
    BY <2>1, <2>2, FreshStep, Zenon
<1>4. CASE DeactivateStart(r)
  <2>1. /\ req' = [req EXCEPT ![r] = [Fresh("deactivate", "commit") EXCEPT !.victims = Tokens]]
        /\ UNCHANGED <<aenv, user, enforced, sessions, issued>>
    BY <1>4 DEF DeactivateStart
  <2>2. /\ "deactivate" \in AllOps \ {"refresh"} /\ "commit" \in {"load", "factor", "update", "commit"}
        /\ "deactivate" \notin {"login", "sso"} /\ "deactivate" # "sso"
    BY <2>1 DEF AllOps
  <2> QED
    BY <2>1, <2>2, FreshStep, Zenon
<1>5. CASE EnableLoad(r)
  <2>1. /\ req' = [req EXCEPT ![r] = [Fresh("enable", "factor") EXCEPT !.secret = user.secret]]
        /\ UNCHANGED <<aenv, user, enforced, sessions, issued>>
    BY <1>5 DEF EnableLoad
  <2>2. /\ "enable" \in AllOps \ {"refresh"} /\ "factor" \in {"load", "factor", "update", "commit"}
        /\ "enable" \notin {"login", "sso"} /\ "enable" # "sso"
    BY <2>1 DEF AllOps
  <2> QED
    BY <2>1, <2>2, FreshStep, Zenon
<1>6. CASE DisableLoad(r)
  <2>1. /\ req' = [req EXCEPT ![r] = [Fresh("disable", "factor") EXCEPT !.secret = user.secret]]
        /\ UNCHANGED <<aenv, user, enforced, sessions, issued>>
    BY <1>6 DEF DisableLoad
  <2>2. /\ "disable" \in AllOps \ {"refresh"} /\ "factor" \in {"load", "factor", "update", "commit"}
        /\ "disable" \notin {"login", "sso"} /\ "disable" # "sso"
    BY <2>1 DEF AllOps
  <2> QED
    BY <2>1, <2>2, FreshStep, Zenon
<1>7. CASE SetupLoad(r)
  <2>1. PICK at \in {"update", "factor"} :
          req' = [req EXCEPT ![r] = [Fresh("setup", at) EXCEPT !.secret = user.secret]]
    BY <1>7 DEF SetupLoad
  <2>2. UNCHANGED <<aenv, user, enforced, sessions, issued>>
    BY <1>7 DEF SetupLoad
  <2>3. /\ "setup" \in AllOps \ {"refresh"} /\ at \in {"load", "factor", "update", "commit"}
        /\ "setup" \notin {"login", "sso"} /\ "setup" # "sso"
    BY <2>1 DEF AllOps
  <2> QED
    BY <2>1, <2>2, <2>3, FreshStep, Zenon
<1>8. CASE FactorRefused(r)
  <2>1. /\ Stop(r) /\ UNCHANGED <<aenv, issued, enforced>> /\ sessions' \subseteq sessions
        /\ user'.active => user.active
    BY <1>8, <1>0 DEF FactorRefused, AuthIInv, AccountIInv, UserInv
  <2> QED
    BY <1>0, <2>1, RequestStops
<1>9. CASE RefreshPurge(r)
  <2>1. /\ Stop(r) /\ UNCHANGED <<aenv, issued, enforced>> /\ sessions' \subseteq sessions
        /\ user'.active => user.active
    BY <1>9, <1>0 DEF RefreshPurge, AuthIInv, AccountIInv, UserInv
  <2> QED
    BY <1>0, <2>1, RequestStops
<1>10. CASE Abort(r)
  <2>1. /\ Stop(r) /\ UNCHANGED <<aenv, issued, enforced>> /\ sessions' \subseteq sessions
        /\ user'.active => user.active
    BY <1>10, <1>0 DEF Abort, AuthIInv, AccountIInv, UserInv
  <2> QED
    BY <1>0, <2>1, RequestStops
<1>11. CASE PurgeEnd(r)
  <2>1. /\ Stop(r) /\ UNCHANGED <<aenv, issued, enforced>> /\ sessions' \subseteq sessions
        /\ user'.active => user.active
    BY <1>11, <1>0 DEF PurgeEnd, AuthIInv, AccountIInv, UserInv
  <2> QED
    BY <1>0, <2>1, RequestStops
<1>12. CASE DeactivateCommit(r)
  <2>1. /\ Stop(r) /\ UNCHANGED <<aenv, issued, enforced>> /\ sessions' \subseteq sessions
        /\ user'.active => user.active
    BY <1>12, <1>0 DEF DeactivateCommit, AuthIInv, AccountIInv, UserInv
  <2> QED
    BY <1>0, <2>1, RequestStops
<1>13. CASE SetupWrite(r)
  <2>1. /\ Stop(r) /\ UNCHANGED <<aenv, issued, enforced>> /\ sessions' \subseteq sessions
        /\ user'.active => user.active
    BY <1>13, <1>0 DEF SetupWrite, AuthIInv, AccountIInv, UserInv
  <2> QED
    BY <1>0, <2>1, RequestStops
<1>14. CASE EnableWrite(r)
  <2>1. /\ Stop(r) /\ UNCHANGED <<aenv, issued, enforced>> /\ sessions' \subseteq sessions
        /\ user'.active => user.active
    BY <1>14, <1>0 DEF EnableWrite, AuthIInv, AccountIInv, UserInv
  <2> QED
    BY <1>0, <2>1, RequestStops
<1>15. CASE DisableWrite(r)
  <2>1. /\ Stop(r) /\ UNCHANGED <<aenv, issued, enforced>> /\ sessions' \subseteq sessions
        /\ user'.active => user.active
    BY <1>15, <1>0 DEF DisableWrite, AuthIInv, AccountIInv, UserInv
  <2> QED
    BY <1>0, <2>1, RequestStops
<1>16. CASE consumeTOTP(r)
  <2>1. /\ Goto(r, AfterFactor(req[r].op)) /\ req[r].at \in {"factor", "backup"}
        /\ UNCHANGED <<aenv, issued, enforced, sessions>> /\ user'.active = user.active
    BY <1>16 DEF consumeTOTP, AuthIInv, AccountIInv, UserInv
  <2>2. /\ AfterFactor(req[r].op) \in {"gate", "active", "update"}
        /\ AfterFactor(req[r].op) # "update" => req[r].op \in {"login", "sso"}
    BY DEF AfterFactor
  <2>3. AfterFactor(req[r].op) # "update" => req[r].sawActive
    BY <1>0, <2>2 DEF SeenInv
  <2> QED
    BY <1>0, <2>1, <2>2, <2>3, GotoStep
<1>17. CASE SpendBackup(r)
  <2>1. /\ Goto(r, AfterFactor(req[r].op)) /\ req[r].at \in {"factor", "backup"}
        /\ UNCHANGED <<aenv, issued, enforced, sessions>> /\ user'.active = user.active
    BY <1>17 DEF SpendBackup, AuthIInv, AccountIInv, UserInv
  <2>2. /\ AfterFactor(req[r].op) \in {"gate", "active", "update"}
        /\ AfterFactor(req[r].op) # "update" => req[r].op \in {"login", "sso"}
    BY DEF AfterFactor
  <2>3. AfterFactor(req[r].op) # "update" => req[r].sawActive
    BY <1>0, <2>2 DEF SeenInv
  <2> QED
    BY <1>0, <2>1, <2>2, <2>3, GotoStep
<1>18. CASE Gate(r)
  <2>1. UNCHANGED <<aenv, user, enforced, issued>> /\ req[r].at = "gate"
    BY <1>18 DEF Gate
  <2>2. CASE enforced
    BY <1>18, <1>0, <2>1, <2>2, RequestStops DEF Gate
  <2>3. CASE ~enforced
    <3>1. Goto(r, "mint") /\ UNCHANGED sessions
      BY <1>18, <2>3 DEF Gate
    <3>2. req[r].sawActive /\ req[r].sawOpen
      BY <1>0, <2>1, <2>3 DEF SeenInv
    <3> QED
      BY <1>0, <2>1, <3>1, <3>2, GotoStep
  <2> QED
    BY <2>2, <2>3
<1>19. CASE SsoActive(r)
  <2>1. /\ UNCHANGED <<aenv, user, enforced, issued, sessions>>
        /\ req[r].at = "active" /\ req[r].op = "sso"
    BY <1>19 DEF SsoActive, At
  <2>2. CASE user.active
    <3>1. Goto(r, "mint")
      BY <1>19, <2>2 DEF SsoActive
    <3>2. req[r].sawActive /\ req[r].method = "sso"
      BY <1>0, <2>1 DEF SeenInv
    <3> QED
      BY <1>0, <2>1, <3>1, <3>2, GotoStep
  <2>3. CASE ~user.active
    BY <1>19, <1>0, <2>1, <2>3, RequestStops DEF SsoActive
  <2> QED
    BY <2>2, <2>3
<1>20. CASE LoadFactor(r)
  <2>1. /\ UNCHANGED <<aenv, user, enforced, issued, sessions>>
        /\ req[r].at = "load" /\ req[r].op \in {"login", "sso"}
    BY <1>20 DEF LoadFactor
  <2> DEFINE at == IF user.enabled THEN "factor"
                   ELSE IF req[r].op = "sso" THEN "active" ELSE "gate"
             q == [req[r] EXCEPT !.secret = user.secret, !.at = at]
  <2>2. at \in {"factor", "active", "gate"}
    OBVIOUS
  <2>3. req' = [req EXCEPT ![r] = q]
    <3>1. req' = [req EXCEPT ![r].secret = user.secret, ![r].at = at]
      BY <1>20 DEF LoadFactor
    <3> HIDE DEF at
    <3> QED
      BY <1>0, <3>1 DEF SignInInv
  <2>4. user.secret \in 0..MaxSecrets
    BY DEF AuthIInv, AccountIInv, UserInv
  <2> HIDE DEF at
  <2>5. q \in Request /\ q.at = at /\ q.op = req[r].op /\ q.token = req[r].token
        /\ q.root = req[r].root /\ q.method = req[r].method
        /\ q.sawActive = req[r].sawActive /\ q.sawOpen = req[r].sawOpen
    BY <1>0, <2>2, <2>4 DEF Request
  <2>6. req[r].sawActive
    BY <1>0, <2>1 DEF SeenInv
  <2> HIDE DEF q
  <2> QED
    BY <1>0, <2>1, <2>2, <2>3, <2>5, <2>6, RequestGoesOn
<1>21. CASE ReadBackup(r)
  <2>1. UNCHANGED <<aenv, user, enforced, issued, sessions>> /\ req[r].at = "factor"
    BY <1>21 DEF ReadBackup
  <2>2. PICK c \in codes : req' = [req EXCEPT ![r].code = c.id, ![r].at = "backup"]
    BY <1>21 DEF ReadBackup
  <2> DEFINE q == [req[r] EXCEPT !.code = c.id, !.at = "backup"]
  <2>3. c.id \in Nat
    BY DEF AuthIInv, AccountIInv, SecondFactorInv
  <2>4. q \in Request /\ q.at = "backup" /\ q.op = req[r].op /\ q.token = req[r].token
        /\ q.root = req[r].root /\ q.method = req[r].method
        /\ q.sawActive = req[r].sawActive /\ q.sawOpen = req[r].sawOpen
    BY <1>0, <2>3 DEF Request
  <2>5. req' = [req EXCEPT ![r] = q]
    BY <1>0, <2>2 DEF SignInInv
  <2> HIDE DEF q
  <2> QED
    BY <1>0, <2>1, <2>4, <2>5, RequestGoesOn
<1>22. CASE PurgeStart(r)
  <2>1. /\ UNCHANGED <<aenv, user, enforced, issued, sessions>> /\ req[r].at = "purge"
        /\ req' = [req EXCEPT ![r].at = "delete", ![r].victims = Tokens]
    BY <1>22 DEF PurgeStart, At
  <2> DEFINE q == [req[r] EXCEPT !.at = "delete", !.victims = Tokens]
  <2>3. Tokens \subseteq 1..MaxTokens
    BY <1>0 DEF SignInInv, Tokens, Session
  <2>4. q \in Request /\ q.at = "delete" /\ q.op = req[r].op /\ q.token = req[r].token
        /\ q.root = req[r].root /\ q.method = req[r].method
        /\ q.sawActive = req[r].sawActive /\ q.sawOpen = req[r].sawOpen
    BY <1>0, <2>3 DEF Request
  <2>5. req' = [req EXCEPT ![r] = q]
    BY <1>0, <2>1 DEF SignInInv
  <2> HIDE DEF q
  <2> QED
    BY <1>0, <2>1, <2>4, <2>5, RequestGoesOn
<1>23. CASE RefreshActive(r)
  <2>1. UNCHANGED <<aenv, user, enforced, issued>> /\ req[r].at = "load"
    BY <1>23 DEF RefreshActive, At
  <2>2. PICK s \in sessions :
          \/ Stop(r) /\ sessions' = sessions \ {s}
          \/ /\ UNCHANGED sessions /\ ~user.active
             /\ req' = [req EXCEPT ![r].at = "delete", ![r].victims = Tokens]
          \/ /\ UNCHANGED sessions /\ user.active
             /\ \/ req[r].method = "sso" /\ Goto(r, "mint")
                \/ req[r].method # "sso" /\ Goto(r, "gate")
    BY <1>23 DEF RefreshActive
  <2> DEFINE q == [req[r] EXCEPT !.at = "delete", !.victims = Tokens]
  <2>3. Tokens \subseteq 1..MaxTokens
    BY <1>0 DEF SignInInv, Tokens, Session
  <2>4. q \in Request /\ q.at = "delete" /\ q.op = req[r].op /\ q.token = req[r].token
        /\ q.root = req[r].root /\ q.method = req[r].method
        /\ q.sawActive = req[r].sawActive /\ q.sawOpen = req[r].sawOpen
    BY <1>0, <2>3 DEF Request
  <2>5. CASE Stop(r) /\ sessions' = sessions \ {s}
    BY <1>0, <2>1, <2>5, RequestStops
  <2>6. CASE /\ UNCHANGED sessions
             /\ req' = [req EXCEPT ![r].at = "delete", ![r].victims = Tokens]
    <3>1. req' = [req EXCEPT ![r] = q]
      BY <1>0, <2>6 DEF SignInInv
    <3> HIDE DEF q
    <3> QED
      BY <1>0, <2>1, <2>4, <2>6, <3>1, RequestGoesOn
  <2>7. CASE /\ UNCHANGED sessions /\ user.active
             /\ \/ req[r].method = "sso" /\ Goto(r, "mint")
                \/ req[r].method # "sso" /\ Goto(r, "gate")
    <3>1. req[r].sawActive
      BY <1>0, <2>1, <2>7 DEF SeenInv
    <3> QED
      BY <1>0, <2>1, <2>7, <3>1, GotoStep
  <2> QED
    BY <2>2, <2>5, <2>6, <2>7
<1>24. CASE PasswordUpdate(r)
  <2>1. /\ UNCHANGED <<aenv, enforced, issued, sessions>> /\ req[r].at = "update"
        /\ user.pw < MaxPasswords /\ user' = [user EXCEPT !.pw = @ + 1]
        /\ req' = [req EXCEPT ![r].at = "purge", ![r].pw = user.pw + 1]
    BY <1>24 DEF PasswordUpdate, At
  <2>2. UserInv /\ MaxPasswords \in Nat
    BY <1>0, BoundTypes DEF AuthIInv, AccountIInv
  <2>3. user'.active = user.active /\ user.pw + 1 \in 0..MaxPasswords
    BY <2>1, <2>2 DEF UserInv
  <2> DEFINE q == [req[r] EXCEPT !.at = "purge", !.pw = user.pw + 1]
  <2>4. q \in Request /\ q.at = "purge" /\ q.op = req[r].op /\ q.token = req[r].token
        /\ q.root = req[r].root /\ q.method = req[r].method
        /\ q.sawActive = req[r].sawActive /\ q.sawOpen = req[r].sawOpen
    BY <1>0, <2>3 DEF Request
  <2>5. req' = [req EXCEPT ![r] = q]
    BY <1>0, <2>1 DEF SignInInv
  <2> HIDE DEF q
  <2> QED
    BY <1>0, <2>1, <2>3, <2>4, <2>5, RequestGoesOn
<1> QED
  BY <1>1, <1>2, <1>3, <1>4, <1>5, <1>6, <1>7, <1>8, <1>9, <1>10, <1>11, <1>12, <1>13,
     <1>14, <1>15, <1>16, <1>17, <1>18, <1>19, <1>20, <1>21, <1>22, <1>23, <1>24

\* Every other step: the rows that go or expire, the new row, and the switches.
LEMMA SessionStep ==
    ASSUME AuthIInv
    PROVE  /\ \A s \in sessions : Logout(s) \/ Expire(s) => SignInIInv'
           /\ CleanExpiredSessions => SignInIInv'
           /\ Activate => SignInIInv'
           /\ \A b \in BOOLEAN : SetEnforced(b) => SignInIInv'
           /\ Tick => SignInIInv'
<1> USE DEF sessionVars, adminVars
<1>0. SignInIInv /\ SignInInv /\ IdleInv /\ RowsInv /\ HeldInv /\ SeenInv /\ OnlyAdmitted
  BY DEF AuthIInv, SignInIInv
<1>1. ASSUME NEW s \in sessions, Logout(s) PROVE SignInIInv'
  BY <1>0, <1>1, RowsMove DEF Logout, SignInInv, RowsInv
<1>2. ASSUME NEW s \in sessions, Expire(s) PROVE SignInIInv'
  <2> DEFINE t == [s EXCEPT !.expired = TRUE]
  <2>1. /\ sessions' = (sessions \ {s}) \cup {t}
        /\ UNCHANGED <<aenv, user, enforced, issued, req>>
    BY <1>2 DEF Expire
  <2>2. /\ t \in Session /\ t.token = s.token /\ t.root = s.root
        /\ t.admitted = s.admitted
    BY <1>0 DEF SignInInv, Session
  <2> HIDE DEF t
  <2>3. \A u \in sessions' : \E v \in sessions :
               /\ u.token = v.token /\ u.root = v.root /\ u.admitted = v.admitted
    BY <2>1, <2>2
  <2>4. \A u, v \in sessions' : u.token = v.token => u = v
    BY <1>0, <2>1, <2>2 DEF RowsInv
  <2> QED
    BY <1>0, <2>1, <2>2, <2>3, <2>4, RowsMove DEF SignInInv
<1>3. CASE CleanExpiredSessions
  BY <1>0, <1>3, RowsMove DEF CleanExpiredSessions, SignInInv, RowsInv
<1>4. CASE Tick
  BY <1>0, <1>4, RowsMove DEF Tick, SignInInv, RowsInv
<1>5. ASSUME UNCHANGED <<aenv, issued, sessions>>,
             req' \in [Requests -> Request], SeenInv',
             \A r \in Requests :
                 /\ req'[r].op = req[r].op /\ req'[r].token = req[r].token
                 /\ req'[r].root = req[r].root
                 /\ req'[r].at = "idle" => req'[r] = Idle
      PROVE  SignInIInv'
  <2>1. Request' = Request /\ Session' = Session
    BY <1>5 DEF Request, Session, MaxPasswords, MaxSecrets, MaxTokens
  <2>2. IdleInv' /\ RowsInv' /\ HeldInv' /\ OnlyAdmitted'
    BY <1>0, <1>5 DEF IdleInv, RowsInv, HeldInv, OnlyAdmitted
  <2> QED
    BY <1>0, <1>5, <2>1, <2>2 DEF SignInIInv, SignInInv
<1>6. CASE Activate
  <2>1. /\ UNCHANGED <<aenv, enforced, issued, sessions>>
        /\ req' = [r \in Requests |-> IF req[r].at = "idle" THEN Idle
                                      ELSE [req[r] EXCEPT !.sawActive = TRUE]]
    BY <1>6 DEF Activate
  <2>2. ASSUME NEW r \in Requests
        PROVE  /\ req'[r] \in Request /\ req'[r].op = req[r].op /\ req'[r].at = req[r].at
               /\ req'[r].token = req[r].token /\ req'[r].root = req[r].root
               /\ req'[r].method = req[r].method /\ req'[r].sawOpen = req[r].sawOpen
               /\ req'[r].sawActive \/ (req'[r] = Idle /\ req[r] = Idle)
    <3>1. req[r] \in Request
      BY <1>0 DEF SignInInv
    <3>2. CASE req[r].at = "idle"
      BY <1>0, <2>1, <3>1, <3>2 DEF IdleInv
    <3>3. CASE req[r].at # "idle"
      BY <2>1, <3>1, <3>3 DEF Request
    <3> QED
      BY <3>2, <3>3
  <2>3. SeenInv'
    BY <1>0, <2>1, <2>2 DEF SeenInv, Idle
  <2>4. req' \in [Requests -> Request]
    <3>1. DOMAIN req' = Requests /\ req' = [r \in DOMAIN req' |-> req'[r]]
      BY <2>1
    <3> QED
      BY <2>2, <3>1
  <2>5. \A r \in Requests : req'[r].at = "idle" => req'[r] = Idle
    BY <1>0, <2>1, <2>2 DEF IdleInv
  <2> QED
    BY <1>5, <2>1, <2>2, <2>3, <2>4, <2>5
<1>7. ASSUME NEW b \in BOOLEAN, SetEnforced(b) PROVE SignInIInv'
  <2>1. /\ UNCHANGED <<aenv, user, issued, sessions>> /\ enforced' = b
        /\ req' = [r \in Requests |-> IF req[r].at = "idle" THEN Idle
                                      ELSE [req[r] EXCEPT !.sawOpen = @ \/ ~b]]
    BY <1>7 DEF SetEnforced
  <2>2. ASSUME NEW r \in Requests
        PROVE  /\ req'[r] \in Request /\ req'[r].op = req[r].op /\ req'[r].at = req[r].at
               /\ req'[r].token = req[r].token /\ req'[r].root = req[r].root
               /\ req'[r].method = req[r].method /\ req'[r].sawActive = req[r].sawActive
               /\ (req[r].sawOpen \/ ~b => req'[r].sawOpen) \/ (req'[r] = Idle /\ req[r] = Idle)
    <3>1. req[r] \in Request
      BY <1>0 DEF SignInInv
    <3>2. CASE req[r].at = "idle"
      BY <1>0, <2>1, <3>1, <3>2 DEF IdleInv
    <3>3. CASE req[r].at # "idle"
      <4> DEFINE o == req[r].sawOpen \/ ~b
      <4>1. o \in BOOLEAN
        BY <3>1 DEF Request
      <4>2. req'[r] = [req[r] EXCEPT !.sawOpen = o]
        BY <2>1, <3>1, <3>3 DEF Request
      <4> HIDE DEF o
      <4>3. /\ req'[r] \in Request /\ req'[r].op = req[r].op /\ req'[r].at = req[r].at
            /\ req'[r].token = req[r].token /\ req'[r].root = req[r].root
            /\ req'[r].method = req[r].method /\ req'[r].sawActive = req[r].sawActive
            /\ req'[r].sawOpen = o
        BY <3>1, <4>1, <4>2 DEF Request
      <4> QED
        BY <4>3 DEF o
    <3> QED
      BY <3>2, <3>3
  <2>3. SeenInv'
    <3>1. \A r \in Requests : req[r].at # "idle" /\ ~b => req'[r].sawOpen
      BY <2>2 DEF Idle
    <3>2. \A r \in Requests : req[r].sawOpen => req'[r].sawOpen
      BY <2>2
    <3>3. \A r \in Requests :
             /\ req'[r].op = req[r].op /\ req'[r].at = req[r].at
             /\ req'[r].method = req[r].method /\ req'[r].sawActive = req[r].sawActive
      BY <2>2
    <3>4. user' = user /\ (~enforced' => ~b)
      BY <2>1
    <3>5. SeenInv
      BY <1>0
    <3> QED
      BY <3>1, <3>2, <3>3, <3>4, <3>5, Zenon DEF SeenInv
  <2>4. req' \in [Requests -> Request]
    <3>1. DOMAIN req' = Requests /\ req' = [r \in DOMAIN req' |-> req'[r]]
      BY <2>1
    <3> QED
      BY <2>2, <3>1
  <2>5. \A r \in Requests : req'[r].at = "idle" => req'[r] = Idle
    BY <1>0, <2>1, <2>2 DEF IdleInv
  <2> QED
    BY <1>5, <2>1, <2>2, <2>3, <2>4, <2>5
<1> QED
  BY <1>1, <1>2, <1>3, <1>4, <1>6, <1>7

-----------------------------------------------------------------------------
(* Every step keeps the user row and the second factor sound.              *)

\* A step that changes none of them.
LEMMA AccountKept ==
    ASSUME AccountIInv, UNCHANGED <<aenv, user, secrets, codes, enrolled, spent>>,
           enforced' \in BOOLEAN, switches' \in 0..MaxSwitches,
           now' \in 1..MaxStep, now' >= now,
           issued' \in 0..MaxTokens, revoked' \in 0..MaxPasswords
    PROVE  AccountIInv'
<1>1. /\ MaxTokens' = MaxTokens /\ MaxPasswords' = MaxPasswords /\ Factors' = Factors
      /\ MaxSecrets' = MaxSecrets /\ MaxStep' = MaxStep /\ MaxSwitches' = MaxSwitches
  BY DEF MaxTokens, MaxPasswords, MaxSecrets, MaxStep, MaxSwitches, Factors
<1>2. BoundsInv' /\ UserInv' /\ SecondFactorInv'
  BY <1>1, BoundTypes DEF AccountIInv, BoundsInv, UserInv, SecondFactorInv
<1>3. FactorInv' /\ FactorSpentOnce'
  BY DEF AccountIInv, FactorInv, FactorSpentOnce
<1> QED
  BY <1>2, <1>3 DEF AccountIInv

\* A step that changes the user row and leaves the factors alone.
LEMMA UserMoves ==
    ASSUME AccountIInv, UNCHANGED <<aenv, enforced, now, enrolled, spent, issued, revoked>>,
           switches' \in 0..MaxSwitches, secrets' \in 0..MaxSecrets,
           user' \in [active : BOOLEAN, pw : 1..MaxPasswords, secret : 0..MaxSecrets,
                      enabled : BOOLEAN, lastStep : Nat],
           user'.lastStep = user.lastStep, codes' \subseteq codes
    PROVE  AccountIInv'
<1>1. /\ MaxTokens' = MaxTokens /\ MaxPasswords' = MaxPasswords /\ Factors' = Factors
      /\ MaxSecrets' = MaxSecrets /\ MaxStep' = MaxStep /\ MaxSwitches' = MaxSwitches
  BY DEF MaxTokens, MaxPasswords, MaxSecrets, MaxStep, MaxSwitches, Factors
<1>2. BoundsInv' /\ UserInv' /\ SecondFactorInv'
  BY <1>1 DEF AccountIInv, BoundsInv, UserInv, SecondFactorInv
<1>3. FactorInv' /\ FactorSpentOnce'
  BY DEF AccountIInv, FactorInv, FactorSpentOnce
<1> QED
  BY <1>2, <1>3 DEF AccountIInv

\* A factor that no request has used before is spent once.
LEMMA SpendNew ==
    ASSUME NEW f, SpendFactor(f), \A e \in spent : e.factor # f
    PROVE  spent' = spent \cup {[factor |-> f, times |-> 1]}
BY DEF SpendFactor

\* consumeTOTP burns a step that is later than every step used.
LEMMA TotpStep ==
    ASSUME AuthIInv, NEW r \in Requests, consumeTOTP(r)
    PROVE  AccountIInv'
<1> USE DEF AuthIInv, AccountIInv
<1>1. PICK step \in (now - Skew)..(now + Skew) :
        /\ step > 0 /\ user.lastStep < step
        /\ user' = [user EXCEPT !.lastStep = step]
        /\ SpendFactor([kind |-> "totp", of |-> req[r].secret, n |-> step])
  BY DEF consumeTOTP
<1>2. /\ UNCHANGED <<aenv, enforced, switches, now, issued, revoked, secrets, codes, enrolled>>
      /\ req[r].secret # 0
  BY DEF consumeTOTP, adminVars, sessionVars
<1>3. /\ MaxTokens' = MaxTokens /\ MaxPasswords' = MaxPasswords /\ Factors' = Factors
      /\ MaxSecrets' = MaxSecrets /\ MaxStep' = MaxStep /\ MaxSwitches' = MaxSwitches
  BY <1>2 DEF MaxTokens, MaxPasswords, MaxSecrets, MaxStep, MaxSwitches, Factors
<1>4. now \in Nat /\ Skew \in Nat /\ MaxSecrets \in Nat /\ user.lastStep \in Nat
  BY BoundTypes DEF BoundsInv, UserInv
<1>5. step \in Nat /\ step <= now + Skew
  BY <1>1, <1>4
<1> DEFINE f == [kind |-> "totp", of |-> req[r].secret, n |-> step]
<1>6. f \in Factors
  <2>1. req[r].secret \in 1..MaxSecrets
    BY <1>2, <1>4 DEF SignInIInv, SignInInv, Request
  <2> QED
    BY <1>5, <2>1 DEF Factors
<1>7. f.kind = "totp" /\ f.n = step
  OBVIOUS
<1>8. \A e \in spent : e.factor # f
  <2> SUFFICES ASSUME NEW e \in spent, e.factor = f PROVE FALSE
    OBVIOUS
  <2>1. step <= user.lastStep
    BY <1>7 DEF FactorInv
  <2> QED
    BY <1>1, <1>4, <1>5, <2>1
<1>9. spent' = spent \cup {[factor |-> f, times |-> 1]}
  BY <1>1, <1>8, SpendNew
<1> HIDE DEF f
<1>10. BoundsInv'
  BY <1>2, <1>3 DEF BoundsInv
<1>11. UserInv' /\ user'.lastStep = step
  BY <1>1, <1>2, <1>3, <1>4, <1>5 DEF UserInv
<1>12. SecondFactorInv' /\ FactorSpentOnce'
  BY <1>2, <1>3, <1>6, <1>9 DEF SecondFactorInv, FactorSpentOnce
<1>13. FactorInv'
  <2>1. \A e \in spent : e.factor.kind = "totp" => e.factor.n \in Nat
    BY DEF SecondFactorInv, Factors
  <2>2. \A e \in spent' :
            /\ e.factor.kind = "totp" => e.factor.n <= step
            /\ e.factor.kind = "backup" => e \in spent
    BY <1>1, <1>4, <1>5, <1>7, <1>9, <2>1 DEF FactorInv
  <2> QED
    BY <1>2, <1>11, <2>2 DEF FactorInv
<1> QED
  BY <1>10, <1>11, <1>12, <1>13

\* SpendBackup marks the row of a code that no request has used.
LEMMA BackupStep ==
    ASSUME AuthIInv, NEW r \in Requests, SpendBackup(r)
    PROVE  AccountIInv'
<1> USE DEF AuthIInv, AccountIInv
<1>1. PICK c \in codes :
        /\ ~c.used
        /\ codes' = (codes \ {c}) \cup {[c EXCEPT !.used = TRUE]}
        /\ SpendFactor([kind |-> "backup", of |-> c.id, n |-> 1])
  BY DEF SpendBackup
<1>2. UNCHANGED <<aenv, user, enforced, switches, now, issued, revoked, secrets, enrolled>>
  BY DEF SpendBackup, adminVars, sessionVars
<1>3. /\ MaxTokens' = MaxTokens /\ MaxPasswords' = MaxPasswords /\ Factors' = Factors
      /\ MaxSecrets' = MaxSecrets /\ MaxStep' = MaxStep /\ MaxSwitches' = MaxSwitches
  BY <1>2 DEF MaxTokens, MaxPasswords, MaxSecrets, MaxStep, MaxSwitches, Factors
<1> DEFINE f == [kind |-> "backup", of |-> c.id, n |-> 1]
           d == [c EXCEPT !.used = TRUE]
<1>4. c.id \in Nat /\ f.kind = "backup" /\ f.of = c.id
  BY DEF SecondFactorInv
<1>5. f \in Factors
  BY <1>4 DEF Factors
<1>6. \A e \in spent : e.factor # f
  BY <1>1, <1>4 DEF FactorInv
<1>7. spent' = spent \cup {[factor |-> f, times |-> 1]}
  BY <1>1, <1>6, SpendNew
<1>8. d \in [id : Nat, used : BOOLEAN] /\ d.id = c.id /\ d.used
  BY DEF SecondFactorInv
<1>9. codes' = (codes \ {c}) \cup {d}
  BY <1>1
<1> HIDE DEF f, d
<1>10. BoundsInv' /\ UserInv'
  BY <1>2, <1>3 DEF BoundsInv, UserInv
<1>11. SecondFactorInv' /\ FactorSpentOnce'
  BY <1>3, <1>5, <1>7, <1>8, <1>9 DEF SecondFactorInv, FactorSpentOnce
<1>12. FactorInv'
  <2>1. \A e \in spent' :
           /\ e.factor.kind = "totp" => e.factor.n <= user.lastStep
           /\ e.factor.kind = "backup" => e.factor.of <= enrolled
    BY <1>4, <1>7 DEF FactorInv
  <2>2. /\ \A k \in codes' : k.id <= enrolled
        /\ \A k, l \in codes' : k.id = l.id => k = l
    BY <1>8, <1>9 DEF FactorInv
  <2>3. \A k \in codes', e \in spent' :
           ~k.used /\ e.factor.kind = "backup" => e.factor.of # k.id
    BY <1>4, <1>7, <1>8, <1>9 DEF FactorInv
  <2> QED
    BY <1>2, <2>1, <2>2, <2>3 DEF FactorInv
<1> QED
  BY <1>10, <1>11, <1>12

\* EnableWrite replaces the codes by one that has never been used.
LEMMA EnableStep ==
    ASSUME AuthIInv, NEW r \in Requests, EnableWrite(r)
    PROVE  AccountIInv'
<1> USE DEF AuthIInv, AccountIInv
<1>1. /\ user' = [user EXCEPT !.enabled = TRUE] /\ enrolled' = enrolled + 1
      /\ codes' = {[id |-> enrolled + 1, used |-> FALSE]}
      /\ UNCHANGED <<aenv, enforced, switches, now, issued, revoked, secrets, spent>>
  BY DEF EnableWrite, adminVars, sessionVars
<1>2. /\ MaxTokens' = MaxTokens /\ MaxPasswords' = MaxPasswords /\ Factors' = Factors
      /\ MaxSecrets' = MaxSecrets /\ MaxStep' = MaxStep /\ MaxSwitches' = MaxSwitches
  BY <1>1 DEF MaxTokens, MaxPasswords, MaxSecrets, MaxStep, MaxSwitches, Factors
<1>3. enrolled \in Nat
  BY DEF BoundsInv
<1>4. BoundsInv'
  BY <1>1, <1>2, <1>3 DEF BoundsInv
<1>5. UserInv' /\ user'.lastStep = user.lastStep
  BY <1>1, <1>2 DEF UserInv
<1>6. SecondFactorInv' /\ FactorSpentOnce'
  BY <1>1, <1>2, <1>3 DEF SecondFactorInv, FactorSpentOnce
<1>7. FactorInv'
  <2>1. \A e \in spent : e.factor.kind = "backup" => e.factor.of \in Nat
    BY DEF SecondFactorInv, Factors
  <2>2. \A e \in spent : e.factor.kind = "backup" =>
            e.factor.of <= enrolled + 1 /\ e.factor.of # enrolled + 1
    BY <1>3, <2>1 DEF FactorInv
  <2>3. \A c \in codes' : c.id = enrolled + 1
    BY <1>1
  <2> QED
    BY <1>1, <1>3, <1>5, <2>2, <2>3 DEF FactorInv
<1> QED
  BY <1>4, <1>5, <1>6, <1>7

\* Every step of an account.
LEMMA AccountStep ==
    ASSUME AuthIInv, AuthNext
    PROVE  AccountIInv'
<1> USE DEF sessionVars, adminVars, factorVars
<1>0. /\ AccountIInv /\ aenv \in AuthEnvironments /\ enforced \in BOOLEAN
      /\ now \in 1..MaxStep /\ now \in Nat /\ MaxStep \in Nat
      /\ issued \in 0..MaxTokens /\ MaxTokens \in Nat /\ revoked \in 0..MaxPasswords
      /\ switches \in 0..MaxSwitches /\ MaxSwitches \in Nat
      /\ secrets \in 0..MaxSecrets /\ MaxSecrets \in Nat /\ MaxPasswords \in Nat
  BY BoundTypes DEF AuthIInv, AccountIInv, BoundsInv
<1>1. CASE UNCHANGED <<aenv, user, adminVars, now, factorVars, issued, revoked>>
  BY <1>0, <1>1, AccountKept
<1>2. ASSUME NEW r \in Requests, issueTokens(r) PROVE AccountIInv'
  <2>1. issued' \in 0..MaxTokens
    BY <1>0, <1>2 DEF issueTokens
  <2> QED
    BY <1>0, <1>2, <2>1, AccountKept DEF issueTokens
<1>3. ASSUME NEW r \in Requests, PurgeEnd(r) PROVE AccountIInv'
  <2>1. req[r].pw \in 0..MaxPasswords
    BY <1>3 DEF AuthIInv, SignInIInv, SignInInv, Request
  <2>2. revoked' \in 0..MaxPasswords
    BY <1>0, <1>3, <2>1 DEF PurgeEnd
  <2> QED
    BY <1>0, <1>3, <2>2, AccountKept DEF PurgeEnd
<1>4. ASSUME NEW r \in Requests, DeactivateStart(r) PROVE AccountIInv'
  <2>1. switches' \in 0..MaxSwitches
    BY <1>0, <1>4 DEF DeactivateStart
  <2> QED
    BY <1>0, <1>4, <2>1, AccountKept DEF DeactivateStart
<1>5. ASSUME NEW b \in BOOLEAN, SetEnforced(b) PROVE AccountIInv'
  <2>1. switches' \in 0..MaxSwitches
    BY <1>0, <1>5 DEF SetEnforced
  <2> QED
    BY <1>0, <1>5, <2>1, AccountKept DEF SetEnforced
<1>6. CASE Tick
  <2>1. now' \in 1..MaxStep /\ now' >= now
    BY <1>0, <1>6 DEF Tick
  <2> QED
    BY <1>0, <1>6, <2>1, AccountKept DEF Tick
<1>7. /\ user \in [active : BOOLEAN, pw : 1..MaxPasswords, secret : 0..MaxSecrets,
                   enabled : BOOLEAN, lastStep : Nat]
  BY <1>0 DEF AccountIInv, UserInv
<1>8. ASSUME NEW r \in Requests, PasswordUpdate(r) PROVE AccountIInv'
  <2>1. /\ user' \in [active : BOOLEAN, pw : 1..MaxPasswords, secret : 0..MaxSecrets,
                      enabled : BOOLEAN, lastStep : Nat]
        /\ user'.lastStep = user.lastStep
    BY <1>0, <1>7, <1>8 DEF PasswordUpdate
  <2> QED
    BY <1>0, <1>8, <2>1, UserMoves DEF PasswordUpdate
<1>9. ASSUME NEW r \in Requests, DeactivateCommit(r) PROVE AccountIInv'
  <2>1. /\ user' \in [active : BOOLEAN, pw : 1..MaxPasswords, secret : 0..MaxSecrets,
                      enabled : BOOLEAN, lastStep : Nat]
        /\ user'.lastStep = user.lastStep
    BY <1>7, <1>9 DEF DeactivateCommit
  <2> QED
    BY <1>0, <1>9, <2>1, UserMoves DEF DeactivateCommit
<1>10. CASE Activate
  <2>1. /\ user' \in [active : BOOLEAN, pw : 1..MaxPasswords, secret : 0..MaxSecrets,
                      enabled : BOOLEAN, lastStep : Nat]
        /\ user'.lastStep = user.lastStep
    BY <1>7, <1>10 DEF Activate
  <2>2. switches' \in 0..MaxSwitches
    BY <1>0, <1>10 DEF Activate
  <2> QED
    BY <1>0, <1>10, <2>1, <2>2, UserMoves DEF Activate
<1>11. ASSUME NEW r \in Requests, SetupWrite(r) PROVE AccountIInv'
  <2>1. secrets' \in 0..MaxSecrets /\ secrets + 1 \in 0..MaxSecrets
    BY <1>0, <1>11 DEF SetupWrite
  <2>2. /\ user' \in [active : BOOLEAN, pw : 1..MaxPasswords, secret : 0..MaxSecrets,
                      enabled : BOOLEAN, lastStep : Nat]
        /\ user'.lastStep = user.lastStep
    BY <1>7, <1>11, <2>1 DEF SetupWrite
  <2> QED
    BY <1>0, <1>11, <2>1, <2>2, UserMoves DEF SetupWrite
<1>12. ASSUME NEW r \in Requests, DisableWrite(r) PROVE AccountIInv'
  <2>1. /\ user' \in [active : BOOLEAN, pw : 1..MaxPasswords, secret : 0..MaxSecrets,
                      enabled : BOOLEAN, lastStep : Nat]
        /\ user'.lastStep = user.lastStep
    <3>1. 0 \in 0..MaxSecrets /\ FALSE \in BOOLEAN
      BY <1>0
    <3>2. ASSUME NEW z \in 0..MaxSecrets, NEW b \in BOOLEAN
          PROVE  /\ [user EXCEPT !.enabled = b, !.secret = z]
                      \in [active : BOOLEAN, pw : 1..MaxPasswords, secret : 0..MaxSecrets,
                           enabled : BOOLEAN, lastStep : Nat]
                 /\ [user EXCEPT !.enabled = b, !.secret = z].lastStep = user.lastStep
      BY <1>7
    <3> QED
      BY <1>12, <3>1, <3>2, Zenon DEF DisableWrite
  <2> QED
    BY <1>0, <1>12, <2>1, UserMoves DEF DisableWrite
<1>13. ASSUME NEW r \in Requests,
              \/ LoginPassword(r) \/ SsoFinish(r) \/ LoadFactor(r) \/ ReadBackup(r)
              \/ FactorRefused(r) \/ Gate(r) \/ SsoActive(r) \/ RefreshConsume(r)
              \/ RefreshActive(r) \/ RefreshPurge(r) \/ Abort(r) \/ PasswordVerify(r)
              \/ PurgeStart(r) \/ SetupLoad(r) \/ EnableLoad(r) \/ DisableLoad(r)
       PROVE  AccountIInv'
  BY <1>1, <1>13 DEF LoginPassword, SsoFinish, LoadFactor, ReadBackup, FactorRefused, Gate,
     SsoActive, RefreshConsume, RefreshActive, RefreshPurge, Abort, PasswordVerify,
     PurgeStart, SetupLoad, EnableLoad, DisableLoad
<1>14. ASSUME NEW s \in sessions, Logout(s) \/ Expire(s) PROVE AccountIInv'
  BY <1>1, <1>14 DEF Logout, Expire
<1>15. CASE CleanExpiredSessions
  BY <1>1, <1>15 DEF CleanExpiredSessions
<1> QED
  BY <1>2, <1>3, <1>4, <1>5, <1>6, <1>8, <1>9, <1>10, <1>11, <1>12, <1>13, <1>14, <1>15,
     TotpStep, BackupStep, EnableStep DEF AuthNext

-----------------------------------------------------------------------------
(* The theorems.                                                           *)

\* The initial state satisfies the inductive invariant.
LEMMA AuthInitInv == AuthInit => AuthIInv
<1> SUFFICES ASSUME AuthInit PROVE AuthIInv
  OBVIOUS
<1>1. /\ aenv \in AuthEnvironments /\ Idle \in Request
      /\ MaxTokens \in Nat /\ MaxPasswords \in Nat /\ MaxSecrets \in Nat
      /\ MaxStep \in Nat /\ MaxSwitches \in Nat
      /\ MaxPasswords > 0 /\ MaxStep > 0 /\ Skew \in Nat
  BY BoundTypes DEF AuthInit
<1>2. BoundsInv /\ UserInv
  <2>1. BoundsInv
    <3>1. /\ switches = 0 /\ now = 1 /\ issued = 0 /\ secrets = 0 /\ enrolled = 0
          /\ revoked = 0
      BY DEF AuthInit
    <3>2. enforced \in BOOLEAN
      BY DEF AuthInit
    <3> QED
      BY <1>1, <3>1, <3>2 DEF BoundsInv
  <2>2. 1 \in 1..MaxPasswords /\ 0 \in 0..MaxSecrets /\ 0 \in Nat /\ 0 <= 1 + Skew
    BY <1>1
  <2>3. user \in [active : BOOLEAN, pw : 1..MaxPasswords, secret : 0..MaxSecrets,
                  enabled : BOOLEAN, lastStep : Nat] /\ user.lastStep = 0
    BY <2>2, Zenon DEF AuthInit
  <2> QED
    BY <2>1, <2>2, <2>3 DEF AuthInit, UserInv
<1>3. SecondFactorInv /\ FactorInv /\ FactorSpentOnce
  BY DEF AuthInit, SecondFactorInv, FactorInv, FactorSpentOnce
<1>4. SignInInv /\ \A r \in Requests : req[r] = Idle
  BY <1>1 DEF AuthInit, SignInInv
<1>5. IdleInv /\ RowsInv /\ HeldInv /\ SeenInv /\ OnlyAdmitted
  BY <1>4 DEF AuthInit, IdleInv, RowsInv, HeldInv, SeenInv, OnlyAdmitted, Idle
<1> QED
  BY <1>2, <1>3, <1>4, <1>5 DEF AuthIInv, SignInIInv, AccountIInv

\* Every step of the account keeps the inductive invariant.
LEMMA AuthInductive == AuthIInv /\ [AuthNext]_authvars => AuthIInv'
<1> SUFFICES ASSUME AuthIInv, [AuthNext]_authvars PROVE AuthIInv'
  OBVIOUS
<1>1. CASE AuthNext
  <2>1. SignInIInv'
    BY <1>1, AuthSignInStep, SessionStep, MintStep, ConsumeStep DEF AuthNext
  <2>2. AccountIInv'
    BY <1>1, AccountStep
  <2> QED
    BY <2>1, <2>2 DEF AuthIInv
<1>2. CASE UNCHANGED authvars
  <2>1. SignInIInv'
    BY <1>2, RowsMove DEF AuthIInv, authvars, SignInIInv, SignInInv, RowsInv
  <2>2. AccountIInv'
    BY <1>2, AccountKept DEF AuthIInv, AccountIInv, BoundsInv, authvars
  <2> QED
    BY <2>1, <2>2 DEF AuthIInv
<1> QED
  BY <1>1, <1>2

\* However many requests run at once, the rows of sessions stay well-formed, a
\* sign-in has one of them, and every one was issued to a request that saw the
\* account active and, for a password session, no enforcement of SSO.
THEOREM SessionsAlwaysSound == AuthSpec => []SessionsSound
<1>1. AuthIInv => SessionsSound
  BY AuthInvImplies
<1> QED
  BY <1>1, AuthInitInv, AuthInductive, PTL DEF AuthSpec

\* A TOTP code and a backup code authenticate one request, whatever enrolments,
\* sign-ins and removals of the second factor run beside it (totp_last_step, and
\* used = FALSE in the UPDATE).
THEOREM FactorsSpentOnce == AuthSpec => []FactorSpentOnce
<1>1. AuthIInv => FactorSpentOnce
  BY AuthInvImplies
<1> QED
  BY <1>1, AuthInitInv, AuthInductive, PTL DEF AuthSpec

-----------------------------------------------------------------------------
(* Single sign-on.                                                         *)

(* The inductive invariant, in parts.  What is said of one row or request  *)
(* is an operator on it and on the variables it depends on.                *)

Elements(s) == {s[k] : k \in DOMAIN s}
IsSequence(s) == s \in Seq(Elements(s))

CallFields == {"pc", "kind", "st", "code", "prov", "p", "flaw", "key", "got", "user", "ident",
               "proved", "in", "on", "inv"}
ProviderFields == {"id", "issuer", "secret", "enabled", "enforced", "jit", "linking", "verified",
                   "trust", "acr", "fallback", "mapping"}
AccountFields == {"addr", "exact", "active", "password", "factor"}
IdentityFields == {"id", "provider", "sub", "user", "addr", "st", "proved", "born"}
PendingFields == {"token", "provider", "user", "kind", "live", "st", "code"}

\* Where a request that signs nobody in may be, where one is whose token is not yet
\* checked, and where one is whose token was.
Aside == {"free", "request", "save", "clear", "enforce", "join"}
Checking == {"load", "exchange", "verify", "fetched", "claims"}
Resolved == {"resolve", "find", "provision", "challenge", "member", "sync", "touch", "active",
             "factor", "park", "issue"}
Owning == {"challenge", "member", "sync", "touch", "active", "factor", "park", "issue"}

ProviderOk(p) == DOMAIN p = ProviderFields /\ isAssignableRole(p.fallback)
Exists(u, a) == u \in Users /\ a[u] # NoAccount
\* The person of the code is the one who completed the code's sign-in.
CodeOk(code, s) == code.state \in DOMAIN s /\ s[code.state].who = code.who /\ code.who \in People
\* The second factor was given if the account was enrolled since the sign-in began.
FactorGiven(r, s) == r.user \in s[r.st].enrolled => "factor" \in r.proved

\* What holds of a request in progress, given the sign-ins s, the accounts a and what
\* enforcing administrators showed.
CallOk(r, s, a, sh) ==
    /\ DOMAIN r = CallFields /\ ProviderOk(r.p)
    /\ \/ r.kind = "none" /\ r.pc \in Aside \cup Checking \cup Resolved
       \/ r.kind = "totp" /\ r.pc \in {"load", "code", "active", "issue"}
       \/ r.kind = "link" /\ r.pc \in {"load", "password", "needs", "code", "active", "bind", "member", "issue"}
    /\ IF r.pc \in Aside THEN r.st = 0 ELSE r.st \in DOMAIN s /\ CodeOk(r.code, s)
    /\ r.kind # "none" \/ r.pc \in Resolved => r.code.state = r.st /\ r.code.who.addr # "none"
    /\ r.kind # "none" \/ r.pc \in Owning => Exists(r.user, a)
    /\ r.pc = "sync" => resolveRole(r.p, r.code.who).asserted
    /\ r.kind = "totp" /\ r.pc \in {"active", "issue"} => "factor" \in r.proved
    /\ r.kind = "link" /\ r.pc \in {"needs", "code", "active", "bind", "member", "issue"} => "password" \in r.proved
    /\ r.kind = "link" /\ r.pc \in {"active", "bind", "member", "issue"} => FactorGiven(r, s)
    /\ r.kind = "none" /\ r.pc = "issue" => (r.user \in s[r.st].enrolled => Asked(r.p) \in r.code.who.evidence)
    /\ r.pc = "save" => isAssignableRole(r.in.fallback) /\ (r.in.enabled => Metadata(r.in.issuer))
    /\ r.pc = "join" => (r.user = 0 \/ Exists(r.user, a)) /\ r.inv \in Invitations
    /\ r.pc = "enforce" => r.p.id # 0 /\ (r.on => \E x \in sh : x[1] = r.p.id)
CallsInv == DOMAIN call = Callers /\ \A c \in Callers : CallOk(call[c], sent, account, shown)

\* Accounts that exist have an address, and only they have a role.
AccountInv ==
    /\ DOMAIN account = Users /\ DOMAIN role = Users
    /\ \A u \in Users :
          /\ DOMAIN account[u] = AccountFields
          /\ account[u] = NoAccount \/ account[u].addr # "none"
          /\ account[u] = NoAccount => role[u] = "none"

\* Sign-ins are numbered, who is counted as enrolled since is enrolled, and a code is of
\* the person who got it.
SentInv ==
    /\ IsSequence(sent)
    /\ \A k \in DOMAIN sent :
          /\ DOMAIN sent[k] = {"issuer", "who", "enrolled"}
          /\ \A u \in sent[k].enrolled : u \in Users /\ account[u].factor
    /\ \A g \in grants : CodeOk(g, sent)

ProviderInv == ProviderOk(provider) /\ EnforcedWasShown /\ \A x \in shown : x[1] # 0

IdentityOk(i, s, a) ==
    /\ DOMAIN i = IdentityFields /\ Exists(i.user, a)
    /\ i.born \/ (i.st \in DOMAIN s /\ "password" \in i.proved /\ FactorGiven(i, s))
IdentityInv ==
    /\ \A i \in identities : IdentityOk(i, sent, account)
    /\ \A i, j \in identities : i.provider = j.provider /\ (i.sub = j.sub \/ i.user = j.user) => i = j

PendingOk(q, s, a) ==
    /\ DOMAIN q = PendingFields /\ q.kind \in {"totp", "link"}
    /\ CodeOk(q.code, s) /\ q.code.state = q.st /\ q.code.who.addr # "none"
    /\ Exists(q.user, a)
PendingInv == \A q \in pendings : PendingOk(q, sent, account)

\* A sign-in is in one place: its row, the request that spent the row, the row of its
\* second step, the request that spent that, or its session.
TokenInv ==
    /\ \A q \in authRequests : DOMAIN q = {"state", "provider", "live"} /\ q.state \in DOMAIN sent
    /\ \A q, r \in authRequests : q.state = r.state => q = r
    /\ \A q \in authRequests :
          /\ \A c \in Callers : call[c].st # q.state
          /\ \A p \in pendings : p.st # q.state
          /\ \A k \in DOMAIN logins : logins[k].st # q.state
    /\ \A c \in Callers : call[c].st # 0 =>
          /\ \A d \in Callers : call[d].st = call[c].st => d = c
          /\ \A p \in pendings : p.st # call[c].st
          /\ \A k \in DOMAIN logins : logins[k].st # call[c].st
    /\ \A p, q \in pendings : p.st = q.st => p = q
    /\ \A p \in pendings, k \in DOMAIN logins : logins[k].st # p.st

LoginInv ==
    /\ IsSequence(logins)
    /\ \A k \in DOMAIN logins : logins[k].st \in DOMAIN sent /\ logins[k].who \in People
    /\ SessionsAreEarned

\* Once the new key is old enough, whoever fetched has it.
KeyInv ==
    /\ DOMAIN jwks = {"key", "since"} /\ jwks.since \in Nat
    /\ DOMAIN cached = {"key", "age"} /\ cached.age \in Nat
    /\ jwks.since >= MinRefresh =>
          /\ cached.age < MinRefresh => cached.key = jwks.key
          /\ \A c \in Callers : In(c, "fetched") => call[c].got = jwks.key

\* The inductive invariant of single sign-on.
SsoIInv ==
    /\ CallsInv /\ AccountInv /\ SentInv /\ ProviderInv /\ IdentityInv /\ PendingInv
    /\ TokenInv /\ LoginInv /\ KeyInv

-----------------------------------------------------------------------------
(* Facts that several steps share.                                         *)

LEMMA FreeFacts ==
    /\ DOMAIN Free = CallFields /\ ProviderOk(Free.p)
    /\ Free.pc = "free" /\ Free.kind = "none" /\ Free.st = 0
<1>1. DOMAIN Free = CallFields
  BY DEF Free, CallFields
<1>2. Free.p = NoProvider /\ Free.pc = "free" /\ Free.kind = "none" /\ Free.st = 0
  BY DEF Free
<1>3. DOMAIN NoProvider = ProviderFields /\ NoProvider.fallback = "member"
  BY DEF NoProvider, ProviderFields
<1> QED
  BY <1>1, <1>2, <1>3 DEF ProviderOk, isAssignableRole

\* The sequence of sign-ins, or of sessions, grows by one.
LEMMA AppendFacts ==
    ASSUME NEW s, IsSequence(s), NEW x
    PROVE  /\ IsSequence(Append(s, x))
           /\ Len(s) \in Nat /\ DOMAIN s = 1..Len(s)
           /\ DOMAIN Append(s, x) = 1..(Len(s) + 1)
           /\ Append(s, x)[Len(s) + 1] = x
           /\ \A k \in DOMAIN s : Append(s, x)[k] = s[k]
<1> DEFINE E == Elements(s) \cup {x}
           t == Append(s, x)
<1>1. s \in Seq(E)
  <2>1. s \in Seq(Elements(s)) /\ Elements(s) \subseteq E
    BY DEF IsSequence
  <2> QED
    BY <2>1
<1>2. x \in E
  OBVIOUS
<1> HIDE DEF E
<1>3. /\ Len(s) \in Nat /\ DOMAIN s = 1..Len(s)
      /\ t \in Seq(E) /\ Len(t) = Len(s) + 1
      /\ \A k \in 1..Len(s) : t[k] = s[k]
      /\ t[Len(s) + 1] = x
  BY <1>1, <1>2
<1>4. DOMAIN t = 1..(Len(s) + 1)
  BY <1>3
<1> HIDE DEF t
<1>5. \A k \in 1..Len(t) : t[k] \in Elements(t)
  BY <1>3, <1>4 DEF Elements
<1>6. t \in Seq(Elements(t))
  BY <1>3, <1>5
<1> QED
  BY <1>3, <1>4, <1>6 DEF IsSequence, t

LEMMA SetWhoFacts ==
    ASSUME NEW s, IsSequence(s), NEW k \in DOMAIN s, NEW w,
           \A j \in DOMAIN s : DOMAIN s[j] = {"issuer", "who", "enrolled"}
    PROVE  LET t == [s EXCEPT ![k].who = w]
           IN  /\ IsSequence(t) /\ DOMAIN t = DOMAIN s
               /\ t[k].who = w
               /\ \A j \in DOMAIN s : /\ DOMAIN t[j] = {"issuer", "who", "enrolled"}
                                      /\ t[j].enrolled = s[j].enrolled
                                      /\ j # k => t[j] = s[j]
<1> DEFINE t == [s EXCEPT ![k].who = w]
           E == Elements(s) \cup {[s[k] EXCEPT !.who = w]}
<1>1. s \in Seq(E)
  <2>1. s \in Seq(Elements(s)) /\ Elements(s) \subseteq E
    BY DEF IsSequence
  <2> QED
    BY <2>1
<1>2. t = [s EXCEPT ![k] = [s[k] EXCEPT !.who = w]]
  OBVIOUS
<1>3. [s[k] EXCEPT !.who = w] \in E
  OBVIOUS
<1>4. DOMAIN t = DOMAIN s /\ t[k] = [s[k] EXCEPT !.who = w] /\ \A j \in DOMAIN s : j # k => t[j] = s[j]
  BY <1>2
<1>5. \A j \in DOMAIN s : DOMAIN t[j] = {"issuer", "who", "enrolled"} /\ t[j].enrolled = s[j].enrolled
  BY <1>4
<1>6. t[k].who = w
  BY <1>4
<1> HIDE DEF E
<1>7. t \in Seq(E) /\ DOMAIN t = 1..Len(t)
  <2>1. /\ Len(s) \in Nat /\ DOMAIN s = 1..Len(s) /\ \A j \in 1..Len(s) : s[j] \in E
    BY <1>1
  <2>2. [s EXCEPT ![k] = [s[k] EXCEPT !.who = w]] \in [1..Len(s) -> E]
    BY <1>1, <1>3, <2>1
  <2> QED
    BY <1>2, <2>1, <2>2
<1> HIDE DEF t
<1>8. t \in Seq(Elements(t))
  <2>1. \A j \in 1..Len(t) : t[j] \in Elements(t)
    BY <1>7 DEF Elements
  <2> QED
    BY <1>7, <2>1
<1> QED
  BY <1>4, <1>5, <1>6, <1>8 DEF IsSequence, t

\* What a step may change of what requests and rows rely on.
Grows(s, t, a, b) ==
    /\ DOMAIN s \subseteq DOMAIN t
    /\ \A k \in DOMAIN s : t[k].enrolled \subseteq s[k].enrolled /\ (s[k].who \in People => t[k].who = s[k].who)
    /\ \A u \in Users : a[u] # NoAccount => b[u] # NoAccount

LEMMA CallKeeps ==
    ASSUME NEW r, NEW s, NEW t, NEW a, NEW b, NEW sh, NEW sh2,
           CallOk(r, s, a, sh), Grows(s, t, a, b), sh \subseteq sh2
    PROVE  CallOk(r, t, b, sh2)
<1>1. CodeOk(r.code, s) => CodeOk(r.code, t)
  BY DEF Grows, CodeOk
<1>2. Exists(r.user, a) => Exists(r.user, b)
  BY DEF Grows, Exists
<1>3. r.st \in DOMAIN s => r.st \in DOMAIN t /\ t[r.st].enrolled \subseteq s[r.st].enrolled
  BY DEF Grows
<1>4. r.pc \in Aside => r.pc \notin {"active", "bind", "member", "issue"}
  BY DEF Aside
<1> QED
  BY <1>1, <1>2, <1>3, <1>4 DEF CallOk, FactorGiven

LEMMA PendingKeeps ==
    ASSUME NEW q, NEW s, NEW t, NEW a, NEW b, PendingOk(q, s, a), Grows(s, t, a, b)
    PROVE  PendingOk(q, t, b)
BY DEF PendingOk, Grows, CodeOk, Exists

LEMMA IdentityKeeps ==
    ASSUME NEW i, NEW s, NEW t, NEW a, NEW b, IdentityOk(i, s, a), Grows(s, t, a, b)
    PROVE  IdentityOk(i, t, b)
BY DEF IdentityOk, Grows, Exists, FactorGiven

LEMMA GrowsRefl ==
    \A s, a : Grows(s, s, a, a)
BY DEF Grows

\* A step of one request, of which only the rest is left to show.
LEMMA CallsStep ==
    ASSUME CallsInv, NEW c \in Callers, NEW new,
           call' = [call EXCEPT ![c] = new],
           CallOk(new, sent', account', shown'),
           Grows(sent, sent', account, account'), shown \subseteq shown'
    PROVE  CallsInv' /\ call'[c] = new /\ \A d \in Callers : d # c => call'[d] = call[d]
<1>1. DOMAIN call' = Callers /\ call'[c] = new /\ \A d \in Callers : d # c => call'[d] = call[d]
  BY DEF CallsInv
<1>2. ASSUME NEW d \in Callers, d # c PROVE CallOk(call[d], sent', account', shown')
  BY CallKeeps DEF CallsInv
<1> QED
  BY <1>1, <1>2 DEF CallsInv

\* A request ends, and lets go of what it held.
LEMMA FreeOk ==
    ASSUME NEW s, NEW a, NEW sh
    PROVE  CallOk(Free, s, a, sh)
BY FreeFacts DEF CallOk, Aside, Resolved, Owning

\* A step that only moves a sign-in on within its request, or drops sign-ins.
LEMMA TokenStep ==
    ASSUME TokenInv, NEW c \in Callers, NEW new, call' = [call EXCEPT ![c] = new], DOMAIN call = Callers,
           new.st \in {0, call[c].st},
           authRequests' \subseteq authRequests, pendings' \subseteq pendings,
           logins' = logins, DOMAIN sent \subseteq DOMAIN sent', IsSequence(sent)
    PROVE  TokenInv'
<1>1. call'[c] = new /\ \A d \in Callers : d # c => call'[d] = call[d]
  OBVIOUS
<1>2. 0 \notin DOMAIN sent
  BY DEF IsSequence
<1> QED
  BY <1>1, <1>2 DEF TokenInv

\* What is left of a request's fields when it moves on.
Alike(n, r) ==
    /\ DOMAIN n = CallFields
    /\ n.kind = r.kind /\ n.st = r.st /\ n.code = r.code /\ n.in = r.in /\ n.on = r.on

LEMMA MovedOn ==
    ASSUME NEW r, DOMAIN r = CallFields, NEW x
    PROVE  LET n == [r EXCEPT !.pc = x]
           IN  Alike(n, r) /\ n.pc = x /\ n.p = r.p /\ n.user = r.user /\ n.proved = r.proved /\ n.got = r.got
BY DEF CallFields, Alike

\* A step of one request that changes nothing but the request.
Moves(c, new) ==
    /\ call' = [call EXCEPT ![c] = new]
    /\ CallOk(new, sent, account, shown)
    /\ new.st \in {0, call[c].st}
    /\ new.pc = "fetched" => new.got = jwks.key

LEMMA QuietStep ==
    ASSUME SsoIInv, NEW c \in Callers, NEW new, Moves(c, new),
           UNCHANGED <<rowVars, idpVars, logins, shown>>
    PROVE  SsoIInv'
<1> USE DEF rowVars, idpVars
<1>1. CallsInv' /\ call'[c] = new /\ \A d \in Callers : d # c => call'[d] = call[d]
  BY CallsStep, GrowsRefl DEF SsoIInv, Moves
<1>2. TokenInv'
  BY TokenStep DEF SsoIInv, Moves, CallsInv, SentInv
<1>3. KeyInv'
  BY <1>1 DEF SsoIInv, KeyInv, Moves, In, MinRefresh
<1>4. AccountInv' /\ SentInv' /\ PendingInv'
  BY DEF SsoIInv, AccountInv, SentInv, PendingInv
<1>5. ProviderInv' /\ IdentityInv'
  BY DEF SsoIInv, ProviderInv, EnforcedWasShown, IdentityInv
<1>6. LoginInv'
  BY DEF SsoIInv, LoginInv, SessionsAreEarned
<1> QED
  BY <1>1, <1>2, <1>3, <1>4, <1>5, <1>6 DEF SsoIInv

LEMMA EndMoves ==
    ASSUME NEW c \in Callers, call' = [call EXCEPT ![c] = Free]
    PROVE  Moves(c, Free)
BY FreeOk, FreeFacts DEF Moves

-----------------------------------------------------------------------------
(* The steps of a sign-in that change only their request.                  *)

LEMMA KeySteps ==
    ASSUME SsoIInv, NEW c \in Callers, Key(c) \/ fetchKeys(c) \/ VerifyIDToken(c)
    PROVE  \E new : Moves(c, new)
<1> DEFINE r == call[c]
<1> USE DEF Aside, Checking, Resolved, Owning
<1>0. CallOk(r, sent, account, shown) /\ DOMAIN r = CallFields
  BY DEF SsoIInv, CallsInv, CallOk
<1>1. CASE call' = [call EXCEPT ![c] = Free]
  BY <1>1, EndMoves
<1>2. CASE Key(c) /\ Go(c, "claims")
  <2> DEFINE n == [r EXCEPT !.pc = "claims"]
  <2>1. Alike(n, r) /\ n.pc = "claims" /\ n.p = r.p /\ n.user = r.user
    BY <1>0, MovedOn
  <2>2. call' = [call EXCEPT ![c] = n] /\ r.pc = "verify"
    BY <1>2 DEF Go, Key, In
  <2> HIDE DEF n
  <2>3. CallOk(n, sent, account, shown)
    BY <1>0, <2>1, <2>2 DEF CallOk, Alike
  <2> QED
    BY <2>1, <2>2, <2>3 DEF Moves, Alike
<1>3. CASE fetchKeys(c)
  <2> DEFINE n == [r EXCEPT !.pc = "fetched", !.got = jwks.key]
  <2>1. Alike(n, r) /\ n.pc = "fetched" /\ n.p = r.p /\ n.user = r.user /\ n.got = jwks.key
    BY <1>0 DEF Alike, CallFields
  <2>2. call' = [call EXCEPT ![c] = n] /\ r.pc = "verify"
    BY <1>3 DEF Enter, fetchKeys, In
  <2> HIDE DEF n
  <2>3. CallOk(n, sent, account, shown)
    BY <1>0, <2>1, <2>2 DEF CallOk, Alike
  <2> QED
    BY <2>1, <2>2, <2>3 DEF Moves, Alike
<1>4. CASE VerifyIDToken(c) /\ Go(c, "resolve") /\ validate(call[c]) /\ Who(c).addr # "none"
  <2> DEFINE n == [r EXCEPT !.pc = "resolve"]
  <2>1. Alike(n, r) /\ n.pc = "resolve" /\ n.p = r.p /\ n.user = r.user
    BY <1>0, MovedOn
  <2>2. call' = [call EXCEPT ![c] = n] /\ r.pc = "claims" /\ r.code.state = r.st /\ r.code.who.addr # "none"
    BY <1>4 DEF Go, VerifyIDToken, In, validate, Who
  <2> HIDE DEF n
  <2>3. CallOk(n, sent, account, shown)
    BY <1>0, <2>1, <2>2 DEF CallOk, Alike
  <2> QED
    BY <2>1, <2>2, <2>3 DEF Moves, Alike
<1> QED
  BY <1>1, <1>2, <1>3, <1>4 DEF Key, VerifyIDToken, End

LEMMA LoadStep ==
    ASSUME SsoIInv, NEW c \in Callers, LoadProvider(c)
    PROVE  \E new : Moves(c, new)
<1> DEFINE r == call[c]
           n == [r EXCEPT !.pc = AfterLoad(r), !.p = provider]
<1> USE DEF Aside, Checking, Resolved, Owning
<1>0. CallOk(r, sent, account, shown) /\ DOMAIN r = CallFields
  BY DEF SsoIInv, CallsInv, CallOk
<1>1. CASE call' = [call EXCEPT ![c] = Free]
  BY <1>1, EndMoves
<1>2. CASE call' = [call EXCEPT ![c] = n]
  <2>1. Alike(n, r) /\ n.pc = AfterLoad(r) /\ n.p = provider /\ n.user = r.user
    BY <1>0 DEF Alike, CallFields
  <2>2. r.pc = "load"
    BY DEF LoadProvider, In
  <2>3. ProviderOk(provider)
    BY DEF SsoIInv, ProviderInv
  <2> HIDE DEF n
  <2>4. CallOk(n, sent, account, shown) /\ n.pc # "fetched"
    <3>1. CASE r.kind = "none"
      BY <1>0, <2>1, <2>2, <2>3, <3>1 DEF CallOk, Alike, AfterLoad
    <3>2. CASE r.kind = "totp"
      BY <1>0, <2>1, <2>2, <2>3, <3>2 DEF CallOk, Alike, AfterLoad
    <3>3. CASE r.kind = "link"
      BY <1>0, <2>1, <2>2, <2>3, <3>3 DEF CallOk, Alike, AfterLoad
    <3> QED
      BY <1>0, <3>1, <3>2, <3>3 DEF CallOk
  <2> QED
    BY <1>2, <2>1, <2>4 DEF Moves, Alike
<1> QED
  BY <1>1, <1>2 DEF LoadProvider, Enter, End

LEMMA LookupSteps ==
    ASSUME SsoIInv, NEW c \in Callers, GetIdentity(c) \/ FindLocalAccountByEmail(c)
    PROVE  \E new : Moves(c, new)
<1> DEFINE r == call[c]
<1> USE DEF Aside, Checking, Resolved, Owning
<1>0. CallOk(r, sent, account, shown) /\ DOMAIN r = CallFields
  BY DEF SsoIInv, CallsInv, CallOk
<1>1. CASE call' = [call EXCEPT ![c] = Free]
  BY <1>1, EndMoves
<1>2. ASSUME NEW x \in {"find", "provision"}, r.pc \in {"resolve", "find"}, Go(c, x)
      PROVE  \E new : Moves(c, new)
  <2> DEFINE n == [r EXCEPT !.pc = x]
  <2>1. Alike(n, r) /\ n.pc = x /\ n.p = r.p /\ n.user = r.user
    BY <1>0, MovedOn
  <2>2. call' = [call EXCEPT ![c] = n]
    BY <1>2 DEF Go
  <2> HIDE DEF n
  <2>3. CallOk(n, sent, account, shown)
    BY <1>0, <1>2, <2>1, <2>2 DEF CallOk, Alike
  <2> QED
    BY <1>2, <2>1, <2>2, <2>3 DEF Moves, Alike
<1>3. ASSUME NEW i \in identities, NEW x \in {"member", "touch"}, r.pc = "resolve",
             Enter(c, [r EXCEPT !.pc = x, !.user = i.user, !.ident = i.id])
      PROVE  \E new : Moves(c, new)
  <2> DEFINE n == [r EXCEPT !.pc = x, !.user = i.user, !.ident = i.id]
  <2>1. Alike(n, r) /\ n.pc = x /\ n.p = r.p /\ n.user = i.user
    BY <1>0 DEF Alike, CallFields
  <2>2. call' = [call EXCEPT ![c] = n]
    BY <1>3 DEF Enter
  <2>3. Exists(i.user, account)
    BY DEF SsoIInv, IdentityInv, IdentityOk
  <2> HIDE DEF n
  <2>4. CallOk(n, sent, account, shown)
    BY <1>0, <1>3, <2>1, <2>3 DEF CallOk, Alike
  <2> QED
    BY <1>3, <2>1, <2>2, <2>4 DEF Moves, Alike
<1>4. ASSUME NEW u \in Matches(Who(c).addr), r.pc = "find",
             Enter(c, [r EXCEPT !.pc = "challenge", !.user = u])
      PROVE  \E new : Moves(c, new)
  <2> DEFINE n == [r EXCEPT !.pc = "challenge", !.user = u]
  <2>1. Alike(n, r) /\ n.pc = "challenge" /\ n.p = r.p /\ n.user = u
    BY <1>0 DEF Alike, CallFields
  <2>2. call' = [call EXCEPT ![c] = n]
    BY <1>4 DEF Enter
  <2>3. r.code.who.addr # "none"
    BY <1>0, <1>4 DEF CallOk
  <2>4. Exists(u, account)
    BY <1>4, <2>3 DEF Exists, Matches, Who, NoAccount
  <2> HIDE DEF n
  <2>5. CallOk(n, sent, account, shown)
    BY <1>0, <1>4, <2>1, <2>4 DEF CallOk, Alike
  <2> QED
    BY <2>1, <2>2, <2>5 DEF Moves, Alike
<1>5. CASE GetIdentity(c)
  <2> DEFINE bound == BoundSubject(r.p.id, Who(c).sub)
  <2>1. r.pc = "resolve"
    BY <1>5 DEF GetIdentity, In
  <2>2. CASE Go(c, "find")
    BY <1>2, <2>1, <2>2
  <2>3. CASE \E i \in bound : Enter(c, [r EXCEPT !.pc = IF r.p.jit THEN "member" ELSE "touch",
                                                  !.user = i.user, !.ident = i.id])
    <3>1. PICK i \in bound : Enter(c, [r EXCEPT !.pc = IF r.p.jit THEN "member" ELSE "touch",
                                                !.user = i.user, !.ident = i.id])
      BY <2>3
    <3>2. i \in identities
      BY DEF BoundSubject
    <3>3. (IF r.p.jit THEN "member" ELSE "touch") \in {"member", "touch"}
      OBVIOUS
    <3> QED
      BY <1>3, <2>1, <3>1, <3>2, <3>3
  <2> QED
    BY <1>5, <2>2, <2>3 DEF GetIdentity
<1>6. CASE FindLocalAccountByEmail(c)
  <2>1. r.pc = "find"
    BY <1>6 DEF FindLocalAccountByEmail, In
  <2>2. \/ Go(c, "provision") \/ End(c)
        \/ \E u \in Matches(Who(c).addr) : Enter(c, [r EXCEPT !.pc = "challenge", !.user = u])
    BY <1>6 DEF FindLocalAccountByEmail
  <2> QED
    BY <1>1, <1>2, <1>4, <2>1, <2>2 DEF End
<1> QED
  BY <1>5, <1>6

\* The request goes on to x with all it holds.
LEMMA GoMoves ==
    ASSUME SsoIInv, NEW c \in Callers, NEW x, x # "fetched", Go(c, x),
           \A n : /\ Alike(n, call[c]) /\ n.pc = x /\ n.p = call[c].p
                  /\ n.user = call[c].user /\ n.proved = call[c].proved
                  => CallOk(n, sent, account, shown)
    PROVE  \E new : Moves(c, new) /\ new.pc = x
<1> DEFINE n == [call[c] EXCEPT !.pc = x]
<1>1. DOMAIN call[c] = CallFields
  BY DEF SsoIInv, CallsInv, CallOk
<1>2. /\ Alike(n, call[c]) /\ n.pc = x /\ n.p = call[c].p
      /\ n.user = call[c].user /\ n.proved = call[c].proved
  BY <1>1, MovedOn
<1>3. call' = [call EXCEPT ![c] = n]
  BY DEF Go
<1> HIDE DEF n
<1> QED
  BY <1>2, <1>3 DEF Moves, Alike

\* Whoever was enrolled when the sign-in began is enrolled now.
LEMMA StillEnrolled ==
    ASSUME SsoIInv, NEW c \in Callers, call[c].pc \notin Aside, call[c].user \in sent[call[c].st].enrolled
    PROVE  account[call[c].user].factor
BY DEF SsoIInv, CallsInv, CallOk, SentInv

LEMMA FactorSteps ==
    ASSUME SsoIInv, NEW c \in Callers,
           IsActive(c) \/ finish(c) \/ SecondFactorEnabled(c)
    PROVE  \E new : Moves(c, new)
<1> DEFINE r == call[c]
<1> USE DEF Aside, Checking, Resolved, Owning
<1>0. CallOk(r, sent, account, shown)
  BY DEF SsoIInv, CallsInv
<1>1. CASE End(c)
  BY <1>1, EndMoves DEF End
<1>2. CASE IsActive(c) /\ ~End(c)
  <2>1. r.pc = "active" /\ r.kind \in {"none", "totp", "link"}
    BY <1>0, <1>2 DEF IsActive, In, CallOk
  <2>2. CASE r.kind = "none"
    <3>1. Go(c, "factor")
      BY <1>2, <2>2 DEF IsActive
    <3>2. \A n : Alike(n, r) /\ n.pc = "factor" /\ n.p = r.p /\ n.user = r.user /\ n.proved = r.proved
                 => CallOk(n, sent, account, shown)
      BY <1>0, <2>1, <2>2 DEF CallOk, Alike
    <3> QED
      BY <3>1, <3>2, GoMoves
  <2>3. CASE r.kind = "totp"
    <3>1. Go(c, "issue")
      BY <1>2, <2>3 DEF IsActive
    <3>2. \A n : Alike(n, r) /\ n.pc = "issue" /\ n.p = r.p /\ n.user = r.user /\ n.proved = r.proved
                 => CallOk(n, sent, account, shown)
      BY <1>0, <2>1, <2>3 DEF CallOk, Alike
    <3> QED
      BY <3>1, <3>2, GoMoves
  <2>4. CASE r.kind = "link"
    <3>1. Go(c, "bind")
      BY <1>2, <2>4 DEF IsActive
    <3>2. \A n : Alike(n, r) /\ n.pc = "bind" /\ n.p = r.p /\ n.user = r.user /\ n.proved = r.proved
                 => CallOk(n, sent, account, shown)
      BY <1>0, <2>1, <2>4 DEF CallOk, Alike, FactorGiven
    <3> QED
      BY <3>1, <3>2, GoMoves
  <2> QED
    BY <2>1, <2>2, <2>3, <2>4
<1>3. CASE finish(c)
  <2>1. r.pc = "factor" /\ r.kind = "none"
    BY <1>0, <1>3 DEF finish, In, CallOk
  <2>2. CASE Go(c, "park")
    <3>1. \A n : Alike(n, r) /\ n.pc = "park" /\ n.p = r.p /\ n.user = r.user /\ n.proved = r.proved
                 => CallOk(n, sent, account, shown)
      BY <1>0, <2>1 DEF CallOk, Alike
    <3> QED
      BY <2>2, <3>1, GoMoves
  <2>3. CASE Go(c, "issue") /\ ~(account[r.user].factor /\ ~idpSatisfiedMFA(r.p, Who(c)))
    <3>1. r.user \in sent[r.st].enrolled => Asked(r.p) \in r.code.who.evidence
      BY <2>1, <2>3, StillEnrolled DEF idpSatisfiedMFA, Who
    <3>2. \A n : Alike(n, r) /\ n.pc = "issue" /\ n.p = r.p /\ n.user = r.user /\ n.proved = r.proved
                 => CallOk(n, sent, account, shown)
      BY <1>0, <2>1, <3>1 DEF CallOk, Alike
    <3> QED
      BY <2>3, <3>2, GoMoves
  <2> QED
    BY <1>3, <2>2, <2>3 DEF finish
<1>4. CASE SecondFactorEnabled(c)
  <2>1. r.pc = "needs" /\ r.kind = "link"
    BY <1>0, <1>4 DEF SecondFactorEnabled, In, CallOk
  <2>2. CASE Go(c, "code")
    <3>1. \A n : Alike(n, r) /\ n.pc = "code" /\ n.p = r.p /\ n.user = r.user /\ n.proved = r.proved
                 => CallOk(n, sent, account, shown)
      BY <1>0, <2>1 DEF CallOk, Alike
    <3> QED
      BY <2>2, <3>1, GoMoves
  <2>3. CASE Go(c, "active") /\ ~account[r.user].factor
    <3>1. r.user \notin sent[r.st].enrolled
      BY <2>1, <2>3, StillEnrolled
    <3>2. \A n : Alike(n, r) /\ n.pc = "active" /\ n.p = r.p /\ n.user = r.user /\ n.proved = r.proved
                 => CallOk(n, sent, account, shown)
      BY <1>0, <2>1, <3>1 DEF CallOk, Alike, FactorGiven
    <3> QED
      BY <2>3, <3>2, GoMoves
  <2> QED
    BY <1>4, <2>2, <2>3 DEF SecondFactorEnabled
<1> QED
  BY <1>1, <1>2, <1>3, <1>4

LEMMA ProofSteps ==
    ASSUME SsoIInv, NEW c \in Callers, NEW ok, VerifyPassword(c, ok) \/ ConsumeSecondFactor(c, ok)
    PROVE  \E new : Moves(c, new)
<1> DEFINE r == call[c]
<1> USE DEF Aside, Checking, Resolved, Owning
<1>0. CallOk(r, sent, account, shown) /\ DOMAIN r = CallFields
  BY DEF SsoIInv, CallsInv, CallOk
<1>1. CASE End(c)
  BY <1>1, EndMoves DEF End
<1>2. CASE VerifyPassword(c, ok) /\ ~End(c)
  <2> DEFINE n == [r EXCEPT !.pc = "needs", !.proved = {"password"}]
  <2>1. Alike(n, r) /\ n.pc = "needs" /\ n.p = r.p /\ n.user = r.user /\ n.proved = {"password"}
    BY <1>0 DEF Alike, CallFields
  <2>2. call' = [call EXCEPT ![c] = n] /\ r.pc = "password"
    BY <1>2 DEF Enter, VerifyPassword, In
  <2> HIDE DEF n
  <2>3. CallOk(n, sent, account, shown)
    BY <1>0, <2>1, <2>2 DEF CallOk, Alike
  <2> QED
    BY <2>1, <2>2, <2>3 DEF Moves, Alike
<1>3. CASE ConsumeSecondFactor(c, ok) /\ ~End(c)
  <2> DEFINE n == [r EXCEPT !.pc = "active", !.proved = @ \cup {"factor"}]
  <2>1. Alike(n, r) /\ n.pc = "active" /\ n.p = r.p /\ n.user = r.user /\ n.proved = r.proved \cup {"factor"}
    BY <1>0 DEF Alike, CallFields
  <2>2. call' = [call EXCEPT ![c] = n] /\ r.pc = "code"
    BY <1>3 DEF Enter, ConsumeSecondFactor, In
  <2> HIDE DEF n
  <2>3. CallOk(n, sent, account, shown)
    BY <1>0, <2>1, <2>2 DEF CallOk, Alike, FactorGiven
  <2> QED
    BY <2>1, <2>2, <2>3 DEF Moves, Alike
<1> QED
  BY <1>1, <1>2, <1>3

LEMMA BeginSteps ==
    ASSUME SsoIInv, NEW c \in Callers, Start(c) \/ (\E in \in senv.saves : SaveReads(c, in)) \/ RequestFails(c)
                                      \/ (\E i \in Invitations : AcceptInvite(c, i))
    PROVE  \E new : Moves(c, new)
<1> USE DEF Aside, Checking, Resolved, Owning
<1>1. CASE RequestFails(c)
  BY <1>1, EndMoves DEF RequestFails, End
<1>2. CASE Start(c)
  <2> DEFINE n == [Free EXCEPT !.pc = "request", !.p = provider]
  <2>1. Alike(n, Free) /\ n.pc = "request" /\ n.p = provider
    BY FreeFacts DEF Alike, CallFields
  <2>2. call' = [call EXCEPT ![c] = n]
    BY <1>2 DEF Start, Enter
  <2>3. ProviderOk(provider)
    BY DEF SsoIInv, ProviderInv
  <2> HIDE DEF n
  <2>4. CallOk(n, sent, account, shown)
    BY <2>1, <2>3, FreeFacts DEF CallOk, Alike
  <2> QED
    BY <2>1, <2>2, <2>4, FreeFacts DEF Moves, Alike
<1>3. ASSUME NEW in \in senv.saves, SaveReads(c, in)
      PROVE  \E new : Moves(c, new)
  <2> PICK w : w = Merged(in)
    OBVIOUS
  <2> DEFINE n == [Free EXCEPT !.pc = "save", !.in = w]
  <2>1. DOMAIN n = CallFields /\ n.kind = "none" /\ n.st = 0 /\ n.pc = "save" /\ n.p = Free.p /\ n.in = w
    BY FreeFacts DEF CallFields
  <2>2. call' = [call EXCEPT ![c] = n]
    BY <1>3 DEF SaveReads, Enter
  <2>3. isAssignableRole(w.fallback) /\ (w.enabled => Metadata(w.issuer))
    <3>1. w.fallback = in.fallback /\ w.issuer = in.issuer
      BY DEF Merged
    <3> QED
      BY <1>3, <3>1 DEF SaveReads, validateSaveInput, DiscoveredIfEnabled
  <2> HIDE DEF n
  <2>4. CallOk(n, sent, account, shown)
    BY <2>1, <2>3, FreeFacts DEF CallOk
  <2> QED
    BY <2>1, <2>2, <2>4 DEF Moves
<1>4. ASSUME NEW i \in Invitations, AcceptInvite(c, i)
      PROVE  \E new : Moves(c, new)
  <2>1. PICK u : /\ call' = [call EXCEPT ![c] = [Free EXCEPT !.pc = "join", !.inv = i, !.user = u]]
                 /\ u = 0 \/ u \in Matches(i.addr)
    BY <1>4 DEF AcceptInvite, Enter
  <2> DEFINE n == [Free EXCEPT !.pc = "join", !.inv = i, !.user = u]
  <2>2. DOMAIN n = CallFields /\ n.kind = "none" /\ n.st = 0 /\ n.pc = "join" /\ n.p = Free.p /\ n.inv = i /\ n.user = u
    BY FreeFacts DEF CallFields
  <2>3. u = 0 \/ Exists(u, account)
    <3>1. i.addr # "none" /\ NoAccount.addr = "none"
      BY DEF Invitations, NoAccount
    <3> QED
      BY <2>1, <3>1 DEF Matches, Exists
  <2> HIDE DEF n
  <2>4. CallOk(n, sent, account, shown)
    BY <2>2, <2>3, FreeFacts DEF CallOk
  <2> QED
    BY <2>1, <2>2, <2>4 DEF Moves, n
<1> QED
  BY <1>1, <1>2, <1>3, <1>4

-----------------------------------------------------------------------------
(* What a step leaves as it was, part by part.                             *)

LEMMA KeyFrame ==
    ASSUME SsoIInv, NEW c \in Callers, NEW new, call' = [call EXCEPT ![c] = new],
           new.pc # "fetched", UNCHANGED <<jwks, cached>>
    PROVE  KeyInv'
<1>1. call'[c] = new /\ \A d \in Callers : d # c => call'[d] = call[d]
  BY DEF SsoIInv, CallsInv
<1> QED
  BY <1>1 DEF SsoIInv, KeyInv, In, MinRefresh

LEMMA PendingFrame ==
    ASSUME SsoIInv, pendings' \subseteq pendings, Grows(sent, sent', account, account')
    PROVE  PendingInv'
BY PendingKeeps DEF SsoIInv, PendingInv

LEMMA IdentityFrame ==
    ASSUME SsoIInv, identities' \subseteq identities, Grows(sent, sent', account, account')
    PROVE  IdentityInv'
BY IdentityKeeps DEF SsoIInv, IdentityInv

LEMMA LoginFrame ==
    ASSUME SsoIInv, logins' = logins, Grows(sent, sent', account, account')
    PROVE  LoginInv'
BY DEF SsoIInv, LoginInv, SessionsAreEarned, Grows

LEMMA ProviderFrame ==
    ASSUME SsoIInv, provider' = provider, shown' = shown
    PROVE  ProviderInv'
BY DEF SsoIInv, ProviderInv, EnforcedWasShown

LEMMA SentFrame ==
    ASSUME SsoIInv, sent' = sent, grants' \subseteq grants, account' = account
    PROVE  SentInv'
BY DEF SsoIInv, SentInv

LEMMA AccountFrame ==
    ASSUME SsoIInv, account' = account, role' = role
    PROVE  AccountInv'
BY DEF SsoIInv, AccountInv

\* A step of a request that holds its sign-in on and writes no row of the directory.
LEMMA RequestFrame ==
    ASSUME SsoIInv, NEW c \in Callers, NEW new, Moves(c, new), new.pc # "fetched",
           UNCHANGED <<provider, account, identities, authRequests, pendings, idpVars, logins, shown>>,
           AccountInv'
    PROVE  SsoIInv'
<1> USE DEF idpVars
<1>1. Grows(sent, sent', account, account')
  BY GrowsRefl
<1>2. CallsInv'
  BY <1>1, CallsStep DEF Moves, SsoIInv
<1>3. TokenInv'
  BY TokenStep DEF Moves, SsoIInv, CallsInv, SentInv
<1>4. KeyInv'
  BY KeyFrame DEF Moves
<1> QED
  BY <1>1, <1>2, <1>3, <1>4, PendingFrame, IdentityFrame, LoginFrame, ProviderFrame, SentFrame DEF SsoIInv

-----------------------------------------------------------------------------
(* The other steps of a sign-in.                                           *)

LEMMA StoreKeysStep ==
    ASSUME SsoIInv, NEW c \in Callers, StoreKeys(c)
    PROVE  SsoIInv'
<1> DEFINE r == call[c]
<1> USE DEF Aside, Checking, Resolved, Owning, rowVars, idpVars
<1>0. CallOk(r, sent, account, shown) /\ r.pc = "fetched"
  BY DEF SsoIInv, CallsInv, StoreKeys, In
<1>1. PICK new : Moves(c, new) /\ new.pc # "fetched"
  <2>1. CASE End(c)
    BY <2>1, EndMoves, FreeFacts DEF End
  <2>2. CASE Go(c, "claims")
    <3>1. \A n : Alike(n, r) /\ n.pc = "claims" /\ n.p = r.p /\ n.user = r.user /\ n.proved = r.proved
                 => CallOk(n, sent, account, shown)
      BY <1>0 DEF CallOk, Alike
    <3> DEFINE n == [r EXCEPT !.pc = "claims"]
    <3>2. Alike(n, r) /\ n.pc = "claims" /\ n.p = r.p /\ n.user = r.user /\ n.proved = r.proved
      BY <1>0, MovedOn DEF CallOk
    <3>3. call' = [call EXCEPT ![c] = n]
      BY <2>2 DEF Go
    <3> HIDE DEF n
    <3>4. Moves(c, n)
      BY <3>1, <3>2, <3>3 DEF Moves, Alike
    <3> QED
      BY <3>2, <3>4
  <2> QED
    BY <2>1, <2>2 DEF StoreKeys
<1>2. Grows(sent, sent', account, account')
  BY GrowsRefl DEF StoreKeys
<1>3. CallsInv' /\ call'[c] = new /\ \A d \in Callers : d # c => call'[d] = call[d]
  BY <1>1, <1>2, CallsStep DEF Moves, SsoIInv, StoreKeys
<1>4. TokenInv'
  BY <1>1, TokenStep DEF Moves, SsoIInv, CallsInv, SentInv, StoreKeys
<1>5. KeyInv'
  <2>1. cached' = [key |-> r.got, age |-> 0] /\ jwks' = jwks
    BY DEF StoreKeys
  <2> QED
    BY <1>0, <1>1, <1>3, <2>1 DEF SsoIInv, KeyInv, In, MinRefresh
<1> QED
  BY <1>2, <1>3, <1>4, <1>5, PendingFrame, IdentityFrame, LoginFrame, ProviderFrame, SentFrame, AccountFrame
     DEF SsoIInv, StoreKeys

LEMMA ExchangeStep ==
    ASSUME SsoIInv, NEW c \in Callers, Exchange(c)
    PROVE  SsoIInv'
<1> DEFINE r == call[c]
<1> USE DEF Aside, Checking, Resolved, Owning, rowVars, idpVars
<1>0. CallOk(r, sent, account, shown) /\ r.pc = "exchange" /\ DOMAIN r = CallFields
  BY DEF SsoIInv, CallsInv, Exchange, In, CallOk
<1>1. PICK new : Moves(c, new) /\ new.pc # "fetched"
  <2>1. CASE End(c)
    BY <2>1, EndMoves, FreeFacts DEF End
  <2>2. ASSUME NEW flaw, Enter(c, [r EXCEPT !.pc = "verify", !.key = jwks.key, !.flaw = flaw])
        PROVE  \E new : Moves(c, new) /\ new.pc # "fetched"
    <3> DEFINE n == [r EXCEPT !.pc = "verify", !.key = jwks.key, !.flaw = flaw]
    <3>1. Alike(n, r) /\ n.pc = "verify" /\ n.p = r.p /\ n.user = r.user
      BY <1>0 DEF Alike, CallFields
    <3>2. call' = [call EXCEPT ![c] = n]
      BY <2>2 DEF Enter
    <3> HIDE DEF n
    <3>3. CallOk(n, sent, account, shown)
      BY <1>0, <3>1 DEF CallOk, Alike
    <3> QED
      BY <3>1, <3>2, <3>3 DEF Moves, Alike
  <2>3. End(c) \/ \E flaw \in senv.flaws : Enter(c, [r EXCEPT !.pc = "verify", !.key = jwks.key, !.flaw = flaw])
    BY DEF Exchange
  <2> QED
    BY <2>1, <2>2, <2>3
<1>2. Grows(sent, sent', account, account')
  BY GrowsRefl DEF Exchange
<1>3. grants' \subseteq grants
  BY DEF Exchange
<1>4. CallsInv'
  BY <1>1, <1>2, CallsStep DEF Moves, SsoIInv, Exchange
<1>5. TokenInv'
  BY <1>1, TokenStep DEF Moves, SsoIInv, CallsInv, SentInv, Exchange
<1>6. KeyInv'
  BY <1>1, KeyFrame DEF Moves, Exchange
<1> QED
  BY <1>2, <1>3, <1>4, <1>5, <1>6, PendingFrame, IdentityFrame, LoginFrame, ProviderFrame, SentFrame, AccountFrame
     DEF SsoIInv, Exchange

LEMMA CreateAuthRequestStep ==
    ASSUME SsoIInv, NEW c \in Callers, CreateAuthRequest(c)
    PROVE  SsoIInv'
<1> USE DEF Aside, Checking, Resolved, Owning
<1>0. /\ call' = [call EXCEPT ![c] = Free]
      /\ UNCHANGED <<provider, account, role, identities, pendings, grants, jwks, cached, logins, shown>>
  BY DEF CreateAuthRequest, End
<1>1. CASE UNCHANGED <<sent, authRequests>>
  BY <1>0, <1>1, EndMoves, QuietStep DEF rowVars, idpVars
<1>2. CASE ~UNCHANGED <<sent, authRequests>>
  <2> DEFINE new == [issuer |-> call[c].p.issuer, who |-> Nobody, enrolled |-> {u \in Users : account[u].factor}]
             row == [state |-> Len(sent) + 1, provider |-> provider.id, live |-> TRUE]
  <2>1. sent' = Append(sent, new) /\ authRequests' = authRequests \cup {row}
    BY <1>2 DEF CreateAuthRequest
  <2>2. DOMAIN new = {"issuer", "who", "enrolled"} /\ \A u \in new.enrolled : u \in Users /\ account[u].factor
    OBVIOUS
  <2>3. row.state = Len(sent) + 1 /\ DOMAIN row = {"state", "provider", "live"}
    OBVIOUS
  <2> HIDE DEF new, row
  <2>4. /\ IsSequence(sent') /\ Len(sent) \in Nat /\ DOMAIN sent = 1..Len(sent)
        /\ DOMAIN sent' = 1..(Len(sent) + 1) /\ sent'[Len(sent) + 1] = new
        /\ \A k \in DOMAIN sent : sent'[k] = sent[k]
    BY <2>1, AppendFacts DEF SsoIInv, SentInv
  <2>5. Grows(sent, sent', account, account')
    BY <1>0, <2>4 DEF Grows
  <2>6. CallsInv' /\ call'[c] = Free /\ \A d \in Callers : d # c => call'[d] = call[d]
    BY <1>0, <2>5, CallsStep, FreeOk DEF SsoIInv
  <2>7. TokenInv'
    <3>1. \A q \in authRequests : q.state # Len(sent) + 1
      BY <2>4 DEF SsoIInv, TokenInv
    <3>2. \A d \in Callers : call'[d].st # Len(sent) + 1 /\ (call'[d].st = 0 \/ (call'[d].st = call[d].st /\ d # c))
      <4>1. \A d \in Callers : call[d].st = 0 \/ call[d].st \in DOMAIN sent
        BY DEF SsoIInv, CallsInv, CallOk
      <4> QED
        BY <2>4, <2>6, <4>1, FreeFacts
    <3>3. \A p \in pendings : p.st \in DOMAIN sent
      BY DEF SsoIInv, PendingInv, PendingOk, CodeOk
    <3>4. \A k \in DOMAIN logins : logins[k].st \in DOMAIN sent
      BY DEF SsoIInv, LoginInv
    <3>5. \A q \in authRequests' : q = row \/ q \in authRequests
      BY <2>1
    <3>6. \A q \in authRequests : q.state # 0
      BY <2>4 DEF SsoIInv, TokenInv
    <3> QED
      BY <1>0, <2>3, <2>4, <3>1, <3>2, <3>3, <3>4, <3>5, <3>6 DEF SsoIInv, TokenInv
  <2>8. SentInv'
    <3>1. ASSUME NEW k \in DOMAIN sent'
          PROVE  /\ DOMAIN sent'[k] = {"issuer", "who", "enrolled"}
                 /\ \A u \in sent'[k].enrolled : u \in Users /\ account'[u].factor
      BY <1>0, <2>2, <2>4 DEF SsoIInv, SentInv
    <3>2. \A g \in grants' : CodeOk(g, sent')
      BY <1>0, <2>4 DEF SsoIInv, SentInv, CodeOk
    <3> QED
      BY <2>4, <3>1, <3>2 DEF SentInv
  <2>9. KeyInv'
    BY <1>0, KeyFrame, FreeFacts
  <2> QED
    BY <1>0, <2>5, <2>6, <2>7, <2>8, <2>9, PendingFrame, IdentityFrame, LoginFrame, ProviderFrame, AccountFrame
       DEF SsoIInv
<1> QED
  BY <1>1, <1>2

LEMMA CallbackStep ==
    ASSUME SsoIInv, NEW c \in Callers, NEW q \in authRequests, NEW g \in grants, Callback(c, q, g)
    PROVE  SsoIInv'
<1> USE DEF Aside, Checking, Resolved, Owning, idpVars
<1> DEFINE n == [Free EXCEPT !.pc = "load", !.st = q.state, !.code = g, !.prov = q.provider]
<1>1. /\ DOMAIN n = CallFields /\ n.p = Free.p /\ n.pc = "load" /\ n.kind = "none"
      /\ n.st = q.state /\ n.code = g
  BY FreeFacts DEF CallFields
<1>2. /\ call' = [call EXCEPT ![c] = n]
      /\ authRequests' = {p \in authRequests : p.state # q.state}
      /\ UNCHANGED <<provider, account, role, identities, pendings, idpVars, logins, shown>>
  BY DEF Callback, Enter, ConsumeAuthRequest
<1> HIDE DEF n
<1>3. CallOk(n, sent', account', shown')
  BY <1>1, <1>2, FreeFacts DEF CallOk, SsoIInv, SentInv, TokenInv
<1>4. Grows(sent, sent', account, account')
  BY <1>2, GrowsRefl
<1>5. CallsInv' /\ call'[c] = n /\ \A d \in Callers : d # c => call'[d] = call[d]
  BY <1>2, <1>3, <1>4, CallsStep DEF SsoIInv
<1>6. TokenInv'
  BY <1>1, <1>2, <1>5 DEF SsoIInv, TokenInv
<1>7. KeyInv'
  BY <1>1, <1>2, KeyFrame
<1> QED
  BY <1>2, <1>4, <1>5, <1>6, <1>7, PendingFrame, IdentityFrame, LoginFrame, ProviderFrame, SentFrame, AccountFrame
     DEF SsoIInv

LEMMA ParkStep ==
    ASSUME SsoIInv, NEW c \in Callers, challengeLink(c) \/ ParkForSecondFactor(c)
    PROVE  SsoIInv'
<1> DEFINE r == call[c]
<1> USE DEF Aside, Checking, Resolved, Owning, idpVars
<1>0. PICK kind \in {"link", "totp"} : newPending(c, kind)
  BY DEF challengeLink, ParkForSecondFactor
<1>1. /\ call' = [call EXCEPT ![c] = Free]
      /\ UNCHANGED <<provider, account, role, identities, authRequests, idpVars, logins, shown>>
  BY <1>0 DEF challengeLink, ParkForSecondFactor, newPending, End
<1>2. CASE pendings' = pendings
  BY <1>1, <1>2, EndMoves, QuietStep DEF rowVars
<1>3. CASE pendings' # pendings
  <2> DEFINE q == [token |-> NextId({x.token : x \in pendings}), provider |-> provider.id, user |-> r.user,
                   kind |-> kind, live |-> TRUE, st |-> r.st, code |-> r.code]
  <2>1. pendings' = pendings \cup {q}
    BY <1>0, <1>3 DEF newPending
  <2>2. /\ DOMAIN q = PendingFields /\ q.kind \in {"link", "totp"} /\ q.user = r.user
        /\ q.st = r.st /\ q.code = r.code
    BY DEF PendingFields
  <2> HIDE DEF q
  <2>3. /\ r.st \in DOMAIN sent /\ CodeOk(r.code, sent) /\ r.code.state = r.st /\ r.code.who.addr # "none"
        /\ Exists(r.user, account)
    <3>1. CallOk(r, sent, account, shown) /\ r.pc \in {"challenge", "park"}
      BY DEF SsoIInv, CallsInv, challengeLink, ParkForSecondFactor, In
    <3> QED
      BY <3>1 DEF CallOk
  <2>4. PendingInv'
    BY <1>1, <2>1, <2>2, <2>3 DEF SsoIInv, PendingInv, PendingOk
  <2>5. Grows(sent, sent', account, account')
    BY <1>1, GrowsRefl
  <2>6. CallsInv' /\ call'[c] = Free /\ \A d \in Callers : d # c => call'[d] = call[d]
    BY <1>1, <2>5, CallsStep, FreeOk DEF SsoIInv
  <2>7. TokenInv'
    <3>1. 0 \notin DOMAIN sent
      BY DEF SsoIInv, SentInv, IsSequence
    <3> QED
      BY <1>1, <2>1, <2>2, <2>3, <2>6, <3>1, FreeFacts DEF SsoIInv, TokenInv
  <2>8. KeyInv'
    BY <1>1, KeyFrame, FreeFacts
  <2> QED
    BY <1>1, <2>4, <2>5, <2>6, <2>7, <2>8, IdentityFrame, LoginFrame, ProviderFrame, SentFrame, AccountFrame
       DEF SsoIInv
<1> QED
  BY <1>2, <1>3

LEMMA CompleteStep ==
    ASSUME SsoIInv, NEW c \in Callers, NEW q \in pendings, CompleteTOTP(c, q) \/ CompleteLink(c, q)
    PROVE  SsoIInv'
<1> USE DEF Aside, Checking, Resolved, Owning, idpVars
<1> DEFINE n == [Free EXCEPT !.pc = "load", !.kind = q.kind, !.st = q.st, !.code = q.code, !.prov = q.provider,
                             !.user = q.user]
<1>1. /\ DOMAIN n = CallFields /\ n.p = Free.p /\ n.pc = "load" /\ n.kind = q.kind
      /\ n.st = q.st /\ n.code = q.code /\ n.user = q.user
  BY FreeFacts DEF CallFields
<1>2. /\ call' = [call EXCEPT ![c] = n]
      /\ pendings' = pendings \ {q}
      /\ UNCHANGED <<provider, account, role, identities, authRequests, idpVars, logins, shown>>
  BY DEF CompleteTOTP, CompleteLink, consumePending, Enter, ConsumePendingLogin
<1> HIDE DEF n
<1>3. CallOk(n, sent', account', shown')
  <2>1. PendingOk(q, sent, account)
    BY DEF SsoIInv, PendingInv
  <2> QED
    BY <1>1, <1>2, <2>1, FreeFacts DEF CallOk, PendingOk, CodeOk
<1>4. Grows(sent, sent', account, account')
  BY <1>2, GrowsRefl
<1>5. CallsInv' /\ call'[c] = n /\ \A d \in Callers : d # c => call'[d] = call[d]
  BY <1>2, <1>3, <1>4, CallsStep DEF SsoIInv
<1>6. TokenInv'
  BY <1>1, <1>2, <1>5 DEF SsoIInv, TokenInv
<1>7. KeyInv'
  BY <1>1, <1>2, KeyFrame
<1> QED
  BY <1>2, <1>4, <1>5, <1>6, <1>7, PendingFrame, IdentityFrame, LoginFrame, ProviderFrame, SentFrame, AccountFrame
     DEF SsoIInv

LEMMA IssueStep ==
    ASSUME SsoIInv, NEW c \in Callers, issue(c)
    PROVE  SsoIInv'
<1> DEFINE r == call[c]
<1> USE DEF Aside, Checking, Resolved, Owning, idpVars, rowVars
<1>0. /\ call' = [call EXCEPT ![c] = Free]
      /\ UNCHANGED <<rowVars, idpVars, shown>>
  BY DEF issue, End
<1>1. CASE logins' = logins
  BY <1>0, <1>1, EndMoves, QuietStep
<1>2. CASE logins' # logins
  <2> DEFINE l == [st |-> r.st, user |-> r.user, who |-> r.code.who, proved |-> r.proved, trust |-> Asked(r.p)]
  <2>1. logins' = Append(logins, l)
    BY <1>2 DEF issue, Who
  <2>2. l.st = r.st /\ l.user = r.user /\ l.who = r.code.who /\ l.proved = r.proved /\ l.trust = Asked(r.p)
    OBVIOUS
  <2> HIDE DEF l
  <2>3. /\ IsSequence(logins') /\ Len(logins) \in Nat /\ DOMAIN logins = 1..Len(logins)
        /\ DOMAIN logins' = 1..(Len(logins) + 1) /\ logins'[Len(logins) + 1] = l
        /\ \A k \in DOMAIN logins : logins'[k] = logins[k]
    BY <2>1, AppendFacts DEF SsoIInv, LoginInv
  <2>4. /\ r.st \in DOMAIN sent /\ r.code.who \in People /\ sent[r.st].who = r.code.who
        /\ r.user \in sent[r.st].enrolled => "factor" \in r.proved \/ Asked(r.p) \in r.code.who.evidence
    <3>1. CallOk(r, sent, account, shown) /\ r.pc = "issue"
      BY DEF SsoIInv, CallsInv, issue, In
    <3> QED
      BY <3>1 DEF CallOk, CodeOk, FactorGiven
  <2>5. \A k \in DOMAIN logins' : k \in DOMAIN logins \/ k = Len(logins) + 1
    BY <2>3
  <2>6. 0 \notin DOMAIN sent
    BY DEF SsoIInv, SentInv, IsSequence
  <2>7. \A k \in DOMAIN logins : logins[k].st # r.st
    BY <2>4, <2>6 DEF SsoIInv, TokenInv
  <2>8. LoginInv'
    <3>1. \A k \in DOMAIN logins' : logins'[k].st \in DOMAIN sent' /\ logins'[k].who \in People
      BY <1>0, <2>2, <2>3, <2>4, <2>5 DEF SsoIInv, LoginInv
    <3>2. \A j, k \in DOMAIN logins' : logins'[j].st = logins'[k].st => j = k
      BY <2>2, <2>3, <2>5, <2>7 DEF SsoIInv, LoginInv, SessionsAreEarned
    <3>3. ASSUME NEW k \in DOMAIN logins'
          PROVE  /\ sent'[logins'[k].st].who = logins'[k].who
                 /\ logins'[k].user \in sent'[logins'[k].st].enrolled =>
                       "factor" \in logins'[k].proved \/ logins'[k].trust \in logins'[k].who.evidence
      BY <1>0, <2>2, <2>3, <2>4, <2>5 DEF SsoIInv, LoginInv, SessionsAreEarned
    <3> QED
      BY <2>3, <3>1, <3>2, <3>3 DEF LoginInv, SessionsAreEarned
  <2>9. Grows(sent, sent', account, account')
    BY <1>0, GrowsRefl
  <2>10. CallsInv' /\ call'[c] = Free /\ \A d \in Callers : d # c => call'[d] = call[d]
    BY <1>0, <2>9, CallsStep, FreeOk DEF SsoIInv
  <2>11. TokenInv'
    BY <1>0, <2>2, <2>3, <2>4, <2>5, <2>6, <2>10, FreeFacts DEF SsoIInv, TokenInv
  <2>12. KeyInv'
    BY <1>0, KeyFrame, FreeFacts
  <2> QED
    BY <1>0, <2>8, <2>9, <2>10, <2>11, <2>12, PendingFrame, IdentityFrame, ProviderFrame, SentFrame, AccountFrame
       DEF SsoIInv
<1> QED
  BY <1>1, <1>2

LEMMA EnsureMembershipStep ==
    ASSUME SsoIInv, NEW c \in Callers, EnsureMembership(c)
    PROVE  SsoIInv'
<1> DEFINE r == call[c]
<1> USE DEF Aside, Checking, Resolved, Owning
<1>0. CallOk(r, sent, account, shown) /\ r.pc = "member" /\ r.kind \in {"none", "link"}
  BY DEF SsoIInv, CallsInv, EnsureMembership, In, CallOk
<1>1. PICK new : Moves(c, new) /\ new.pc # "fetched"
  <2>1. CASE r.kind = "link"
    <3>1. ~RoleFor(c).asserted
      BY <2>1 DEF RoleFor
    <3>2. Go(c, "issue")
      BY <2>1, <3>1 DEF EnsureMembership
    <3>3. \A n : Alike(n, r) /\ n.pc = "issue" /\ n.p = r.p /\ n.user = r.user /\ n.proved = r.proved
                 => CallOk(n, sent, account, shown)
      BY <1>0, <2>1 DEF CallOk, Alike, FactorGiven
    <3> QED
      BY <3>2, <3>3, GoMoves
  <2>2. CASE r.kind = "none" /\ Go(c, "sync") /\ RoleFor(c).asserted
    <3>1. resolveRole(r.p, r.code.who).asserted
      BY <2>2 DEF RoleFor, Who
    <3>2. \A n : Alike(n, r) /\ n.pc = "sync" /\ n.p = r.p /\ n.user = r.user /\ n.proved = r.proved
                 => CallOk(n, sent, account, shown)
      BY <1>0, <2>2, <3>1 DEF CallOk, Alike
    <3> QED
      BY <2>2, <3>2, GoMoves
  <2>3. CASE r.kind = "none" /\ Go(c, "touch")
    <3>1. \A n : Alike(n, r) /\ n.pc = "touch" /\ n.p = r.p /\ n.user = r.user /\ n.proved = r.proved
                 => CallOk(n, sent, account, shown)
      BY <1>0, <2>3 DEF CallOk, Alike
    <3> QED
      BY <2>3, <3>1, GoMoves
  <2> QED
    BY <1>0, <2>1, <2>2, <2>3 DEF EnsureMembership
<1>2. AccountInv'
  <2>1. r.user \in Users /\ account[r.user] # NoAccount
    BY <1>0 DEF CallOk, Exists
  <2>2. account' = account /\ (role' = role \/ role' = [role EXCEPT ![r.user] = RoleFor(c).role])
    BY DEF EnsureMembership
  <2> QED
    BY <2>1, <2>2 DEF SsoIInv, AccountInv
<1> QED
  BY <1>1, <1>2, RequestFrame DEF EnsureMembership

LEMMA SyncRoleStep ==
    ASSUME SsoIInv, NEW c \in Callers, SyncRole(c)
    PROVE  SsoIInv'
<1> DEFINE r == call[c]
<1> USE DEF Aside, Checking, Resolved, Owning
<1>0. CallOk(r, sent, account, shown) /\ r.pc = "sync" /\ r.kind = "none"
  BY DEF SsoIInv, CallsInv, SyncRole, In, CallOk
<1>1. PICK new : Moves(c, new) /\ new.pc # "fetched"
  <2>1. \A n : Alike(n, r) /\ n.pc = "touch" /\ n.p = r.p /\ n.user = r.user /\ n.proved = r.proved
               => CallOk(n, sent, account, shown)
    BY <1>0 DEF CallOk, Alike
  <2> QED
    BY <2>1, GoMoves DEF SyncRole
<1>2. AccountInv'
  <2>1. r.user \in Users /\ account[r.user] # NoAccount
    BY <1>0 DEF CallOk, Exists
  <2>2. account' = account /\ (role' = role \/ role' = [role EXCEPT ![r.user] = RoleFor(c).role])
    BY DEF SyncRole
  <2> QED
    BY <2>1, <2>2 DEF SsoIInv, AccountInv
<1> QED
  BY <1>1, <1>2, RequestFrame DEF SyncRole

LEMMA TouchIdentityStep ==
    ASSUME SsoIInv, NEW c \in Callers, TouchIdentity(c)
    PROVE  SsoIInv'
<1> DEFINE r == call[c]
           touched(i) == IF i.id = r.ident THEN [i EXCEPT !.addr = Who(c).addr] ELSE i
<1> USE DEF Aside, Checking, Resolved, Owning, idpVars
<1>0. CallOk(r, sent, account, shown) /\ r.pc = "touch" /\ r.kind = "none"
  BY DEF SsoIInv, CallsInv, TouchIdentity, In, CallOk
<1>1. PICK new : Moves(c, new) /\ new.pc = "active"
  <2>1. \A n : Alike(n, r) /\ n.pc = "active" /\ n.p = r.p /\ n.user = r.user /\ n.proved = r.proved
               => CallOk(n, sent, account, shown)
    BY <1>0 DEF CallOk, Alike
  <2> QED
    BY <2>1, GoMoves DEF TouchIdentity
<1>2. /\ identities' = {touched(i) : i \in identities}
      /\ UNCHANGED <<provider, account, role, authRequests, pendings, idpVars, logins, shown>>
  BY DEF TouchIdentity
<1>3. Grows(sent, sent', account, account')
  BY <1>2, GrowsRefl
<1>4. IdentityInv'
  <2>1. \A i \in identities : IdentityOk(i, sent, account) /\ DOMAIN i = IdentityFields
    BY DEF SsoIInv, IdentityInv, IdentityOk
  <2>2. ASSUME NEW i \in identities
        PROVE  /\ DOMAIN touched(i) = IdentityFields /\ touched(i).provider = i.provider /\ touched(i).sub = i.sub
               /\ touched(i).user = i.user /\ touched(i).st = i.st /\ touched(i).proved = i.proved
               /\ touched(i).born = i.born
    BY <2>1 DEF IdentityFields
  <2> HIDE DEF touched
  <2>3. \A i \in identities : IdentityOk(touched(i), sent', account')
    BY <1>2, <2>1, <2>2 DEF IdentityOk, FactorGiven
  <2>4. ASSUME NEW i \in identities, NEW j \in identities, touched(i).provider = touched(j).provider,
               touched(i).sub = touched(j).sub \/ touched(i).user = touched(j).user
        PROVE  touched(i) = touched(j)
    <3>1. i = j
      BY <2>2, <2>4 DEF SsoIInv, IdentityInv
    <3> QED
      BY <3>1
  <2> QED
    BY <1>2, <2>3, <2>4 DEF IdentityInv
<1>5. CallsInv'
  BY <1>1, <1>2, <1>3, CallsStep DEF Moves, SsoIInv
<1>6. TokenInv'
  BY <1>1, <1>2, TokenStep DEF Moves, SsoIInv, CallsInv, SentInv
<1>7. KeyInv'
  BY <1>1, <1>2, KeyFrame DEF Moves
<1> QED
  BY <1>2, <1>3, <1>4, <1>5, <1>6, <1>7, PendingFrame, LoginFrame, ProviderFrame, SentFrame, AccountFrame DEF SsoIInv

\* The smallest unused number is unused.
LEMMA SmallestUnused ==
    ASSUME Unused # {}
    PROVE  (CHOOSE n \in Unused : \A m \in Unused : n <= m) \in Unused
<1>1. Unused \subseteq Nat
  BY SsoAssumption DEF Unused
<1> DEFINE less == OpToRel(<, Nat)
<1>2. IsWellFoundedOn(less, Nat)
  BY NatLessThanWellFounded
<1>3. \A x, y \in Nat : <<y, x>> \in less <=> y < x
  BY DEF OpToRel
<1> HIDE DEF less
<1>4. PICK n \in Unused : \A m \in Unused : <<m, n>> \notin less
  BY <1>1, <1>2, WFMin
<1>5. ASSUME NEW m \in Unused PROVE n <= m
  <2>1. n \in Nat /\ m \in Nat
    BY <1>1
  <2>2. ~(m < n)
    BY <1>3, <1>4, <2>1, Zenon
  <2> QED
    BY <2>1, <2>2
<1> QED
  BY <1>5

\* A subject is bound: its provider has neither the subject nor the account yet.
LEMMA BindStep ==
    ASSUME SsoIInv, NEW i, identities' = identities \cup {i},
           IdentityOk(i, sent', account'), Grows(sent, sent', account, account'),
           \A j \in identities : j.provider = i.provider => j.sub # i.sub /\ j.user # i.user
    PROVE  IdentityInv'
<1>1. \A j \in identities' : j = i \/ (j \in identities /\ IdentityOk(j, sent', account'))
  BY IdentityKeeps DEF SsoIInv, IdentityInv
<1> QED
  BY <1>1 DEF SsoIInv, IdentityInv

LEMMA ProvisionUserStep ==
    ASSUME SsoIInv, NEW c \in Callers, ProvisionUser(c)
    PROVE  SsoIInv'
<1> DEFINE r == call[c]
           u == CHOOSE n \in Unused : \A m \in Unused : n <= m
           a == [addr |-> Who(c).addr, exact |-> "lower", active |-> TRUE, password |-> FALSE, factor |-> FALSE]
           i == IdentityOf(c, u, TRUE)
           n == [r EXCEPT !.pc = "active", !.user = u]
<1> USE DEF Aside, Checking, Resolved, Owning, idpVars
<1>0. CallOk(r, sent, account, shown) /\ r.pc = "provision" /\ r.kind = "none" /\ DOMAIN r = CallFields
  BY DEF SsoIInv, CallsInv, ProvisionUser, In, CallOk
<1>1. u \in Users /\ account[u] = NoAccount
  BY SmallestUnused DEF ProvisionUser, Unused
<1>2. a.addr = r.code.who.addr /\ DOMAIN a = AccountFields
  BY DEF Who, AccountFields
<1>3. r.code.who.addr # "none"
  BY <1>0 DEF CallOk
<1>4. /\ DOMAIN i = IdentityFields /\ i.provider = r.p.id /\ i.sub = Who(c).sub
      /\ i.user = u /\ i.born = TRUE
  BY DEF IdentityOf, IdentityFields
<1>5. Alike(n, r) /\ n.pc = "active" /\ n.p = r.p /\ n.user = u
  BY <1>0 DEF Alike, CallFields
<1>6. UNCHANGED <<provider, authRequests, pendings, idpVars, logins, shown>>
  BY DEF ProvisionUser
<1>7. \/ UNCHANGED <<account, role, identities>> /\ End(c)
      \/ /\ BoundSubject(r.p.id, Who(c).sub) = {}
         /\ account' = [account EXCEPT ![u] = a]
         /\ role' = [role EXCEPT ![u] = resolveRole(r.p, Who(c)).role]
         /\ identities' = identities \cup {i}
         /\ call' = [call EXCEPT ![c] = n]
  BY DEF ProvisionUser, Enter
<1> HIDE DEF u, a, i, n
<1>8. CASE UNCHANGED <<account, role, identities>> /\ End(c)
  BY <1>6, <1>8, EndMoves, QuietStep DEF End, rowVars
<1>9. CASE /\ BoundSubject(r.p.id, Who(c).sub) = {}
           /\ account' = [account EXCEPT ![u] = a]
           /\ role' = [role EXCEPT ![u] = resolveRole(r.p, Who(c)).role]
           /\ identities' = identities \cup {i}
           /\ call' = [call EXCEPT ![c] = n]
  <2>1. a # NoAccount
    BY <1>2, <1>3 DEF NoAccount
  <2>2. /\ DOMAIN account = Users /\ DOMAIN account' = Users /\ account'[u] = a
        /\ \A v \in Users : v # u => account'[v] = account[v]
    BY <1>1, <1>9 DEF SsoIInv, AccountInv
  <2>3. Grows(sent, sent', account, account')
    BY <1>6, <2>1, <2>2 DEF Grows
  <2>4. AccountInv'
    BY <1>1, <1>2, <1>3, <1>9, <2>1, <2>2 DEF SsoIInv, AccountInv
  <2>5. SentInv'
    <3>1. ~account[u].factor
      BY <1>1 DEF NoAccount
    <3>2. \A k \in DOMAIN sent : \A v \in sent[k].enrolled : v \in Users /\ account'[v].factor
      BY <2>2, <3>1 DEF SsoIInv, SentInv
    <3> QED
      BY <1>6, <3>2 DEF SsoIInv, SentInv
  <2>6. IdentityInv'
    <3>1. \A j \in identities : j.user # u
      BY <1>1 DEF SsoIInv, IdentityInv, IdentityOk, Exists
    <3>2. \A j \in identities : j.provider = r.p.id => j.sub # Who(c).sub
      BY <1>9 DEF BoundSubject
    <3>3. IdentityOk(i, sent', account')
      BY <1>1, <1>4, <2>1, <2>2 DEF IdentityOk, Exists
    <3> QED
      BY <1>4, <1>9, <2>3, <3>1, <3>2, <3>3, BindStep
  <2>7. CallOk(n, sent', account', shown')
    BY <1>0, <1>1, <1>5, <1>6, <2>1, <2>2 DEF CallOk, Alike, Exists
  <2>8. CallsInv'
    BY <1>6, <1>9, <2>3, <2>7, CallsStep DEF SsoIInv
  <2>9. TokenInv'
    BY <1>5, <1>6, <1>9, TokenStep DEF SsoIInv, CallsInv, SentInv, Alike
  <2>10. KeyInv'
    BY <1>5, <1>6, <1>9, KeyFrame
  <2> QED
    BY <1>6, <2>3, <2>4, <2>5, <2>6, <2>8, <2>9, <2>10, PendingFrame, LoginFrame, ProviderFrame DEF SsoIInv
<1> QED
  BY <1>7, <1>8, <1>9

LEMMA LinkIdentityStep ==
    ASSUME SsoIInv, NEW c \in Callers, LinkIdentity(c)
    PROVE  SsoIInv'
<1> DEFINE r == call[c]
           i == IdentityOf(c, r.user, FALSE)
<1> USE DEF Aside, Checking, Resolved, Owning, idpVars
<1>0. CallOk(r, sent, account, shown) /\ r.pc = "bind" /\ r.kind = "link"
  BY DEF SsoIInv, CallsInv, LinkIdentity, In, CallOk
<1>1. UNCHANGED <<provider, account, role, authRequests, pendings, idpVars, logins, shown>>
  BY DEF LinkIdentity
<1>2. CASE identities' = identities /\ End(c)
  BY <1>1, <1>2, EndMoves, QuietStep DEF End, rowVars
<1>3. CASE ~(identities' = identities /\ End(c))
  <2>1. /\ BoundSubject(r.p.id, Who(c).sub) = {} /\ BoundUser(r.p.id, r.user) = {}
        /\ identities' = identities \cup {i}
        /\ Go(c, IF r.p.jit THEN "member" ELSE "issue")
    BY <1>3 DEF LinkIdentity
  <2>2. /\ DOMAIN i = IdentityFields /\ i.provider = r.p.id /\ i.sub = Who(c).sub
        /\ i.user = r.user /\ i.st = r.st /\ i.proved = r.proved /\ i.born = FALSE
    BY DEF IdentityOf, IdentityFields
  <2> HIDE DEF i
  <2>3. Grows(sent, sent', account, account')
    BY <1>1, GrowsRefl
  <2>4. IdentityInv'
    <3>1. \A j \in identities : j.provider = r.p.id => j.sub # Who(c).sub /\ j.user # r.user
      BY <2>1 DEF BoundSubject, BoundUser
    <3>2. IdentityOk(i, sent', account')
      BY <1>0, <1>1, <2>2 DEF CallOk, IdentityOk, FactorGiven
    <3> QED
      BY <2>1, <2>2, <2>3, <3>1, <3>2, BindStep
  <2>5. PICK new : Moves(c, new) /\ new.pc # "fetched"
    <3> DEFINE x == IF r.p.jit THEN "member" ELSE "issue"
    <3>1. x \in {"member", "issue"}
      OBVIOUS
    <3> HIDE DEF x
    <3>2. \A n : Alike(n, r) /\ n.pc = x /\ n.p = r.p /\ n.user = r.user /\ n.proved = r.proved
                 => CallOk(n, sent, account, shown)
      BY <1>0, <3>1 DEF CallOk, Alike, FactorGiven
    <3>3. Go(c, x) /\ x # "fetched"
      BY <2>1, <3>1 DEF x
    <3> QED
      BY <3>2, <3>3, GoMoves
  <2>6. CallsInv'
    BY <1>1, <2>3, <2>5, CallsStep DEF Moves, SsoIInv
  <2>7. TokenInv'
    BY <1>1, <2>5, TokenStep DEF Moves, SsoIInv, CallsInv, SentInv
  <2>8. KeyInv'
    BY <1>1, <2>5, KeyFrame DEF Moves
  <2> QED
    BY <1>1, <2>3, <2>4, <2>6, <2>7, <2>8, PendingFrame, LoginFrame, ProviderFrame, SentFrame, AccountFrame DEF SsoIInv
<1> QED
  BY <1>2, <1>3

-----------------------------------------------------------------------------
(* Administration.                                                         *)

LEMMA AdminFrame ==
    ASSUME SsoIInv, NEW c \in Callers, NEW new, call' = [call EXCEPT ![c] = new],
           CallOk(new, sent, account, shown'), new.st = 0, new.pc # "fetched",
           shown \subseteq shown', ProviderInv',
           UNCHANGED <<account, role, identities, authRequests, pendings, idpVars, logins>>
    PROVE  SsoIInv'
<1> USE DEF idpVars
<1>1. Grows(sent, sent', account, account')
  BY GrowsRefl
<1>2. CallsInv'
  BY <1>1, CallsStep DEF SsoIInv
<1>3. TokenInv'
  BY TokenStep DEF SsoIInv, CallsInv, SentInv
<1>4. KeyInv'
  BY KeyFrame
<1> QED
  BY <1>1, <1>2, <1>3, <1>4, PendingFrame, IdentityFrame, LoginFrame, SentFrame, AccountFrame DEF SsoIInv

LEMMA SaveProviderStep ==
    ASSUME SsoIInv, NEW c \in Callers, SaveProvider(c)
    PROVE  SsoIInv'
<1> DEFINE r == call[c]
           secret == IF r.in.secret \in {"keep", "clear"} THEN provider.secret ELSE r.in.secret
           p == [id |-> provider.id, issuer |-> r.in.issuer, enabled |-> r.in.enabled,
                 enforced |-> provider.enforced /\ r.in.enabled, jit |-> r.in.jit, linking |-> r.in.linking,
                 verified |-> r.in.verified, trust |-> r.in.trust, acr |-> r.in.acr, fallback |-> r.in.fallback,
                 mapping |-> r.in.mapping, secret |-> secret]
<1> USE DEF Aside, Checking, Resolved, Owning, idpVars
<1>0. CallOk(r, sent, account, shown) /\ r.pc = "save" /\ DOMAIN r = CallFields /\ r.kind = "none" /\ r.st = 0
  BY DEF SsoIInv, CallsInv, SaveProvider, In, CallOk
<1>1. DOMAIN provider = ProviderFields
  BY DEF SsoIInv, ProviderInv, ProviderOk
<1>2. /\ provider' = IF provider.id = 0 THEN [p EXCEPT !.id = senv.nextId] ELSE p
      /\ UNCHANGED <<account, role, identities, authRequests, pendings, idpVars, logins, shown>>
  BY DEF SaveProvider
<1>3. /\ DOMAIN p = ProviderFields /\ p.id = provider.id /\ p.issuer = r.in.issuer /\ p.enabled = r.in.enabled
      /\ p.fallback = r.in.fallback
  BY <1>1 DEF ProviderFields
<1>4. p.enforced = (provider.enforced /\ r.in.enabled)
  BY <1>1 DEF ProviderFields
<1> HIDE DEF p
<1>5. /\ DOMAIN provider' = ProviderFields /\ provider'.issuer = r.in.issuer /\ provider'.enabled = r.in.enabled
      /\ provider'.fallback = r.in.fallback /\ provider'.enforced = p.enforced
      /\ provider.id # 0 => provider'.id = provider.id
  BY <1>2, <1>3 DEF ProviderFields
<1>6. ProviderInv'
  <2>1. provider.enforced => provider.id # 0
    BY DEF SsoIInv, ProviderInv, EnforcedWasShown
  <2>2. provider'.enforced => provider.enforced /\ r.in.enabled
    BY <1>4, <1>5
  <2>3. isAssignableRole(r.in.fallback) /\ (r.in.enabled => Metadata(r.in.issuer))
    BY <1>0 DEF CallOk
  <2> QED
    BY <1>2, <1>5, <2>1, <2>2, <2>3 DEF SsoIInv, ProviderInv, ProviderOk, EnforcedWasShown
<1>7. CASE End(c)
  BY <1>2, <1>6, <1>7, FreeOk, FreeFacts, AdminFrame DEF End
<1>8. CASE Enter(c, [r EXCEPT !.pc = "clear", !.prov = provider'.id])
  <2>1. ASSUME NEW id PROVE LET n == [r EXCEPT !.pc = "clear", !.prov = id] IN Alike(n, r) /\ n.pc = "clear" /\ n.p = r.p
    BY <1>0 DEF Alike, CallFields
  <2> DEFINE n == [r EXCEPT !.pc = "clear", !.prov = provider'.id]
  <2>2. Alike(n, r) /\ n.pc = "clear" /\ n.p = r.p
    BY <2>1
  <2>3. call' = [call EXCEPT ![c] = n]
    BY <1>8 DEF Enter
  <2> HIDE DEF n
  <2>4. CallOk(n, sent, account, shown') /\ n.st = 0
    BY <1>0, <2>2 DEF CallOk, Alike
  <2> QED
    BY <1>2, <1>6, <2>2, <2>3, <2>4, AdminFrame
<1> QED
  BY <1>7, <1>8 DEF SaveProvider

LEMMA ProviderWriteSteps ==
    ASSUME SsoIInv, NEW c \in Callers, ClearClientSecret(c) \/ WriteEnforced(c)
    PROVE  SsoIInv'
<1> DEFINE r == call[c]
<1> USE DEF Aside, Checking, Resolved, Owning, idpVars
<1>0. CallOk(r, sent, account, shown) /\ DOMAIN provider = ProviderFields
  BY DEF SsoIInv, CallsInv, ProviderInv, ProviderOk
<1>1. /\ call' = [call EXCEPT ![c] = Free]
      /\ UNCHANGED <<account, role, identities, authRequests, pendings, idpVars, logins, shown>>
  BY DEF ClearClientSecret, WriteEnforced, End
<1>2. ProviderInv'
  <2>1. CASE provider' = provider
    BY <1>1, <2>1, ProviderFrame
  <2>2. CASE provider' = [provider EXCEPT !.secret = "none"]
    <3>1. /\ DOMAIN provider' = ProviderFields /\ provider'.id = provider.id /\ provider'.issuer = provider.issuer
          /\ provider'.enabled = provider.enabled /\ provider'.enforced = provider.enforced
          /\ provider'.fallback = provider.fallback
      BY <1>0, <2>2 DEF ProviderFields
    <3> QED
      BY <1>1, <3>1 DEF SsoIInv, ProviderInv, ProviderOk, EnforcedWasShown
  <2>3. CASE WriteEnforced(c) /\ EnforceableRow(r) /\ provider' = [provider EXCEPT !.enforced = r.on]
    <3>1. /\ DOMAIN provider' = ProviderFields /\ provider'.id = provider.id /\ provider'.issuer = provider.issuer
          /\ provider'.enabled = provider.enabled /\ provider'.enforced = r.on
          /\ provider'.fallback = provider.fallback
      BY <1>0, <2>3 DEF ProviderFields
    <3>2. r.on => provider.enabled /\ \E x \in shown : x[1] = provider.id
      BY <1>0, <2>3 DEF WriteEnforced, In, EnforceableRow, CallOk
    <3> QED
      BY <1>1, <3>1, <3>2 DEF SsoIInv, ProviderInv, ProviderOk, EnforcedWasShown
  <2> QED
    BY <2>1, <2>2, <2>3 DEF ClearClientSecret, WriteEnforced
<1> QED
  BY <1>1, <1>2, FreeOk, FreeFacts, AdminFrame

LEMMA SetEnforcementStep ==
    ASSUME SsoIInv, NEW c \in Callers, NEW u, NEW on, SetEnforcement(c, u, on)
    PROVE  SsoIInv'
<1> DEFINE n == [Free EXCEPT !.pc = "enforce", !.p = provider, !.on = on]
<1> USE DEF Aside, Checking, Resolved, Owning
<1>1. DOMAIN n = CallFields /\ n.kind = "none" /\ n.st = 0 /\ n.pc = "enforce" /\ n.p = provider /\ n.on = on
  BY FreeFacts DEF CallFields
<1>2. /\ call' = [call EXCEPT ![c] = n] /\ provider.id # 0
      /\ shown' = IF on THEN shown \cup {<<provider.id, provider.issuer>>} ELSE shown
      /\ UNCHANGED <<provider, account, role, identities, authRequests, pendings, idpVars, logins>>
  BY DEF SetEnforcement, Enter, rowVars
<1> HIDE DEF n
<1>3. shown \subseteq shown' /\ (\A x \in shown' : x[1] # 0) /\ (on => \E x \in shown' : x[1] = provider.id)
  <2> DEFINE t == <<provider.id, provider.issuer>>
  <2>1. t[1] = provider.id
    OBVIOUS
  <2>2. (on /\ shown' = shown \cup {t}) \/ (~on /\ shown' = shown)
    BY <1>2
  <2> HIDE DEF t
  <2> QED
    BY <1>2, <2>1, <2>2 DEF SsoIInv, ProviderInv
<1>4. ProviderInv'
  BY <1>2, <1>3 DEF SsoIInv, ProviderInv, EnforcedWasShown
<1>5. CallOk(n, sent, account, shown')
  BY <1>1, <1>2, <1>3 DEF SsoIInv, ProviderInv, CallOk
<1> QED
  BY <1>1, <1>2, <1>3, <1>4, <1>5, AdminFrame

-----------------------------------------------------------------------------
(* The provider, time and what else changes accounts.                      *)

\* The requests stay where they are.
LEMMA WorldFrame ==
    ASSUME SsoIInv, call' = call, shown \subseteq shown', Grows(sent, sent', account, account')
    PROVE  CallsInv'
BY CallKeeps DEF SsoIInv, CallsInv

LEMMA RotateStep ==
    ASSUME SsoIInv, Rotate \/ TimePasses
    PROVE  SsoIInv'
<1> USE DEF rowVars
<1>1. UNCHANGED <<rowVars, sent, grants, call, logins, shown>>
  BY DEF Rotate, TimePasses
<1>2. Grows(sent, sent', account, account')
  BY <1>1, GrowsRefl
<1>3. KeyInv'
  <2>1. CASE Rotate
    <3>1. jwks' = [key |-> jwks.key + 1, since |-> 0] /\ cached' = cached /\ call' = call
      BY <2>1 DEF Rotate
    <3> QED
      BY <3>1 DEF SsoIInv, KeyInv, MinRefresh
  <2>2. CASE TimePasses
    <3>1. /\ jwks' = [jwks EXCEPT !.since = IF @ < CacheTTL THEN @ + 1 ELSE @]
          /\ cached' = [cached EXCEPT !.age = IF @ < CacheTTL THEN @ + 1 ELSE @]
          /\ call' = call /\ \A c \in Callers : ~In(c, "fetched")
      BY <2>2 DEF TimePasses
    <3>2. /\ DOMAIN jwks' = {"key", "since"} /\ jwks'.since \in Nat
          /\ DOMAIN cached' = {"key", "age"} /\ cached'.age \in Nat /\ cached'.age >= 1
      BY <3>1 DEF SsoIInv, KeyInv, CacheTTL
    <3> QED
      BY <3>1, <3>2 DEF KeyInv, In, MinRefresh
  <2> QED
    BY <2>1, <2>2
<1>4. TokenInv'
  BY <1>1 DEF SsoIInv, TokenInv
<1> QED
  BY <1>1, <1>2, <1>3, <1>4, WorldFrame, PendingFrame, IdentityFrame, LoginFrame, ProviderFrame, SentFrame, AccountFrame
     DEF SsoIInv

LEMMA AuthorizeStep ==
    ASSUME SsoIInv, NEW s \in DOMAIN sent, NEW who \in People, Authorize(s, who)
    PROVE  SsoIInv'
<1> USE DEF rowVars
<1>1. /\ sent[s].who = Nobody /\ sent' = [sent EXCEPT ![s].who = who]
      /\ grants' = grants \cup {[state |-> s, who |-> who]}
      /\ UNCHANGED <<rowVars, jwks, cached, call, logins, shown>>
  BY DEF Authorize
<1>2. Nobody \notin People
  BY SsoAssumption
<1>3. /\ IsSequence(sent') /\ DOMAIN sent' = DOMAIN sent /\ sent'[s].who = who
      /\ \A k \in DOMAIN sent : /\ DOMAIN sent'[k] = {"issuer", "who", "enrolled"}
                                /\ sent'[k].enrolled = sent[k].enrolled
                                /\ k # s => sent'[k] = sent[k]
  <2>1. IsSequence(sent) /\ \A k \in DOMAIN sent : DOMAIN sent[k] = {"issuer", "who", "enrolled"}
    BY DEF SsoIInv, SentInv
  <2> QED
    BY <1>1, <2>1, SetWhoFacts
<1>4. Grows(sent, sent', account, account')
  BY <1>1, <1>2, <1>3 DEF Grows
<1>5. SentInv'
  <2>1. ASSUME NEW g \in grants' PROVE CodeOk(g, sent')
    BY <1>1, <1>2, <1>3 DEF SsoIInv, SentInv, CodeOk
  <2> QED
    BY <1>1, <1>3, <2>1 DEF SsoIInv, SentInv
<1>6. TokenInv'
  BY <1>1, <1>3 DEF SsoIInv, TokenInv
<1>7. KeyInv'
  BY <1>1 DEF SsoIInv, KeyInv, In
<1> QED
  BY <1>1, <1>4, <1>5, <1>6, <1>7, WorldFrame, PendingFrame, IdentityFrame, LoginFrame, ProviderFrame, AccountFrame
     DEF SsoIInv

\* Rows go.
LEMMA CleaningSteps ==
    ASSUME SsoIInv, CleanExpiredAuthRequests \/ CleanExpiredPendingLogins \/ DeleteProvider
    PROVE  SsoIInv'
<1> USE DEF idpVars
<1>1. /\ UNCHANGED <<account, role, idpVars, call, logins, shown>>
      /\ authRequests' \subseteq authRequests /\ pendings' \subseteq pendings /\ identities' \subseteq identities
  BY DEF CleanExpiredAuthRequests, CleanExpiredPendingLogins, DeleteProvider
<1>2. Grows(sent, sent', account, account')
  BY <1>1, GrowsRefl
<1>3. ProviderInv'
  <2>1. CASE provider' = provider
    BY <1>1, <2>1, ProviderFrame
  <2>2. CASE provider' = NoProvider
    <3>1. /\ DOMAIN NoProvider = ProviderFields /\ NoProvider.fallback = "member"
          /\ ~NoProvider.enforced /\ ~NoProvider.enabled
      BY DEF NoProvider, ProviderFields
    <3> QED
      BY <1>1, <2>2, <3>1 DEF SsoIInv, ProviderInv, ProviderOk, EnforcedWasShown, isAssignableRole
  <2> QED
    BY <2>1, <2>2 DEF CleanExpiredAuthRequests, CleanExpiredPendingLogins, DeleteProvider
<1>4. TokenInv'
  BY <1>1 DEF SsoIInv, TokenInv
<1>5. KeyInv'
  BY <1>1 DEF SsoIInv, KeyInv, In
<1> QED
  BY <1>1, <1>2, <1>3, <1>4, <1>5, WorldFrame, PendingFrame, IdentityFrame, LoginFrame, SentFrame, AccountFrame
     DEF SsoIInv

LEMMA ExpireStep ==
    ASSUME SsoIInv, NEW q, ExpirePending(q)
    PROVE  SsoIInv'
<1> USE DEF idpVars
<1> DEFINE late(o) == IF o = q THEN [o EXCEPT !.live = FALSE] ELSE o
<1>1. /\ UNCHANGED <<provider, account, role, identities, idpVars, call, logins, shown>>
      /\ authRequests' = {late(o) : o \in authRequests} /\ pendings' = {late(o) : o \in pendings}
  BY DEF ExpirePending
<1>2. Grows(sent, sent', account, account')
  BY <1>1, GrowsRefl
<1>3. ASSUME NEW o \in authRequests
      PROVE  DOMAIN late(o) = {"state", "provider", "live"} /\ late(o).state = o.state
  BY DEF SsoIInv, TokenInv
<1>4. ASSUME NEW o \in pendings
      PROVE  /\ DOMAIN late(o) = PendingFields /\ late(o).kind = o.kind /\ late(o).code = o.code
             /\ late(o).st = o.st /\ late(o).user = o.user
  BY DEF SsoIInv, PendingInv, PendingOk, PendingFields
<1> HIDE DEF late
<1>5. PendingInv'
  BY <1>1, <1>4 DEF SsoIInv, PendingInv, PendingOk
<1>6. TokenInv'
  <2>1. \A o \in authRequests' : DOMAIN o = {"state", "provider", "live"} /\ \E x \in authRequests : o = late(x) /\ o.state = x.state
    BY <1>1, <1>3
  <2>2. \A o \in pendings' : \E x \in pendings : o = late(x) /\ o.st = x.st
    BY <1>1, <1>4
  <2>3. \A o, p \in authRequests' : o.state = p.state => o = p
    BY <2>1 DEF SsoIInv, TokenInv
  <2>4. \A o, p \in pendings' : o.st = p.st => o = p
    BY <2>2 DEF SsoIInv, TokenInv
  <2> QED
    BY <1>1, <2>1, <2>2, <2>3, <2>4 DEF SsoIInv, TokenInv
<1>7. KeyInv'
  BY <1>1 DEF SsoIInv, KeyInv, In
<1> QED
  BY <1>1, <1>2, <1>5, <1>6, <1>7, WorldFrame, IdentityFrame, LoginFrame, ProviderFrame, SentFrame, AccountFrame
     DEF SsoIInv

\* An account's flags change; who drops a factor is no longer counted as enrolled.
LEMMA AccountSteps ==
    ASSUME SsoIInv, NEW u \in Users, ChangeAccount(u)
    PROVE  SsoIInv'
<1> USE DEF idpVars
<1>1. /\ UNCHANGED <<provider, role, identities, authRequests, pendings, grants, jwks, cached, call, logins, shown>>
      /\ account[u] # NoAccount
  BY DEF ChangeAccount, setActive, EnableTOTP, DisableTOTP, SetupTOTP, Unenrol, NoAccount
<1>2. DOMAIN account[u] = AccountFields /\ account[u].addr # "none" /\ DOMAIN account = Users
  BY <1>1 DEF SsoIInv, AccountInv
<1>3. PICK a : /\ account' = [account EXCEPT ![u] = a] /\ DOMAIN a = AccountFields /\ a.addr # "none"
               /\ \/ sent' = sent /\ (account[u].factor => a.factor)
                  \/ sent' = [s \in DOMAIN sent |-> [sent[s] EXCEPT !.enrolled = @ \ {u}]]
  <2>1. CASE setActive(u)
    <3> DEFINE a == [account[u] EXCEPT !.active = ~@]
    <3>1. account' = [account EXCEPT ![u] = a] /\ sent' = sent
      BY <2>1 DEF setActive
    <3>2. DOMAIN a = AccountFields /\ a.addr # "none" /\ a.factor = account[u].factor
      BY <1>2 DEF AccountFields
    <3> HIDE DEF a
    <3> QED
      BY <3>1, <3>2
  <2>2. CASE EnableTOTP(u)
    <3> DEFINE a == [account[u] EXCEPT !.factor = TRUE]
    <3>1. account' = [account EXCEPT ![u] = a] /\ sent' = sent
      BY <2>2 DEF EnableTOTP
    <3>2. DOMAIN a = AccountFields /\ a.addr # "none" /\ a.factor
      BY <1>2 DEF AccountFields
    <3> HIDE DEF a
    <3> QED
      BY <3>1, <3>2
  <2>3. CASE Unenrol(u)
    <3> DEFINE a == [account[u] EXCEPT !.factor = FALSE]
    <3>1. account' = [account EXCEPT ![u] = a] /\ sent' = [s \in DOMAIN sent |-> [sent[s] EXCEPT !.enrolled = @ \ {u}]]
      BY <2>3 DEF Unenrol
    <3>2. DOMAIN a = AccountFields /\ a.addr # "none"
      BY <1>2 DEF AccountFields
    <3> HIDE DEF a
    <3> QED
      BY <3>1, <3>2
  <2> QED
    BY <2>1, <2>2, <2>3 DEF ChangeAccount, DisableTOTP, SetupTOTP
<1>4. a # NoAccount
  BY <1>3 DEF NoAccount
<1>5. DOMAIN account' = Users /\ account'[u] = a /\ \A v \in Users : v # u => account'[v] = account[v]
  BY <1>2, <1>3
<1>6. /\ IsSequence(sent') /\ DOMAIN sent' = DOMAIN sent
      /\ \A k \in DOMAIN sent :
            /\ DOMAIN sent'[k] = {"issuer", "who", "enrolled"}
            /\ sent'[k].who = sent[k].who /\ sent'[k].enrolled \subseteq sent[k].enrolled
            /\ \A v \in sent'[k].enrolled : v \in Users /\ account'[v].factor
  <2>0. /\ IsSequence(sent)
        /\ \A k \in DOMAIN sent : /\ DOMAIN sent[k] = {"issuer", "who", "enrolled"}
                                   /\ \A v \in sent[k].enrolled : v \in Users /\ account[v].factor
    BY DEF SsoIInv, SentInv
  <2>1. CASE sent' = sent /\ (account[u].factor => a.factor)
    BY <1>5, <2>0, <2>1
  <2>2. CASE sent' = [s \in DOMAIN sent |-> [sent[s] EXCEPT !.enrolled = @ \ {u}]]
    <3>1. \A k \in DOMAIN sent : /\ DOMAIN sent'[k] = {"issuer", "who", "enrolled"} /\ sent'[k].who = sent[k].who
                                  /\ sent'[k].enrolled = sent[k].enrolled \ {u}
      BY <2>0, <2>2
    <3>2. IsSequence(sent') /\ DOMAIN sent' = DOMAIN sent
      <4> PICK t : t = sent'
        OBVIOUS
      <4>1. Len(sent) \in Nat /\ DOMAIN sent = 1..Len(sent) /\ DOMAIN t = DOMAIN sent
        BY <2>0, <2>2 DEF IsSequence
      <4>2. \A k \in 1..Len(sent) : t[k] \in Elements(t)
        BY <4>1 DEF Elements
      <4>3. t = [k \in 1..Len(sent) |-> t[k]]
        BY <2>2, <4>1
      <4>4. t \in Seq(Elements(t))
        BY <4>1, <4>2, <4>3
      <4> QED
        BY <4>1, <4>4 DEF IsSequence
    <3> QED
      BY <1>5, <2>0, <3>1, <3>2
  <2> QED
    BY <1>3, <2>1, <2>2
<1>7. Grows(sent, sent', account, account')
  BY <1>4, <1>5, <1>6 DEF Grows
<1>8. AccountInv'
  BY <1>1, <1>3, <1>4, <1>5 DEF SsoIInv, AccountInv
<1>9. SentInv'
  <2>1. \A g \in grants' : CodeOk(g, sent')
    BY <1>1, <1>6 DEF SsoIInv, SentInv, CodeOk
  <2> QED
    BY <1>6, <2>1 DEF SentInv
<1>10. TokenInv' /\ KeyInv'
  BY <1>1, <1>6 DEF SsoIInv, TokenInv, KeyInv, In
<1> QED
  BY <1>1, <1>7, <1>8, <1>9, <1>10, WorldFrame, PendingFrame, IdentityFrame, LoginFrame, ProviderFrame DEF SsoIInv

\* What SignInKeepsRoles says of one step.
KeepsRoles ==
    \A u \in Users, c \in Callers :
        role'[u] # role[u] /\ call'[c] # call[c] =>
            /\ role[u] # "owner" /\ role'[u] # "owner"
            /\ role[u] # "none" => resolveRole(call[c].p, Who(c)) = [role |-> role'[u], asserted |-> TRUE]

\* An invitation makes an account, a membership, or neither.
LEMMA JoinStep ==
    ASSUME SsoIInv, NEW c \in Callers, JoinWorkspace(c)
    PROVE  SsoIInv' /\ KeepsRoles
<1> USE DEF Aside, Checking, Resolved, Owning, idpVars
<1> PICK i : i = call[c].inv
  OBVIOUS
<1> PICK u : u = IF call[c].user = 0 THEN CHOOSE n \in Unused : \A m \in Unused : n <= m ELSE call[c].user
  OBVIOUS
<1> PICK a : a = [addr |-> i.addr, exact |-> "lower", active |-> TRUE, password |-> TRUE, factor |-> FALSE]
  OBVIOUS
<1>0. CallOk(call[c], sent, account, shown) /\ call[c].pc = "join" /\ DOMAIN call = Callers
  BY DEF SsoIInv, CallsInv, JoinWorkspace, In
<1>1. i.addr # "none" /\ i.role \in {"admin", "member", "guest"}
  BY <1>0 DEF CallOk, Invitations
<1>2. u \in Users /\ (call[c].user = 0 => account[u] = NoAccount) /\ (call[c].user # 0 => account[u] # NoAccount)
  BY <1>0, SmallestUnused DEF JoinWorkspace, Unused, CallOk, Exists
<1>3. /\ call' = [call EXCEPT ![c] = Free]
      /\ UNCHANGED <<provider, identities, authRequests, pendings, idpVars, logins, shown>>
      /\ \/ UNCHANGED <<account, role>>
         \/ /\ account' = IF call[c].user = 0 THEN [account EXCEPT ![u] = a] ELSE account
            /\ role' = IF i.here /\ role[u] = "none" THEN [role EXCEPT ![u] = i.role] ELSE role
  BY DEF JoinWorkspace, End
<1>4. DOMAIN account = Users /\ DOMAIN role = Users
  BY DEF SsoIInv, AccountInv
<1>5. DOMAIN a = AccountFields /\ a.addr # "none" /\ a # NoAccount /\ NoAccount.factor = FALSE
  BY <1>1 DEF AccountFields, NoAccount
<1>6. /\ DOMAIN account' = Users /\ DOMAIN role' = Users
      /\ account'[u] \in {account[u], a} /\ (role'[u] = role[u] \/ (role[u] = "none" /\ role'[u] = i.role))
      /\ account'[u] = a => account[u] = NoAccount \/ account[u] = a
      /\ \A v \in Users : v # u => account'[v] = account[v] /\ role'[v] = role[v]
      /\ account'[u] = NoAccount => account[u] = NoAccount /\ role' = role
  BY <1>2, <1>3, <1>4, <1>5
<1>7. Grows(sent, sent', account, account')
  BY <1>3, <1>6 DEF Grows
<1>8. AccountInv'
  <2>1. \A v \in Users : account'[v] \in {account[v], a}
    BY <1>6
  <2>2. \A v \in Users :
           /\ DOMAIN account[v] = AccountFields
           /\ account[v] = NoAccount \/ account[v].addr # "none"
           /\ account[v] = NoAccount => role[v] = "none"
    BY DEF SsoIInv, AccountInv
  <2>3. ASSUME NEW v \in Users
        PROVE  /\ DOMAIN account'[v] = AccountFields
               /\ account'[v] = NoAccount \/ account'[v].addr # "none"
    <3>1. CASE account'[v] = a
      BY <3>1, <1>5
    <3>2. CASE account'[v] = account[v]
      BY <3>2, <2>2
    <3> QED
      BY <2>1, <3>1, <3>2
  <2>4. ASSUME NEW v \in Users, account'[v] = NoAccount
        PROVE  role'[v] = "none"
    <3>1. CASE v = u
      BY <3>1, <2>4, <2>2, <1>6
    <3>2. CASE v # u
      BY <3>2, <2>4, <2>2, <1>6
    <3> QED
      BY <3>1, <3>2
  <2> QED
    BY <1>6, <2>3, <2>4 DEF AccountInv
<1>9. SentInv'
  <2>1. \A k \in DOMAIN sent : \A v \in sent[k].enrolled : v \in Users /\ account'[v].factor
    BY <1>5, <1>6 DEF SsoIInv, SentInv
  <2> QED
    BY <1>3, <2>1 DEF SsoIInv, SentInv
<1>10. CallsInv'
  BY <1>3, <1>7, CallsStep, FreeOk DEF SsoIInv
<1>11. TokenInv'
  BY <1>3, TokenStep, FreeFacts DEF SsoIInv, CallsInv, SentInv
<1>12. KeyInv'
  BY <1>3, KeyFrame, FreeFacts
<1>13. SsoIInv'
  BY <1>3, <1>7, <1>8, <1>9, <1>10, <1>11, <1>12, PendingFrame, IdentityFrame, LoginFrame, ProviderFrame DEF SsoIInv
<1>14. KeepsRoles
  BY <1>1, <1>2, <1>6 DEF KeepsRoles
<1> QED
  BY <1>13, <1>14

LEMMA MembershipStep ==
    ASSUME SsoIInv, NEW u \in Users, ChangeMembership(u)
    PROVE  SsoIInv'
<1> USE DEF idpVars
<1>1. UNCHANGED <<provider, account, identities, authRequests, pendings, idpVars, call, logins, shown>>
  BY DEF ChangeMembership, TransferOwnership, RemoveMember, UpdateMemberRole
<1>2. Grows(sent, sent', account, account')
  BY <1>1, GrowsRefl
<1>3. AccountInv'
  <2>1. role[u] # "none"
    BY DEF ChangeMembership, TransferOwnership, RemoveMember, UpdateMemberRole
  <2>2. /\ DOMAIN role' = Users
        /\ \A v \in Users : v # u /\ role[v] = "none" => role'[v] = "none"
    BY DEF ChangeMembership, TransferOwnership, RemoveMember, UpdateMemberRole, SsoIInv, AccountInv
  <2> QED
    BY <1>1, <2>1, <2>2 DEF SsoIInv, AccountInv
<1>4. TokenInv' /\ KeyInv'
  BY <1>1 DEF SsoIInv, TokenInv, KeyInv, In
<1> QED
  BY <1>1, <1>2, <1>3, <1>4, WorldFrame, PendingFrame, IdentityFrame, LoginFrame, ProviderFrame, SentFrame DEF SsoIInv

-----------------------------------------------------------------------------
(* Theorems.                                                               *)

LEMMA SsoInitHolds == SsoInit => SsoIInv
<1> SUFFICES ASSUME SsoInit PROVE SsoIInv
  OBVIOUS
<1>1. PICK e \in SsoEnvironments :
        /\ provider = e.provider /\ account = e.account /\ role = e.role /\ identities = e.identities
        /\ authRequests = {} /\ pendings = {} /\ sent = <<>> /\ grants = {}
        /\ jwks = [key |-> 1, since |-> 2] /\ cached = [key |-> 0, age |-> 2]
        /\ call = [c \in Callers |-> Free]
        /\ logins = <<>> /\ shown = {}
  BY DEF SsoInit
<1>2. CallsInv
  BY <1>1, FreeOk DEF CallsInv
<1>3. DOMAIN NoAccount = AccountFields /\ DOMAIN NoProvider = ProviderFields
  BY DEF NoAccount, AccountFields, NoProvider, ProviderFields
<1>4. AccountInv
  BY <1>1, <1>3, SsoAssumption DEF AccountInv
<1>5. IsSequence(<<>>) /\ DOMAIN <<>> = {}
  BY DEF IsSequence
<1>6. SentInv
  BY <1>1, <1>5 DEF SentInv
<1>7. ProviderInv
  BY <1>1, <1>3, SsoAssumption DEF ProviderInv, ProviderOk, isAssignableRole, EnforcedWasShown, Metadata
<1>8. IdentityInv
  BY <1>1, SsoAssumption DEF IdentityInv, IdentityOk, IdentityFields, Exists
<1>9. PendingInv
  BY <1>1 DEF PendingInv
<1>10. TokenInv
  BY <1>1, <1>5, FreeFacts DEF TokenInv
<1>11. LoginInv
  BY <1>1, <1>5 DEF LoginInv, SessionsAreEarned
<1>12. KeyInv
  BY <1>1, FreeFacts DEF KeyInv, In, MinRefresh
<1> QED
  BY <1>2, <1>4, <1>6, <1>7, <1>8, <1>9, <1>10, <1>11, <1>12 DEF SsoIInv

LEMMA SignInStepHolds ==
    ASSUME SsoIInv, NEW c \in Callers, SignInStep(c)
    PROVE  SsoIInv'
<1>0. ASSUME \E new : Moves(c, new), OnlyCall PROVE SsoIInv'
  BY <1>0, QuietStep DEF OnlyCall
<1>1. CASE Start(c) \/ RequestFails(c)
  BY <1>1, BeginSteps, QuietStep DEF Start, RequestFails
<1>2. CASE Key(c) \/ fetchKeys(c) \/ VerifyIDToken(c)
  <2>1. OnlyCall
    BY <1>2 DEF Key, fetchKeys, VerifyIDToken
  <2>2. \E new : Moves(c, new)
    BY <1>2, KeySteps
  <2> QED
    BY <1>0, <2>1, <2>2
<1>3. CASE LoadProvider(c)
  BY <1>0, <1>3, LoadStep DEF LoadProvider
<1>4. CASE GetIdentity(c) \/ FindLocalAccountByEmail(c)
  <2>1. OnlyCall
    BY <1>4 DEF GetIdentity, FindLocalAccountByEmail
  <2>2. \E new : Moves(c, new)
    BY <1>4, LookupSteps
  <2> QED
    BY <1>0, <2>1, <2>2
<1>5. CASE IsActive(c) \/ finish(c) \/ SecondFactorEnabled(c)
  <2>1. OnlyCall
    BY <1>5 DEF IsActive, finish, SecondFactorEnabled
  <2>2. \E new : Moves(c, new)
    BY <1>5, FactorSteps
  <2> QED
    BY <1>0, <2>1, <2>2
<1>6. CASE \E ok \in BOOLEAN : VerifyPassword(c, ok) \/ ConsumeSecondFactor(c, ok)
  <2>1. OnlyCall
    BY <1>6 DEF VerifyPassword, ConsumeSecondFactor
  <2>2. \E new : Moves(c, new)
    BY <1>6, ProofSteps
  <2> QED
    BY <1>0, <2>1, <2>2
<1>7. CASE \E q \in authRequests, g \in grants : Callback(c, q, g)
  BY <1>7, CallbackStep
<1>8. CASE \E q \in pendings : CompleteTOTP(c, q) \/ CompleteLink(c, q)
  BY <1>8, CompleteStep
<1>9. CASE challengeLink(c) \/ ParkForSecondFactor(c)
  BY <1>9, ParkStep
<1>10. CASE CreateAuthRequest(c) \/ Exchange(c) \/ StoreKeys(c)
  BY <1>10, CreateAuthRequestStep, ExchangeStep, StoreKeysStep
<1>11. CASE EnsureMembership(c) \/ SyncRole(c) \/ TouchIdentity(c)
  BY <1>11, EnsureMembershipStep, SyncRoleStep, TouchIdentityStep
<1>12. CASE ProvisionUser(c) \/ issue(c) \/ LinkIdentity(c)
  BY <1>12, ProvisionUserStep, IssueStep, LinkIdentityStep
<1> QED
  BY <1>1, <1>2, <1>3, <1>4, <1>5, <1>6, <1>7, <1>8, <1>9, <1>10, <1>11, <1>12 DEF SignInStep

LEMMA SsoStepHolds == SsoIInv /\ [SsoNext]_ssovars => SsoIInv'
<1> SUFFICES ASSUME SsoIInv, [SsoNext]_ssovars PROVE SsoIInv'
  OBVIOUS
<1>1. ASSUME NEW c \in Callers, AdminStep(c) PROVE SsoIInv'
  <2>1. CASE \E in \in senv.saves : SaveReads(c, in)
    BY <2>1, BeginSteps, QuietStep DEF SaveReads
  <2>2. CASE \E u \in Users, on \in BOOLEAN : SetEnforcement(c, u, on)
    BY <2>2, SetEnforcementStep
  <2> QED
    BY <1>1, <2>1, <2>2, SaveProviderStep, ProviderWriteSteps DEF AdminStep
<1>2. CASE \E q \in authRequests \cup pendings : ExpirePending(q)
  BY <1>2, ExpireStep
<1>3. CASE \E s \in DOMAIN sent, who \in People : Authorize(s, who)
  BY <1>3, AuthorizeStep
<1>4. CASE UNCHANGED ssovars
  <2> USE DEF ssovars
  <2>1. Grows(sent, sent', account, account')
    BY <1>4, GrowsRefl
  <2>2. TokenInv' /\ KeyInv'
    BY <1>4 DEF SsoIInv, TokenInv, KeyInv, In
  <2> QED
    BY <1>4, <2>1, <2>2, WorldFrame, PendingFrame, IdentityFrame, LoginFrame, ProviderFrame, SentFrame, AccountFrame
       DEF SsoIInv
<1>5. CASE \E u \in Users : ChangeAccount(u) \/ ChangeMembership(u)
  BY <1>5, AccountSteps, MembershipStep
<1>6. CASE \E c \in Callers, i \in Invitations : AcceptInvite(c, i)
  BY <1>6, BeginSteps, QuietStep DEF AcceptInvite, OnlyCall
<1>7. CASE \E c \in Callers : JoinWorkspace(c)
  BY <1>7, JoinStep
<1> QED
  BY <1>1, <1>2, <1>3, <1>4, <1>5, <1>6, <1>7, SignInStepHolds, RotateStep, CleaningSteps DEF SsoNext

\* However the requests of any number of people interleave with one another, with
\* administrators, invitations, factors that are enrolled, replaced and disabled, and key
\* rotation, a sign-in yields at most one session, of the person who completed it and with
\* the second factor its account had all the time since it began; subjects are bound
\* one to one and only on proof; passwords are switched off only by somebody bound to the
\* provider; and a published key is refused only just after its rotation.
THEOREM SignInAlwaysSound == SsoSpec => []SignInSound
<1>1. SsoIInv => SignInSound
  <2> SUFFICES ASSUME SsoIInv PROVE SignInSound
    OBVIOUS
  <2>1. SessionsAreEarned /\ EnforcedWasShown
    BY DEF SsoIInv, LoginInv, ProviderInv
  <2>2. BoundByProof
    BY DEF SsoIInv, IdentityInv, IdentityOk, FactorGiven, BoundByProof
  <2>3. RotationIsFollowed
    BY DEF SsoIInv, KeyInv, RotationIsFollowed, KeyRefused, MinRefresh
  <2> QED
    BY <2>1, <2>2, <2>3 DEF SignInSound
<1> QED
  BY <1>1, SsoInitHolds, SsoStepHolds, PTL DEF SsoSpec

-----------------------------------------------------------------------------
(* What a sign-in does to roles.                                           *)

\* The role a person's groups ask for is one that can be assigned.
LEMMA RoleIsAssignable ==
    ASSUME NEW p, NEW who, ProviderOk(p)
    PROVE  isAssignableRole(resolveRole(p, who).role)
<1> DEFINE mapped == {r \in {p.mapping[g] : g \in who.groups \cap DOMAIN p.mapping} : isAssignableRole(r)}
           best == CHOOSE r \in mapped : \A o \in mapped : rolePrivilege(o) <= rolePrivilege(r)
<1>1. CASE mapped = {}
  BY <1>1 DEF resolveRole, ProviderOk
<1>2. CASE mapped # {}
  <2>1. mapped \subseteq {"admin", "member", "guest"}
    BY DEF isAssignableRole
  <2>2. resolveRole(p, who).role = best
    BY <1>2 DEF resolveRole
  <2> HIDE DEF mapped
  <2>3. rolePrivilege("admin") = 3 /\ rolePrivilege("member") = 2 /\ rolePrivilege("guest") = 1
    BY DEF rolePrivilege
  <2>4. \E r \in mapped : \A o \in mapped : rolePrivilege(o) <= rolePrivilege(r)
    <3>1. CASE "admin" \in mapped
      BY <2>1, <2>3, <3>1
    <3>2. CASE "admin" \notin mapped /\ "member" \in mapped
      BY <2>1, <2>3, <3>2
    <3>3. CASE "admin" \notin mapped /\ "member" \notin mapped
      <4>1. \A o \in mapped : o = "guest"
        BY <2>1, <3>3
      <4> QED
        BY <1>2, <2>3, <4>1
    <3> QED
      BY <3>1, <3>2, <3>3
  <2>5. best \in mapped
    BY <2>4
  <2> HIDE DEF best
  <2> QED
    BY <2>1, <2>2, <2>5 DEF isAssignableRole
<1> QED
  BY <1>1, <1>2

LEMMA RoleForFacts ==
    ASSUME SsoIInv, NEW c \in Callers
    PROVE  isAssignableRole(RoleFor(c).role)
<1>1. ProviderOk(call[c].p)
  BY DEF SsoIInv, CallsInv, CallOk
<1> QED
  BY <1>1, RoleIsAssignable DEF RoleFor, ProviderOk

LEMMA RoleSteps ==
    ASSUME SsoIInv, NEW c \in Callers, EnsureMembership(c) \/ SyncRole(c) \/ ProvisionUser(c)
    PROVE  KeepsRoles
<1> DEFINE r == call[c]
<1> USE DEF Aside, Checking, Resolved, Owning
<1>0. CallOk(r, sent, account, shown) /\ DOMAIN call = Callers /\ DOMAIN role = Users
  BY DEF SsoIInv, CallsInv, AccountInv
<1>1. \A d \in Callers : d # c => call'[d] = call[d]
  BY <1>0 DEF EnsureMembership, SyncRole, ProvisionUser, Go, Enter, End
<1>2. CASE EnsureMembership(c)
  <2>1. role' = role \/ (role[r.user] = "none" /\ role' = [role EXCEPT ![r.user] = RoleFor(c).role])
    BY <1>2 DEF EnsureMembership
  <2>2. RoleFor(c).role # "owner"
    BY RoleForFacts DEF isAssignableRole
  <2> QED
    BY <1>0, <2>1, <2>2 DEF KeepsRoles
<1>3. CASE SyncRole(c)
  <2>1. r.kind = "none" /\ resolveRole(r.p, r.code.who).asserted
    BY <1>0, <1>3 DEF SyncRole, In, CallOk
  <2>2. RoleFor(c) = resolveRole(r.p, Who(c))
    BY <2>1 DEF RoleFor
  <2>3. resolveRole(r.p, Who(c)) = [role |-> RoleFor(c).role, asserted |-> TRUE]
    BY <2>1, <2>2 DEF resolveRole, Who
  <2>4. role' = role \/ (role[r.user] \notin {"none", "owner"} /\ role' = [role EXCEPT ![r.user] = RoleFor(c).role])
    BY <1>3 DEF SyncRole, Syncable
  <2>5. RoleFor(c).role # "owner"
    BY RoleForFacts DEF isAssignableRole
  <2> QED
    BY <1>0, <1>1, <2>3, <2>4, <2>5 DEF KeepsRoles
<1>4. CASE ProvisionUser(c)
  <2> DEFINE u == CHOOSE n \in Unused : \A m \in Unused : n <= m
  <2>1. u \in Users /\ account[u] = NoAccount
    BY <1>4, SmallestUnused DEF ProvisionUser, Unused
  <2>2. role[u] = "none"
    BY <2>1 DEF SsoIInv, AccountInv
  <2>3. role' = role \/ role' = [role EXCEPT ![u] = resolveRole(r.p, Who(c)).role]
    BY <1>4 DEF ProvisionUser
  <2>4. resolveRole(r.p, Who(c)).role # "owner"
    BY <1>0, RoleIsAssignable DEF isAssignableRole, CallOk
  <2> HIDE DEF u
  <2> QED
    BY <1>0, <2>2, <2>3, <2>4 DEF KeepsRoles
<1> QED
  BY <1>2, <1>3, <1>4

LEMMA OtherStepsKeepRoles ==
    ASSUME role' = role \/ call' = call
    PROVE  KeepsRoles
BY DEF KeepsRoles

\* A sign-in never makes or unmakes an owner, not even one who became owner between its
\* two statements, and changes a member's role only to one the provider asserts.
THEOREM SignInsKeepRoles == SsoSpec => SignInKeepsRoles
<1>1. ASSUME SsoIInv, [SsoNext]_ssovars PROVE KeepsRoles
  <2> USE DEF rowVars, OnlyCall
  <2>1. ASSUME NEW c \in Callers, SignInStep(c) PROVE KeepsRoles
    <3>1. CASE EnsureMembership(c) \/ SyncRole(c) \/ ProvisionUser(c)
      BY <1>1, <3>1, RoleSteps
    <3>2. CASE ~(EnsureMembership(c) \/ SyncRole(c) \/ ProvisionUser(c))
      <4>1. CASE \/ Start(c) \/ CreateAuthRequest(c) \/ LoadProvider(c) \/ Exchange(c) \/ Key(c) \/ fetchKeys(c)
                 \/ StoreKeys(c) \/ VerifyIDToken(c) \/ \E q \in authRequests, g \in grants : Callback(c, q, g)
        BY <4>1, OtherStepsKeepRoles DEF Start, CreateAuthRequest, Callback, LoadProvider, Exchange, Key, fetchKeys,
           StoreKeys, VerifyIDToken
      <4>2. CASE \/ GetIdentity(c) \/ TouchIdentity(c) \/ FindLocalAccountByEmail(c) \/ challengeLink(c)
                 \/ IsActive(c) \/ finish(c) \/ ParkForSecondFactor(c) \/ issue(c) \/ SecondFactorEnabled(c)
        BY <4>2, OtherStepsKeepRoles DEF GetIdentity, TouchIdentity, FindLocalAccountByEmail, challengeLink, IsActive,
           finish, ParkForSecondFactor, issue, SecondFactorEnabled
      <4>3. CASE \/ \E q \in pendings : CompleteTOTP(c, q) \/ CompleteLink(c, q)
                 \/ \E ok \in BOOLEAN : VerifyPassword(c, ok) \/ ConsumeSecondFactor(c, ok)
                 \/ LinkIdentity(c) \/ RequestFails(c)
        BY <4>3, OtherStepsKeepRoles DEF CompleteTOTP, CompleteLink, consumePending, VerifyPassword,
           ConsumeSecondFactor, LinkIdentity, RequestFails
      <4> QED
        BY <2>1, <3>2, <4>1, <4>2, <4>3 DEF SignInStep
    <3> QED
      BY <3>1, <3>2
  <2>2. ASSUME NEW c \in Callers, AdminStep(c) PROVE role' = role
    BY <2>2 DEF AdminStep, SaveReads, SaveProvider, ClearClientSecret, SetEnforcement, WriteEnforced
  <2>3. ASSUME ~\E c \in Callers : SignInStep(c) \/ AdminStep(c) \/ JoinWorkspace(c) \/ \E i \in Invitations : AcceptInvite(c, i)
        PROVE  call' = call
    BY <1>1, <2>3 DEF SsoNext, ssovars, Rotate, TimePasses, Authorize, ExpirePending, CleanExpiredAuthRequests,
       CleanExpiredPendingLogins, DeleteProvider, ChangeAccount, setActive, EnableTOTP, DisableTOTP, SetupTOTP,
       Unenrol, ChangeMembership, TransferOwnership, RemoveMember, UpdateMemberRole
  <2>4. ASSUME NEW c \in Callers, NEW i \in Invitations, AcceptInvite(c, i) PROVE role' = role
    BY <2>4 DEF AcceptInvite
  <2>5. ASSUME NEW c \in Callers, JoinWorkspace(c) PROVE KeepsRoles
    BY <1>1, <2>5, JoinStep
  <2> QED
    BY <2>1, <2>2, <2>3, <2>4, <2>5, OtherStepsKeepRoles
<1>2. SsoIInv /\ [SsoNext]_ssovars => [KeepsRoles]_ssovars
  BY <1>1
<1>3. SignInKeepsRoles <=> [][KeepsRoles]_ssovars
  BY PTL DEF SignInKeepsRoles, KeepsRoles
<1> QED
  BY <1>2, <1>3, SsoInitHolds, SsoStepHolds, PTL DEF SsoSpec

=============================================================================
