----------------------------- MODULE Credentials -----------------------------
(***************************************************************************)
(* User accounts, login sessions and password resets.                      *)
(*                                                                         *)
(* Every use case first reads without a lock (the user by email or id, a   *)
(* token by digest), verifies or hashes a password for as long as that     *)
(* takes, and then opens a transaction that locks the user row before it   *)
(* reads or writes anything of that user.  A request is therefore a        *)
(* snapshot, the lock, and the rest of the transaction with its commit;    *)
(* what happens between these steps is up to the other requests and the    *)
(* clock.  Anybody may present any token that was ever issued: a response  *)
(* or a mail can be lost, kept, or sent again.                             *)
(***************************************************************************)
EXTENDS Naturals, Sequences, FiniteSets

CONSTANTS
    Users,          \* user rows
    Setups,         \* the situations a run starts from, see setup
    Families,       \* pool of refresh family ids, in issue order
    Tokens,         \* pool of refresh token ids, in issue order
    Challenges,     \* pool of password reset challenge ids, in issue order
    Links,          \* pool of password reset token ids, in issue order
    Requests,       \* requests in progress at one time
    FamilyLife,     \* seven days
    ConflictWindow, \* ten seconds
    ResetLife,      \* thirty minutes
    MaxEvents,      \* bound on the security events of a user
    None

Roles == {"USER", "ADMIN", "SUPER_ADMIN"}
Statuses == {"ACTIVE", "DISABLED"}
AllKinds == {"Login", "Refresh", "Logout", "ChangePassword", "RequestReset",
             "CompleteReset", "ChangeRole", "ChangeStatus"}

\* A stored password hash: every hash is salted, so a new one is new.
Hash == Nat \ {0}
Time == Nat

\* A table row, or no row under that id.  "under" is the password hash that
\* was verified, or current, when the row was written.
UserRow == [status : Statuses, hash : Hash, role : Roles]
NoFamily == [st |-> "absent", user |-> None, expires |-> 0, under |-> 0]
FamilyRow == {NoFamily} \cup
    [st : {"ACTIVE", "REVOKED"}, user : Users, expires : Time, under : Hash]
NoToken == [family |-> None, used |-> None, next |-> None]
TokenRow == {NoToken} \cup
    [family : Families, used : Time \cup {None}, next : Tokens \cup {None}]
NoChallenge == [st |-> "absent", user |-> None, expires |-> 0, under |-> 0]
ChallengeRow == {NoChallenge} \cup
    [st : {"ACTIVE", "EXPIRED", "COMPLETED", "REVOKED"},
     user : Users, expires : Time, under : Hash]
NoLink == [challenge |-> None, used |-> None]
LinkRow == {NoLink} \cup [challenge : Challenges, used : Time \cup {None}]
Event == [type : {"ROLE", "STATUS"}, from : Roles \cup Statuses, to : Roles \cup Statuses]
         \cup [type : {"PASSWORD"}, from : {None}, to : {None}]

ASSUME CredentialIds ==
    /\ Families \subseteq Nat /\ Tokens \subseteq Nat
    /\ Challenges \subseteq Nat /\ Links \subseteq Nat
ASSUME CredentialSentinel ==
    None \notin Nat \cup Users \cup Roles \cup Statuses \cup AllKinds \cup {"absent"}
ASSUME CredentialStart ==
    Setups \subseteq [users : [Users -> UserRow], subjects : SUBSET Users,
                      kinds : SUBSET AllKinds, until : Time]
ASSUME Lifetimes ==
    /\ ConflictWindow \in Nat /\ ResetLife \in Nat \ {0} /\ FamilyLife \in Nat \ {0}
    /\ ConflictWindow < ResetLife /\ ResetLife < FamilyLife

VARIABLES
    setup,      \* the initial rows and the bounds of a behaviour: the accounts
                \* it exercises, its use cases, the last reading of the clock
    user,       \* users
    family,     \* refresh_families
    token,      \* refresh_tokens
    challenge,  \* password_reset_challenges
    link,       \* password_reset_tokens
    log,        \* user_security_events, per subject
    clock,      \* clock_timestamp()
    req         \* the requests in progress

sessions == <<family, token>>
resets == <<challenge, link>>
store == <<user, family, token, challenge, link, log>>
vars == <<setup, user, family, token, challenge, link, log, clock, req>>

InitUser == setup.users
Subjects == setup.subjects

\* A request: its use case, the user it is about, the hash of its snapshot,
\* the token or link presented, who asks with which role (management) and for
\* what, the user row its transaction read under the lock, and the row locks on
\* users it holds until it ends.
Modes == {"FOR KEY SHARE", "FOR NO KEY UPDATE", "FOR UPDATE"}
Idle == [pc |-> "idle", kind |-> None, user |-> None, hash |-> None,
         target |-> None, by |-> None, as |-> None, to |-> None, row |-> None,
         held |-> {}]
Request ==
    [pc : {"idle", "ready", "locked"}, kind : AllKinds \cup {None},
     user : Users \cup {None}, hash : Hash \cup {None},
     target : Tokens \cup Links \cup {None}, by : Users \cup {None},
     as : Roles \cup {None}, to : Roles \cup Statuses \cup {None}, row : UserRow \cup {None},
     held : SUBSET (Users \X Modes)]

\* The columns and CHECK constraints of the tables (a family is ACTIVE or
\* REVOKED, it has no EXPIRED), and what a request carries.
CredTypeOK ==
    /\ setup \in Setups
    /\ user \in [Users -> UserRow]
    /\ family \in [Families -> FamilyRow]
    /\ token \in [Tokens -> TokenRow]
    /\ challenge \in [Challenges -> ChallengeRow]
    /\ link \in [Links -> LinkRow]
    /\ log \in [Users -> Seq(Event)]
    /\ clock \in Time
    /\ req \in [Requests -> Request]

Init ==
    /\ setup \in Setups
    /\ user = InitUser
    /\ family = [f \in Families |-> NoFamily]
    /\ token = [k \in Tokens |-> NoToken]
    /\ challenge = [c \in Challenges |-> NoChallenge]
    /\ link = [l \in Links |-> NoLink]
    /\ log = [u \in Users |-> <<>>]
    /\ clock = 0
    /\ req = [r \in Requests |-> Idle]

(***************************************************************************)
(* Row locks on users.  Management locks its target FOR NO KEY UPDATE,     *)
(* everything else locks FOR UPDATE; the foreign key of a security event   *)
(* with another initiator takes the initiator's row FOR KEY SHARE.         *)
(***************************************************************************)
Management == {"ChangeRole", "ChangeStatus"}

\* Faulty: management locks like everything else.
ModeAlwaysUpdate(kind) == "FOR UPDATE"

Mode(kind) == IF kind \in Management THEN "FOR NO KEY UPDATE" ELSE "FOR UPDATE"

\* PostgreSQL's conflicts between these modes.
Excludes(mode) ==
    CASE mode = "FOR KEY SHARE" -> {"FOR UPDATE"}
      [] mode = "FOR NO KEY UPDATE" -> {"FOR NO KEY UPDATE", "FOR UPDATE"}
      [] mode = "FOR UPDATE" -> Modes

\* The other transactions that keep r from locking u.
Rivals(r, u, mode) ==
    {q \in Requests \ {r} : \E m \in Excludes(mode) : <<u, m>> \in req[q].held}

\* Faulty: the row is read without a lock.
UnlockedRead(r, u, mode) == TRUE

LockFree(r, u, mode) == Rivals(r, u, mode) = {}

(***************************************************************************)
(* Reads outside transactions.                                             *)
(***************************************************************************)
Enter(r, request) ==
    /\ req[r] = Idle /\ request.kind \in setup.kinds
    /\ req' = [req EXCEPT ![r] = request]
    /\ UNCHANGED <<store, clock>>

\* A request about one's own account, and one of an administrator.
Accept(r, kind, u, target, hash) ==
    Enter(r, [Idle EXCEPT !.pc = "ready", !.kind = kind, !.user = u,
                          !.target = target, !.hash = hash])
AcceptFrom(r, kind, by, as, u, to) ==
    Enter(r, [Idle EXCEPT !.pc = "ready", !.kind = kind, !.user = u,
                          !.by = by, !.as = as, !.to = to])

\* login reads the user by email and verifies the password against the
\* snapshot; a request with a wrong password ends here.
AcceptLogin(r, u) ==
    /\ user[u].status = "ACTIVE"
    /\ Accept(r, "Login", u, None, user[u].hash)

\* find_refresh: token, family and user of a token never change.
AcceptRefresh(r, k) ==
    /\ token[k] # NoToken
    /\ \E kind \in {"Refresh", "Logout"} :
        Accept(r, kind, family[token[k].family].user, k, None)

\* _require_refresh: the presented token is the live one of a live family.
CurrentToken(u, k, now) ==
    LET f == token[k].family IN
    /\ family[f].user = u
    /\ family[f].st = "ACTIVE"
    /\ now < family[f].expires
    /\ token[k].used = None

\* change_password up to its second transaction: the validation transaction
\* under the user's lock, the verification of the current password against
\* the row read there, and the new hash.
AcceptChangePassword(r, k) ==
    /\ token[k] # NoToken
    /\ LET u == family[token[k].family].user IN
        /\ LockFree(r, u, "FOR UPDATE")
        /\ user[u].status = "ACTIVE"
        /\ CurrentToken(u, k, clock)
        /\ Accept(r, "ChangePassword", u, k, user[u].hash)

\* RequestPasswordReset.execute: the snapshot by email.
AcceptRequestReset(r, u) ==
    /\ user[u].status = "ACTIVE"
    /\ Accept(r, "RequestReset", u, None, None)

\* complete_reset: find_reset, the snapshot by id, and the new hash.
AcceptCompleteReset(r, l) ==
    /\ link[l] # NoLink
    /\ LET u == challenge[link[l].challenge].user IN
        /\ user[u].status = "ACTIVE"
        /\ Accept(r, "CompleteReset", u, l, user[u].hash)

\* The roles an access token of u can carry: those u has held.
TokenRoles(u) ==
    {InitUser[u].role} \cup
    {log[u][i].to : i \in {j \in DOMAIN log[u] : log[u][j].type = "ROLE"}}

\* MANAGE_USER_STATUS, and never on oneself.
AcceptChangeStatus(r, by, u, status) ==
    /\ "SUPER_ADMIN" \in TokenRoles(by)
    /\ by # u
    /\ AcceptFrom(r, "ChangeStatus", by, "SUPER_ADMIN", u, status)

Rank(role) == CASE role = "USER" -> 0 [] role = "ADMIN" -> 1 [] role = "SUPER_ADMIN" -> 2

\* AuthorizationPolicy.authorize_role_change.
MayChangeRole(actorRole, by, u, targetRole, new) ==
    /\ actorRole \in {"ADMIN", "SUPER_ADMIN"}
    /\ by # u
    /\ \/ actorRole = "SUPER_ADMIN"
       \/ Rank(targetRole) < Rank(actorRole) /\ Rank(new) <= Rank(actorRole)

\* MANAGE_USER_ROLES; the target's role is only known under its lock.
AcceptChangeRole(r, by, u, role) ==
    \E as \in TokenRoles(by) \cap {"ADMIN", "SUPER_ADMIN"} :
        AcceptFrom(r, "ChangeRole", by, as, u, role)

(***************************************************************************)
(* Transactions.                                                           *)
(***************************************************************************)
\* transaction: lock the user row and read it.
LockUser(r) ==
    /\ req[r].pc = "ready"
    /\ LockFree(r, req[r].user, Mode(req[r].kind))
    /\ req' = [req EXCEPT ![r].pc = "locked", ![r].row = user[req[r].user],
                          ![r].held = {<<req[r].user, Mode(req[r].kind)>>}]
    /\ UNCHANGED <<store, clock>>

Working(r, kind) == req[r].pc = "locked" /\ req[r].kind = kind
Done(r) == req' = [req EXCEPT ![r] = Idle] /\ UNCHANGED clock

\* lock_families and revoke: every ACTIVE family of the user.
Revoked(u) ==
    [f \in Families |->
        IF family[f].st = "ACTIVE" /\ family[f].user = u
        THEN [family[f] EXCEPT !.st = "REVOKED"] ELSE family[f]]

\* lock_challenges and revoke_challenge: every ACTIVE challenge of the user.
RevokedChallenges(u) ==
    [c \in Challenges |->
        IF challenge[c].st = "ACTIVE" /\ challenge[c].user = u
        THEN [challenge[c] EXCEPT !.st = "REVOKED"] ELSE challenge[c]]

\* Server-generated ids, in order.
NewFamily == {f \in Families : family[f] = NoFamily
                /\ \A g \in Families : g < f => family[g] # NoFamily}
NewToken == {k \in Tokens : token[k] = NoToken
                /\ \A j \in Tokens : j < k => token[j] # NoToken}
NewChallenge == {c \in Challenges : challenge[c] = NoChallenge
                   /\ \A b \in Challenges : b < c => challenge[b] # NoChallenge}
NewLink == {l \in Links : link[l] = NoLink
              /\ \A j \in Links : j < l => link[j] # NoLink}

\* Faulty: the sessions opened before are left alone.
OpenSessionBeside(u, under) ==
    \E f \in NewFamily, k \in NewToken :
        /\ family' = [family EXCEPT ![f] =
                         [st |-> "ACTIVE", user |-> u,
                          expires |-> clock + FamilyLife, under |-> under]]
        /\ token' = [token EXCEPT ![k] = [family |-> f, used |-> None, next |-> None]]

\* Revoke the user's sessions, create_family and its first token.
OpenSession(u, under) ==
    \E f \in NewFamily, k \in NewToken :
        /\ family' = [Revoked(u) EXCEPT ![f] =
                         [st |-> "ACTIVE", user |-> u,
                          expires |-> clock + FamilyLife, under |-> under]]
        /\ token' = [token EXCEPT ![k] = [family |-> f, used |-> None, next |-> None]]

\* Faulty: only the status, or only the password, is checked again.
UnchangedStatus(r) == req[r].row.status = "ACTIVE"
UnchangedHash(r) == req[r].row.hash = req[r].hash

\* The checks under the lock: still active, and the snapshot's password.
Unchanged(r) == req[r].row.status = "ACTIVE" /\ req[r].row.hash = req[r].hash

FinishLogin(r) ==
    /\ Working(r, "Login")
    /\ Done(r)
    /\ UNCHANGED <<user, resets, log>>
    /\ \/ Unchanged(r) /\ OpenSession(req[r].user, req[r].hash)
       \/ ~Unchanged(r) /\ UNCHANGED sessions

\* Faulty: a token already used is rotated again during the window.
RotatesAgain(k, now) ==
    IF token[k].used = None THEN TRUE ELSE now <= token[k].used + ConflictWindow

Rotates(k, now) == token[k].used = None

\* Faulty: the window is one instant too short.
ReplayedEarly(k, now) == token[k].used # None /\ now >= token[k].used + ConflictWindow

\* The token was replaced and its conflict window is over.
Replayed(k, now) == token[k].used # None /\ now > token[k].used + ConflictWindow

\* Faulty: the state of the family is not looked at again.
LiveUntilExpiry(f, now) == now < family[f].expires

Live(f, now) == family[f].st = "ACTIVE" /\ now < family[f].expires

\* _refresh: rotate the token, refuse it (401, or 409 within the window), or
\* revoke the family of a replayed token and commit before refusing.
FinishRefresh(r) ==
    LET k == req[r].target
        f == token[k].family
        served == req[r].row.status = "ACTIVE" /\ Live(f, clock)
    IN  /\ Working(r, "Refresh")
        /\ Done(r)
        /\ UNCHANGED <<user, resets, log>>
        /\ \/ /\ served /\ Rotates(k, clock)
              /\ \E j \in NewToken :
                    token' = [token EXCEPT
                        ![j] = [family |-> f, used |-> None, next |-> None],
                        ![k].used = clock, ![k].next = j]
              /\ UNCHANGED family
           \/ /\ served /\ ~Rotates(k, clock) /\ Replayed(k, clock)
              /\ family' = [family EXCEPT ![f].st = "REVOKED"]
              /\ UNCHANGED token
           \/ /\ ~served \/ (~Rotates(k, clock) /\ ~Replayed(k, clock))
              /\ UNCHANGED sessions

\* logout: revoke only by the live token, whatever the status of the user.
FinishLogout(r) ==
    LET k == req[r].target
        f == token[k].family
        live == Live(f, clock) /\ token[k].used = None
    IN  /\ Working(r, "Logout")
        /\ Done(r)
        /\ UNCHANGED <<user, token, resets, log>>
        /\ \/ live /\ family' = [family EXCEPT ![f].st = "REVOKED"]
           \/ ~live /\ UNCHANGED family

Record(u, event) ==
    /\ Len(log[u]) < MaxEvents
    /\ log' = [log EXCEPT ![u] = Append(@, event)]

PasswordEvent == [type |-> "PASSWORD", from |-> None, to |-> None]

\* change_password, the second transaction.
FinishChangePassword(r) ==
    LET u == req[r].user
        valid == Unchanged(r) /\ CurrentToken(u, req[r].target, clock)
    IN  /\ Working(r, "ChangePassword")
        /\ Done(r)
        /\ UNCHANGED link
        /\ \/ /\ valid
              /\ user' = [user EXCEPT ![u].hash = @ + 1]
              /\ OpenSession(u, user[u].hash + 1)
              /\ challenge' = RevokedChallenges(u)
              /\ Record(u, PasswordEvent)
           \/ ~valid /\ UNCHANGED <<user, sessions, challenge, log>>

Outstanding(u) == {c \in Challenges : challenge[c].st = "ACTIVE" /\ challenge[c].user = u}

\* RequestPasswordReset.execute: another link for the challenge that is open,
\* or for a new one after it expired; its deadline is never moved.  The mail
\* is sent after the commit and may not arrive.
FinishRequestReset(r) ==
    LET u == req[r].user
        open == {c \in Outstanding(u) : clock < challenge[c].expires}
        active == req[r].row.status = "ACTIVE"
    IN  /\ Working(r, "RequestReset")
        /\ Done(r)
        /\ UNCHANGED <<user, sessions, log>>
        /\ \/ /\ active /\ open # {}
              /\ \E c \in open, l \in NewLink :
                    link' = [link EXCEPT ![l] = [challenge |-> c, used |-> None]]
              /\ UNCHANGED challenge
           \/ /\ active /\ open = {}
              /\ \E c \in NewChallenge, l \in NewLink :
                    /\ challenge' =
                         [b \in Challenges |->
                            IF b = c THEN [st |-> "ACTIVE", user |-> u,
                                           expires |-> clock + ResetLife,
                                           under |-> user[u].hash]
                            ELSE IF b \in Outstanding(u)
                                 THEN [challenge[b] EXCEPT !.st = "EXPIRED"]
                                 ELSE challenge[b]]
                    /\ link' = [link EXCEPT ![l] = [challenge |-> c, used |-> None]]
           \/ ~active /\ UNCHANGED resets

\* Faulty: only the link itself is looked at, not its challenge.
RedeemableAlone(l, now) == now < challenge[link[l].challenge].expires /\ link[l].used = None

Redeemable(l, now) ==
    /\ challenge[link[l].challenge].st = "ACTIVE"
    /\ now < challenge[link[l].challenge].expires
    /\ link[l].used = None

\* complete_reset under the lock.
FinishCompleteReset(r) ==
    LET u == req[r].user
        l == req[r].target
        c == link[l].challenge
        valid == Unchanged(r) /\ Redeemable(l, clock)
    IN  /\ Working(r, "CompleteReset")
        /\ Done(r)
        /\ UNCHANGED token
        /\ \/ /\ valid
              /\ user' = [user EXCEPT ![u].hash = @ + 1]
              /\ family' = Revoked(u)
              /\ challenge' = [challenge EXCEPT ![c].st = "COMPLETED"]
              /\ link' = [link EXCEPT ![l].used = clock]
              /\ Record(u, PasswordEvent)
           \/ ~valid /\ UNCHANGED <<user, family, resets, log>>

\* The transaction is going to change its target and to say who asked for it.
Changes(r) ==
    /\ req[r].pc = "locked"
    /\ \/ /\ req[r].kind = "ChangeStatus" /\ req[r].row.status # req[r].to
       \/ /\ req[r].kind = "ChangeRole" /\ req[r].row.role # req[r].to
          /\ MayChangeRole(req[r].as, req[r].by, req[r].user, req[r].row.role, req[r].to)

Initiator(r) == <<req[r].by, "FOR KEY SHARE">>

\* audit: the insert of the event locks the initiator's row.  It is the last
\* statement; it and the writes before it appear with the commit.
Audit(r) ==
    /\ Changes(r) /\ Initiator(r) \notin req[r].held
    /\ LockFree(r, req[r].by, "FOR KEY SHARE")
    /\ req' = [req EXCEPT ![r].held = @ \cup {Initiator(r)}]
    /\ UNCHANGED <<store, clock>>

\* change_status: disabling revokes sessions and challenges.
FinishChangeStatus(r) ==
    LET u == req[r].user
        was == req[r].row.status
        new == req[r].to
    IN  /\ Working(r, "ChangeStatus")
        /\ Done(r)
        /\ UNCHANGED <<token, link>>
        /\ \/ /\ was # new /\ Initiator(r) \in req[r].held
              /\ family' = IF new = "DISABLED" THEN Revoked(u) ELSE family
              /\ challenge' = IF new = "DISABLED" THEN RevokedChallenges(u) ELSE challenge
              /\ user' = [user EXCEPT ![u].status = new]
              /\ Record(u, [type |-> "STATUS", from |-> was, to |-> new])
           \/ was = new /\ UNCHANGED <<user, family, challenge, log>>

\* change_role: the sessions stay, the next access token carries the role.
FinishChangeRole(r) ==
    LET u == req[r].user
        was == req[r].row.role
        new == req[r].to
        allowed == MayChangeRole(req[r].as, req[r].by, u, was, new)
    IN  /\ Working(r, "ChangeRole")
        /\ Done(r)
        /\ UNCHANGED <<sessions, resets>>
        /\ \/ /\ allowed /\ was # new /\ Initiator(r) \in req[r].held
              /\ user' = [user EXCEPT ![u].role = new]
              /\ Record(u, [type |-> "ROLE", from |-> was, to |-> new])
           \/ (~allowed \/ was = new) /\ UNCHANGED <<user, log>>

\* The connection or the process is lost before the commit: rolled back.
Abort(r) ==
    /\ req[r].pc # "idle"
    /\ Done(r)
    /\ UNCHANGED store

Tick == clock < setup.until /\ clock' = clock + 1 /\ UNCHANGED <<store, req>>

Start(r) ==
    \/ \E u \in Subjects : AcceptLogin(r, u) \/ AcceptRequestReset(r, u)
    \/ \E k \in Tokens : AcceptRefresh(r, k) \/ AcceptChangePassword(r, k)
    \/ \E l \in Links : AcceptCompleteReset(r, l)
    \/ \E by \in Users, u \in Subjects, status \in Statuses :
           AcceptChangeStatus(r, by, u, status)
    \/ \E by \in Users, u \in Subjects, role \in Roles :
           AcceptChangeRole(r, by, u, role)

Finish(r) ==
    \/ FinishLogin(r) \/ FinishRefresh(r) \/ FinishLogout(r)
    \/ FinishChangePassword(r) \/ FinishRequestReset(r) \/ FinishCompleteReset(r)
    \/ FinishChangeStatus(r) \/ FinishChangeRole(r)

Next ==
    /\ UNCHANGED setup
    /\ \/ Tick
       \/ \E r \in Requests : Start(r) \/ LockUser(r) \/ Audit(r) \/ Finish(r) \/ Abort(r)

Spec == Init /\ [][Next]_vars

(***************************************************************************)
(* Properties.                                                             *)
(***************************************************************************)

\* A disabled user has neither a live session nor a live reset challenge,
\* however the disabling raced logins, refreshes and reset requests.
DisabledHoldsNothing ==
    \A u \in Users : user[u].status = "DISABLED" =>
        /\ \A f \in Families : family[f].user = u => family[f].st # "ACTIVE"
        /\ \A c \in Challenges : challenge[c].user = u => challenge[c].st # "ACTIVE"

\* Every live session and reset challenge goes back to the password the user
\* has now: a change or reset of the password leaves nothing of the old one,
\* although passwords are verified and hashed outside transactions.
OpenedUnderCurrentPassword ==
    /\ \A f \in Families :
          family[f].st = "ACTIVE" => family[f].under = user[family[f].user].hash
    /\ \A c \in Challenges :
          challenge[c].st = "ACTIVE" => challenge[c].under = user[challenge[c].user].hash

\* The tables accept every row: the statuses are those of their CHECKs, and a
\* user has at most one live session and one live challenge, so that the
\* partial unique indexes never refuse a login or a repeated reset request.
SessionTablesAccept ==
    /\ CredTypeOK
    /\ \A f, g \in Families :
          family[f].st = "ACTIVE" /\ family[g].st = "ACTIVE"
          /\ family[f].user = family[g].user => f = g
    /\ \A c, d \in Challenges :
          challenge[c].st = "ACTIVE" /\ challenge[d].st = "ACTIVE"
          /\ challenge[c].user = challenge[d].user => c = d

\* The tokens of a family form one chain: every used token was replaced by
\* exactly one token of the family and exactly one token is unused, so that a
\* token presented twice or by two tabs is never rotated twice.
RotationIsLinear ==
    /\ \A f \in Families : family[f] # NoFamily =>
          Cardinality({k \in Tokens : token[k].family = f /\ token[k].used = None}) = 1
    /\ \A k \in Tokens : token[k].used # None =>
          /\ token[k].next \in Tokens
          /\ token[token[k].next].family = token[k].family
          /\ \A j \in Tokens \ {k} : token[j].next # token[k].next

\* A revoked or expired session is over: no token is issued in it again, its
\* deadline never moves, and challenges never leave a final state.
RevocationIsFinal ==
    [][/\ \A f \in Families : family[f] # NoFamily =>
            /\ family[f].st = "REVOKED" => family'[f].st = "REVOKED"
            /\ family'[f].expires = family[f].expires
       /\ \A k \in Tokens : token[k] = NoToken /\ token'[k] # NoToken =>
            LET f == token'[k].family IN
            family'[f].st = "ACTIVE" /\ clock < family'[f].expires
       /\ \A c \in Challenges :
            /\ challenge[c].st \in {"EXPIRED", "COMPLETED", "REVOKED"} =>
                  challenge'[c] = challenge[c]
            /\ challenge[c] # NoChallenge => challenge'[c].expires = challenge[c].expires]_vars

\* A refresh ends the session exactly when it presents a token replaced more
\* than the conflict window ago; a retry within the window costs nothing.
ReplayEndsSession ==
    [][\A r \in Requests : FinishRefresh(r) =>
        LET k == req[r].target
            f == token[k].family
        IN  (family'[f].st # family[f].st) <=>
                /\ user[family[f].user].status = "ACTIVE"
                /\ family[f].st = "ACTIVE" /\ clock < family[f].expires
                /\ token[k].used # None /\ clock > token[k].used + ConflictWindow]_vars

\* Of all links mailed for one challenge at most one is ever redeemed, and a
\* challenge is completed exactly if one was.
LinksRedeemedOnce ==
    \A c \in Challenges :
        Cardinality({l \in Links : link[l].challenge = c /\ link[l].used # None}) =
            IF challenge[c].st = "COMPLETED" THEN 1 ELSE 0

\* The security events of a user explain its row: each change of role or
\* status starts where the one before ended, the last one gives the current
\* value, and there is one event per password.
EventsOf(events, type) == {i \in DOMAIN events : events[i].type = type}
Explains(events, type, start, now) ==
    LET these == EventsOf(events, type) IN
    /\ these = {} => now = start
    /\ \A i \in these :
        /\ events[i].from # events[i].to
        /\ (\A j \in these : i <= j) => events[i].from = start
        /\ (\A j \in these : j <= i) => events[i].to = now
        /\ \A j \in these :
              i < j /\ (\A k \in these : k <= i \/ j <= k) =>
                  events[i].to = events[j].from
EventsExplainUsers ==
    \A u \in Users :
        /\ Explains(log[u], "ROLE", InitUser[u].role, user[u].role)
        /\ Explains(log[u], "STATUS", InitUser[u].status, user[u].status)
        /\ user[u].hash = InitUser[u].hash + Cardinality(EventsOf(log[u], "PASSWORD"))

\* The row lock on a user that a request needs for its next statement.
Wanted(r) ==
    CASE req[r].pc = "ready" -> {<<req[r].user, Mode(req[r].kind)>>}
      [] Changes(r) -> {Initiator(r)} \ req[r].held
      [] OTHER -> {}

Blockers(r) == UNION {Rivals(r, w[1], w[2]) : w \in Wanted(r)}

\* Transactions on accounts never wait in a circle for each other's user rows,
\* whoever logs in, changes a password or is changed by whom: among any of
\* them one waits for none of the others.  Two administrators who change each
\* other hold their targets while their events need each other's row.
NoLockCycle ==
    \A S \in (SUBSET Requests) \ {{}} : \E r \in S : Blockers(r) \cap S = {}
=============================================================================
