---------------------------- MODULE Registrations ----------------------------
(***************************************************************************)
(* How accounts come into being: registration through a mailed link, and   *)
(* the operator's bootstrap command for the first SUPER_ADMIN.             *)
(*                                                                         *)
(* Registration transactions take an advisory lock on the email first.     *)
(* The bootstrap command does not: only the unique index on the email      *)
(* orders it against them, and an insert waits while another transaction   *)
(* holds the same email uncommitted.  What administrators and the owner do *)
(* with an account afterwards is one action here (module Credentials has   *)
(* the detail).                                                            *)
(***************************************************************************)
EXTENDS Naturals, FiniteSets

CONSTANTS
    Emails,             \* normalized addresses
    Allowed,            \* those in an allowed domain
    Passwords,
    Challenges,         \* pool of registration challenge ids, in issue order
    Links,              \* pool of registration token ids, in issue order
    Requests,           \* requests and commands in progress at one time
    RegistrationLife,   \* twenty-four hours
    MaxTime,            \* bound on the clock
    MaxSalt,            \* bound on the password hashes made
    None

Roles == {"USER", "ADMIN", "SUPER_ADMIN"}
Statuses == {"ACTIVE", "DISABLED"}
Kinds == {"Request", "Complete", "Bootstrap"}
Time == Nat

\* A users row, or none.  A hash is the password with a fresh salt;
\* "origin" tells who inserted the row, "session" whether it came with one.
NoAccount == [origin |-> "absent", role |-> None, status |-> None,
              salt |-> 0, pw |-> None, session |-> FALSE]
NoChallenge == [st |-> "absent", email |-> None, expires |-> 0]
NoLink == [challenge |-> None, used |-> None]

ASSUME RegistrationIds ==
    Challenges \subseteq Nat /\ Links \subseteq Nat /\ Allowed \subseteq Emails
ASSUME RegistrationSentinel ==
    None \notin Nat \cup Emails \cup Passwords \cup Roles \cup Kinds
ASSUME RegistrationLifetime == RegistrationLife \in Nat \ {0}

VARIABLES
    account,    \* users, by normalized_email
    challenge,  \* registration_challenges
    link,       \* registration_tokens
    salt,       \* hashes made so far
    clock,      \* clock_timestamp()
    req         \* requests and commands in progress

store == <<account, challenge, link>>
vars == <<account, challenge, link, salt, clock, req>>

\* pc "ready": found, hashed; "locked": the advisory lock is held; "inserted":
\* the users row is inserted and not committed; "verified": the bootstrap
\* command compared its password with the row it saw.
Idle == [pc |-> "idle", kind |-> None, email |-> None, link |-> None,
         pw |-> None, salt |-> 0, seen |-> NoAccount, open |-> {}, at |-> 0]

Init ==
    /\ account = [e \in Emails |-> NoAccount]
    /\ challenge = [c \in Challenges |-> NoChallenge]
    /\ link = [l \in Links |-> NoLink]
    /\ salt = 0
    /\ clock = 0
    /\ req = [r \in Requests |-> Idle]

Enter(r, request) ==
    /\ req[r] = Idle
    /\ req' = [req EXCEPT ![r] = request]
    /\ UNCHANGED <<store, clock>>

Done(r) == req' = [req EXCEPT ![r] = Idle] /\ UNCHANGED <<salt, clock>>

(***************************************************************************)
(* Registration.                                                           *)
(***************************************************************************)
AcceptRequest(r, e) ==
    /\ e \in Allowed
    /\ Enter(r, [Idle EXCEPT !.pc = "ready", !.kind = "Request", !.email = e])
    /\ UNCHANGED salt

\* hash: a new salt every time.
Hashed == salt < MaxSalt /\ salt' = salt + 1

\* find_token: what it finds never changes; the domain, then the hash.
AcceptComplete(r, l, pw) ==
    /\ link[l] # NoLink
    /\ LET e == challenge[link[l].challenge].email IN
        /\ e \in Allowed
        /\ Enter(r, [Idle EXCEPT !.pc = "ready", !.kind = "Complete", !.email = e,
                                 !.link = l, !.pw = pw, !.salt = salt + 1])
    /\ Hashed

\* Faulty: no lock is taken.
UnlockedEmail(e) == TRUE

\* pg_advisory_xact_lock on the email is free.
EmailFree(e) ==
    \A r \in Requests : req[r].email = e /\ req[r].kind \in {"Request", "Complete"} =>
        req[r].pc \notin {"locked", "inserted"}

\* lock_active_challenge.
OpenChallenges(e) ==
    {c \in Challenges : challenge[c].st = "ACTIVE" /\ challenge[c].email = e}

\* transaction: the advisory lock, then what the transaction reads under it.
LockEmail(r) ==
    /\ req[r].pc = "ready" /\ req[r].kind \in {"Request", "Complete"}
    /\ EmailFree(req[r].email)
    /\ req' = [req EXCEPT ![r].pc = "locked",
                          ![r].seen = account[req[r].email],
                          ![r].open = OpenChallenges(req[r].email),
                          ![r].at = clock]
    /\ UNCHANGED <<store, salt, clock>>

NewChallenge == {c \in Challenges : challenge[c] = NoChallenge
                   /\ \A b \in Challenges : b < c => challenge[b] # NoChallenge}
NewLink == {l \in Links : link[l] = NoLink
              /\ \A j \in Links : j < l => link[j] # NoLink}

Deadline(now) == now + RegistrationLife

\* RequestRegistration.execute: nothing for a registered address; a link for
\* the open challenge, or for a new one once that is past its deadline.  The
\* mail is sent after the commit and may not arrive.
FinishRequest(r) ==
    LET e == req[r].email
        open == {c \in req[r].open : req[r].at < challenge[c].expires}
        unknown == req[r].seen = NoAccount
    IN  /\ req[r].pc = "locked" /\ req[r].kind = "Request"
        /\ Done(r)
        /\ UNCHANGED account
        /\ \/ /\ unknown /\ open # {}
              /\ \E c \in open, l \in NewLink :
                    link' = [link EXCEPT ![l] = [challenge |-> c, used |-> None]]
              /\ UNCHANGED challenge
           \/ /\ unknown /\ open = {}
              /\ \E c \in NewChallenge, l \in NewLink :
                    /\ challenge' =
                         [b \in Challenges |->
                            IF b = c THEN [st |-> "ACTIVE", email |-> e,
                                           expires |-> Deadline(req[r].at)]
                            ELSE IF b \in req[r].open
                                 THEN [challenge[b] EXCEPT !.st = "EXPIRED"]
                                 ELSE challenge[b]]
                    /\ link' = [link EXCEPT ![l] = [challenge |-> c, used |-> None]]
           \/ ~unknown /\ UNCHANGED <<challenge, link>>

\* Faulty: the email is not unique.
NeverTaken(e) == FALSE

\* uq_users_normalized_email: another row has the email, or a transaction
\* that has not ended yet inserted it and the insert waits.
EmailTaken(e) == account[e] # NoAccount
EmailPending(r, e) ==
    \E q \in Requests \ {r} : req[q].pc = "inserted" /\ req[q].email = e

\* The checks of CompleteRegistration.execute under the lock.
Redeemable(r) ==
    LET l == req[r].link
        c == link[l].challenge
    IN  /\ challenge[c].st = "ACTIVE"
        /\ req[r].at < challenge[c].expires
        /\ link[l].used = None

\* create_user, or the refusal of a spent link or of a duplicate email.
InsertUser(r) ==
    LET e == req[r].email
        refused == ~Redeemable(r) \/ EmailTaken(e)
    IN  /\ req[r].pc = "locked" /\ req[r].kind = "Complete"
        /\ UNCHANGED store
        /\ \/ /\ ~refused /\ ~EmailPending(r, e)
              /\ req' = [req EXCEPT ![r].pc = "inserted"]
              /\ UNCHANGED <<salt, clock>>
           \/ refused /\ Done(r)

\* create_family, add_refresh_token, complete, the access token, the commit.
CommitRegistration(r) ==
    /\ req[r].pc = "inserted" /\ req[r].kind = "Complete"
    /\ account' = [account EXCEPT ![req[r].email] =
                      [origin |-> "link", role |-> "USER", status |-> "ACTIVE",
                       salt |-> req[r].salt, pw |-> req[r].pw, session |-> TRUE]]
    /\ challenge' = [challenge EXCEPT ![link[req[r].link].challenge].st = "COMPLETED"]
    /\ link' = [link EXCEPT ![req[r].link].used = req[r].at]
    /\ Done(r)

(***************************************************************************)
(* Bootstrap.                                                              *)
(***************************************************************************)
\* BootstrapSuperAdmin.execute, the first read: hash the password for a new
\* row, or compare it with the row that is there.
StartBootstrap(r, e, pw) ==
    \/ /\ account[e] = NoAccount
       /\ Enter(r, [Idle EXCEPT !.pc = "ready", !.kind = "Bootstrap", !.email = e,
                                !.pw = pw, !.salt = salt + 1])
       /\ Hashed
    \/ /\ account[e] # NoAccount
       /\ Enter(r, [Idle EXCEPT !.pc = "verified", !.kind = "Bootstrap", !.email = e,
                                !.pw = pw, !.seen = account[e]])
       /\ UNCHANGED salt

\* create_with_security_event: the insert, or the row that was faster.
InsertSuperAdmin(r) ==
    LET e == req[r].email IN
    /\ req[r].pc = "ready" /\ req[r].kind = "Bootstrap"
    /\ ~EmailPending(r, e)
    /\ UNCHANGED <<store, salt, clock>>
    /\ \/ /\ ~EmailTaken(e)
          /\ req' = [req EXCEPT ![r].pc = "inserted"]
       \/ /\ EmailTaken(e)
          /\ req' = [req EXCEPT ![r].pc = "verified", ![r].seen = account[e]]

\* CREATED: the row with its security event.
CommitSuperAdmin(r) ==
    /\ req[r].pc = "inserted" /\ req[r].kind = "Bootstrap"
    /\ account' = [account EXCEPT ![req[r].email] =
                      [origin |-> "bootstrap", role |-> "SUPER_ADMIN",
                       status |-> "ACTIVE", salt |-> req[r].salt,
                       pw |-> req[r].pw, session |-> FALSE]]
    /\ UNCHANGED <<challenge, link>>
    /\ Done(r)

\* Faulty: the row is not read a second time.
ConfirmedByFirstRead(r) ==
    /\ req[r].seen.pw = req[r].pw
    /\ req[r].seen.role = "SUPER_ADMIN" /\ req[r].seen.status = "ACTIVE"

\* The second read shows the row that was verified, and it is as asked for.
Confirmed(r) ==
    LET current == account[req[r].email]
        existing == req[r].seen
    IN  /\ current.salt = existing.salt
        /\ current.role = existing.role
        /\ current.status = existing.status
        /\ existing.pw = req[r].pw
        /\ current.role = "SUPER_ADMIN"
        /\ current.status = "ACTIVE"

\* NO_OP, or BootstrapStateConflict.
BootstrapNoOp(r) ==
    req[r].pc = "verified" /\ Confirmed(r) /\ Done(r) /\ UNCHANGED store
BootstrapConflict(r) ==
    req[r].pc = "verified" /\ ~Confirmed(r) /\ Done(r) /\ UNCHANGED store

(***************************************************************************)
(* Everything else.                                                        *)
(***************************************************************************)
\* A role, status or password change of an account.
ChangeAccount(e) ==
    /\ account[e] # NoAccount
    /\ \/ /\ \E role \in Roles \ {account[e].role} :
                account' = [account EXCEPT ![e].role = role]
          /\ UNCHANGED salt
       \/ /\ \E status \in Statuses \ {account[e].status} :
                account' = [account EXCEPT ![e].status = status]
          /\ UNCHANGED salt
       \/ /\ Hashed
          /\ \E pw \in Passwords :
                account' = [account EXCEPT ![e].pw = pw, ![e].salt = salt']
    /\ UNCHANGED <<challenge, link, clock, req>>

\* The connection or the process is lost: what was not committed is gone.
Abort(r) == req[r].pc # "idle" /\ Done(r) /\ UNCHANGED store

Tick == clock < MaxTime /\ clock' = clock + 1 /\ UNCHANGED <<store, salt, req>>

Step(r) ==
    \/ \E e \in Emails : AcceptRequest(r, e)
    \/ \E l \in Links, pw \in Passwords : AcceptComplete(r, l, pw)
    \/ \E e \in Emails, pw \in Passwords : StartBootstrap(r, e, pw)
    \/ LockEmail(r) \/ FinishRequest(r) \/ InsertUser(r) \/ CommitRegistration(r)
    \/ InsertSuperAdmin(r) \/ CommitSuperAdmin(r)
    \/ BootstrapNoOp(r) \/ BootstrapConflict(r)
    \/ Abort(r)

Next == Tick \/ (\E e \in Emails : ChangeAccount(e)) \/ \E r \in Requests : Step(r)

Spec == Init /\ [][Next]_vars

(***************************************************************************)
(* Properties.                                                             *)
(***************************************************************************)

\* An account made by registration came from exactly one link, the only one
\* redeemed for that address, in the one challenge completed for it; an
\* account made otherwise came from none, whatever links are still out.
AccountsComeFromOneLink ==
    \A e \in Emails :
        LET completed == {c \in Challenges : challenge[c].email = e
                                             /\ challenge[c].st = "COMPLETED"}
            redeemed == {l \in Links : link[l].used # None
                                       /\ challenge[link[l].challenge].email = e}
        IN  IF account[e].origin = "link"
            THEN \E c \in Challenges, l \in Links :
                    completed = {c} /\ redeemed = {l} /\ link[l].challenge = c
            ELSE completed = {} /\ redeemed = {}

\* An address has at most one open challenge: the partial unique index
\* never refuses a row, however requests for one address overlap.
OneOpenChallenge ==
    \A c, d \in Challenges :
        challenge[c].st = "ACTIVE" /\ challenge[d].st = "ACTIVE"
        /\ challenge[c].email = challenge[d].email => c = d

\* When the bootstrap command reports that nothing had to be done, the
\* account is at that moment an active SUPER_ADMIN with the given password,
\* although the password was verified against an earlier read.
NoOpMeansSuperAdmin ==
    [][\A r \in Requests : BootstrapNoOp(r) =>
        LET row == account[req[r].email] IN
        row.role = "SUPER_ADMIN" /\ row.status = "ACTIVE" /\ row.pw = req[r].pw]_vars
=============================================================================
