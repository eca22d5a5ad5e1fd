---------------------------- MODULE MCCredentials ----------------------------
(***************************************************************************)
(* Small instances of Credentials.                                         *)
(***************************************************************************)
EXTENDS Credentials, TLC

CONSTANTS u1, u2

Row(role) == [status |-> "ACTIVE", hash |-> 1, role |-> role]

\* A user, and an administrator who acts on that user only.
UserAndAdmin == u1 :> Row("USER") @@ u2 :> Row("SUPER_ADMIN")
\* Two administrators who can act on each other.
TwoAdmins == u1 :> Row("ADMIN") @@ u2 :> Row("SUPER_ADMIN")

\* Logins, rotations, replays and what ends a session, until it expires.
Sessions ==
    [users |-> UserAndAdmin, subjects |-> {u1}, until |-> 3,
     kinds |-> {"Login", "Refresh", "Logout", "ChangePassword", "ChangeStatus"}]
\* Reset links against logins, password changes and disabling.
Resets ==
    [users |-> UserAndAdmin, subjects |-> {u1}, until |-> 2,
     kinds |-> {"Login", "RequestReset", "CompleteReset", "ChangePassword",
                "ChangeStatus"}]
\* Administrators changing each other.
Admins ==
    [users |-> TwoAdmins, subjects |-> {u1, u2}, until |-> 0,
     kinds |-> {"ChangeRole", "ChangeStatus"}]
\* Administrators changing each other's role while they log in.
AdminLogins ==
    [users |-> TwoAdmins, subjects |-> {u1, u2}, until |-> 0,
     kinds |-> {"ChangeRole", "Login"}]

MCSetups == {Sessions, Resets, Admins, AdminLogins}

Interchangeable == Permutations(Requests)
=============================================================================
