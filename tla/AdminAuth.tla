----------------------------- MODULE AdminAuth -----------------------------
(***************************************************************************)
(* The administrator account, its login sessions and the gateway API keys  *)
(* (repositories/admin_auth.py, routes/admin_auth.py, cli/reset_admin.py,  *)
(* repositories/gateway_keys.py, runtime.py).                              *)
(*                                                                         *)
(* A handler of the API never awaits, so one request is served at a time;  *)
(* the reset command is a process of its own and runs between any two      *)
(* database calls of the request.  Times are abstracted to expiry events.  *)
(***************************************************************************)
EXTENDS Naturals, FiniteSets

CONSTANTS
    User, Password,  \* user names and passwords that may be chosen
    Token,           \* session tokens (random, hashed in the table)
    Key,             \* gateway API keys
    MaxFailures,     \* failed logins that lock a user name (5 in the code)
    MaxChanges,      \* bound on the credential changes explored
    Absent           \* no row

ASSUME AdminAssumption ==
    /\ MaxFailures \in Nat \ {0} /\ MaxChanges \in Nat
    /\ Absent \notin Password /\ Absent \notin [enabled: BOOLEAN, revoked: BOOLEAN]

VARIABLES
    users,     \* admin_users: the password of each user name, or Absent
    epoch,     \* how often the credentials were changed (history variable)
    sessions,  \* admin_sessions
    attempts,  \* admin_login_attempts, one client address
    keys,      \* gateway_api_keys
    req        \* the request being served

vars == <<users, epoch, sessions, attempts, keys, req>>

Idle == [pc |-> "idle"]
NoFailure == [fails |-> 0, locked |-> FALSE]

\* The state of the tables; there is exactly one administrator, whatever the
\* order of renames, resets and restarts.
AdminTypeOK ==
    /\ users \in [User -> Password \cup {Absent}]
    /\ Cardinality({u \in User : users[u] # Absent}) = 1
    /\ epoch \in 0..MaxChanges
    /\ \A t \in Token : sessions[t] # Absent =>
          sessions[t] \in [user: User, epoch: 0..MaxChanges, expired: BOOLEAN, overtaken: BOOLEAN]
    /\ attempts \in [User -> [fails: 0..MaxFailures, locked: BOOLEAN]]
    /\ \A k \in Key : keys[k] # Absent => keys[k] \in [enabled: BOOLEAN, revoked: BOOLEAN]
    /\ req.pc \in {"idle", "verify", "failure", "clear", "session", "write"}

\* ensure_default_admin_user has made the first account.
AdminInit ==
    /\ \E u \in User, p \in Password : users = [v \in User |-> IF v = u THEN p ELSE Absent]
    /\ epoch = 0
    /\ sessions = [t \in Token |-> Absent]
    /\ attempts = [u \in User |-> NoFailure]
    /\ keys = [k \in Key |-> Absent]
    /\ req = Idle

Exists(u) == users[u] # Absent
Verifies(u, p) == users[u] = p

\* The tokens require_admin_auth accepts.
Live(t) == sessions[t] # Absent /\ ~sessions[t].expired

Without(names) == [t \in Token |-> IF sessions[t] # Absent /\ sessions[t].user \in names
                                   THEN Absent ELSE sessions[t]]

-----------------------------------------------------------------------------
(* POST /v1/admin/login *)

\* The lock is looked at first: a locked name is refused unverified.
Login(u, p) ==
    /\ req = Idle /\ ~attempts[u].locked
    /\ req' = [pc |-> "verify", op |-> "login", user |-> u, password |-> p]
    /\ UNCHANGED <<users, epoch, sessions, attempts, keys>>

VerifyLogin ==
    /\ req.pc = "verify" /\ req.op = "login"
    /\ req' = IF Verifies(req.user, req.password)
              THEN [pc |-> "clear", user |-> req.user, epoch |-> epoch]
              ELSE [pc |-> "failure", user |-> req.user]
    /\ UNCHANGED <<users, epoch, sessions, attempts, keys>>

\* The count is kept when a lock expires, so the next failure locks again; the
\* model stops counting at MaxFailures.
RecordFailure ==
    LET fails == IF attempts[req.user].fails = MaxFailures THEN MaxFailures
                                                           ELSE attempts[req.user].fails + 1
    IN  /\ req.pc = "failure"
        /\ attempts' = [attempts EXCEPT ![req.user] =
                           [fails |-> fails, locked |-> fails >= MaxFailures]]
        /\ req' = Idle
        /\ UNCHANGED <<users, epoch, sessions, keys>>

\* The failures older than a day go too.
ClearFailures ==
    /\ req.pc = "clear"
    /\ \E old \in SUBSET {u \in User : ~attempts[u].locked} :
          attempts' = [u \in User |-> IF u \in old \cup {req.user} THEN NoFailure ELSE attempts[u]]
    /\ req' = [req EXCEPT !.pc = "session"]
    /\ UNCHANGED <<users, epoch, sessions, keys>>

\* The session names the user that was verified; it is overtaken when the
\* credentials have changed since.
CreateSession(t) ==
    /\ req.pc = "session" /\ sessions[t] = Absent
    /\ sessions' = [sessions EXCEPT ![t] =
                       [user |-> req.user, epoch |-> req.epoch, expired |-> FALSE,
                        overtaken |-> req.epoch # epoch]]
    /\ req' = Idle
    /\ UNCHANGED <<users, epoch, attempts, keys>>

Logout(t) ==
    /\ req = Idle /\ sessions[t] # Absent
    /\ sessions' = [sessions EXCEPT ![t] = Absent]
    /\ UNCHANGED <<users, epoch, attempts, keys, req>>

\* get_admin_session deletes an expired session it meets.
MeetExpired(t) ==
    /\ req = Idle /\ sessions[t] # Absent /\ sessions[t].expired
    /\ sessions' = [sessions EXCEPT ![t] = Absent]
    /\ UNCHANGED <<users, epoch, attempts, keys, req>>

-----------------------------------------------------------------------------
(* Changes of the account *)

\* UPDATE admin_users ... WHERE username = u, then the sessions of both names.
Rewrite(u, name, p) ==
    /\ users' = IF Exists(u) THEN [[users EXCEPT ![u] = Absent] EXCEPT ![name] = p] ELSE users
    /\ epoch' = IF Exists(u) THEN epoch + 1 ELSE epoch
    /\ sessions' = Without({u, name})

\* PATCH /v1/admin/account: password check, change and the end of all sessions
\* are one immediate transaction.
UpdateAccount(t, current, name, p) ==
    /\ req = Idle /\ Live(t) /\ epoch < MaxChanges
    /\ LET u == sessions[t].user
       IN  /\ Verifies(u, current) /\ (name # u => ~Exists(name))
           /\ Rewrite(u, name, p)
    /\ UNCHANGED <<attempts, keys, req>>

\* POST /v1/admin/password and /username verify in one connection ...
ChangeRequest(t, current, name, p) ==
    /\ req = Idle /\ Live(t) /\ epoch < MaxChanges
    /\ name = sessions[t].user \/ p = current
    /\ Verifies(sessions[t].user, current)
    /\ req' = [pc |-> "write", user |-> sessions[t].user, name |-> name,
               password |-> p, renames |-> p = current]
    /\ UNCHANGED <<users, epoch, sessions, attempts, keys>>

\* Mutant: the sessions survive the change.
WriteChangeKeepsSessions ==
    /\ req.pc = "write" /\ epoch < MaxChanges
    /\ Exists(req.user)
    /\ users' = [[users EXCEPT ![req.user] = Absent]
                        EXCEPT ![req.name] = IF req.renames THEN users[req.user] ELSE req.password]
    /\ epoch' = epoch + 1
    /\ req' = Idle
    /\ UNCHANGED <<sessions, attempts, keys>>

\* ... and write in another.  A reset in between makes the UPDATE miss its row,
\* or be the last to set the password.
WriteChange ==
    /\ req.pc = "write" /\ epoch < MaxChanges
    /\ \/ /\ req.name # req.user => ~Exists(req.name)
          /\ Rewrite(req.user, req.name, IF req.renames THEN users[req.user] ELSE req.password)
       \/ /\ req.name # req.user /\ Exists(req.name)
          /\ UNCHANGED <<users, epoch, sessions>>
    /\ req' = Idle
    /\ UNCHANGED <<attempts, keys>>

-----------------------------------------------------------------------------
(* reset_admin_credentials, run by the packaging scripts *)

\* Mutant: the new name is inserted beside the old one.
ResetAdds(u, p) ==
    /\ epoch < MaxChanges
    /\ users' = [users EXCEPT ![u] = p]
    /\ epoch' = epoch + 1
    /\ sessions' = [t \in Token |-> Absent]
    /\ attempts' = [v \in User |-> NoFailure]
    /\ UNCHANGED <<keys, req>>

\* One immediate transaction: the sole administrator is rewritten, all sessions
\* and all failure counts go.
Reset(u, p) ==
    /\ epoch < MaxChanges
    /\ users' = [v \in User |-> IF v = u THEN p ELSE Absent]
    /\ epoch' = epoch + 1
    /\ sessions' = [t \in Token |-> Absent]
    /\ attempts' = [v \in User |-> NoFailure]
    /\ UNCHANGED <<keys, req>>

-----------------------------------------------------------------------------
(* Gateway API keys: every endpoint needs an administrator session *)

CreateKey(t, k) ==
    /\ req = Idle /\ Live(t) /\ keys[k] = Absent
    /\ keys' = [keys EXCEPT ![k] = [enabled |-> TRUE, revoked |-> FALSE]]
    /\ UNCHANGED <<users, epoch, sessions, attempts, req>>

\* Mutant: enabling a key clears revoked_at.
UpdateKeyRestores(t, k, enabled) ==
    /\ req = Idle /\ Live(t) /\ keys[k] # Absent
    /\ keys' = [keys EXCEPT ![k] = [enabled |-> enabled, revoked |-> @.revoked /\ ~enabled]]
    /\ UNCHANGED <<users, epoch, sessions, attempts, req>>

UpdateKey(t, k, enabled) ==
    /\ req = Idle /\ Live(t) /\ keys[k] # Absent
    /\ keys' = [keys EXCEPT ![k].enabled = enabled]
    /\ UNCHANGED <<users, epoch, sessions, attempts, req>>

RevokeKey(t, k) ==
    /\ req = Idle /\ Live(t) /\ keys[k] # Absent /\ ~keys[k].revoked
    /\ keys' = [keys EXCEPT ![k].revoked = TRUE]
    /\ UNCHANGED <<users, epoch, sessions, attempts, req>>

\* verify_gateway_api_key.
Admits(k) == keys[k] # Absent /\ keys[k].enabled /\ ~keys[k].revoked

-----------------------------------------------------------------------------
(* Time and restarts *)

SessionExpires(t) ==
    /\ Live(t)
    /\ sessions' = [sessions EXCEPT ![t].expired = TRUE]
    /\ UNCHANGED <<users, epoch, attempts, keys, req>>

LockExpires(u) ==
    /\ attempts[u].locked
    /\ attempts' = [attempts EXCEPT ![u].locked = FALSE]
    /\ UNCHANGED <<users, epoch, sessions, keys, req>>

\* The API dies and starts again: ensure_default_admin_user finds an account,
\* cleanup_admin_security_state purges expired sessions and, of the failures,
\* those older than a day.
Restart(old) ==
    /\ req' = Idle
    /\ sessions' = [t \in Token |-> IF Live(t) THEN sessions[t] ELSE Absent]
    /\ \A u \in old : ~attempts[u].locked
    /\ attempts' = [u \in User |-> IF u \in old THEN NoFailure ELSE attempts[u]]
    /\ UNCHANGED <<users, epoch, keys>>

AdminNext ==
    \/ \E u \in User, p \in Password : Login(u, p) \/ Reset(u, p)
    \/ VerifyLogin \/ RecordFailure \/ ClearFailures \/ WriteChange
    \/ \E t \in Token :
          \/ CreateSession(t) \/ Logout(t) \/ MeetExpired(t) \/ SessionExpires(t)
          \/ \E current, p \in Password, name \in User :
                UpdateAccount(t, current, name, p) \/ ChangeRequest(t, current, name, p)
          \/ \E k \in Key :
                \/ CreateKey(t, k) \/ RevokeKey(t, k)
                \/ \E enabled \in BOOLEAN : UpdateKey(t, k, enabled)
    \/ \E u \in User : LockExpires(u)
    \/ \E old \in SUBSET User : Restart(old)

AdminSpec == AdminInit /\ [][AdminNext]_vars

-----------------------------------------------------------------------------
(* Properties *)

\* A session belongs to the account as it is now: every change of name or
\* password ends all earlier sessions, except that a login which a reset
\* overtakes between its password check and its INSERT still gets one.
SessionsFollowCredentials ==
    \A t \in Token : Live(t) =>
        \/ Exists(sessions[t].user) /\ sessions[t].epoch = epoch
        \/ sessions[t].overtaken

\* A revoked key stays out for ever, whatever updates follow.
RevokedKeyStaysOut ==
    [][\A k \in Key : keys[k] # Absent /\ keys[k].revoked
                      => keys'[k] # Absent /\ ~Admits(k)']_vars
=============================================================================
