--------------------------- MODULE AdminAuthProofs ---------------------------
(***************************************************************************)
(* One administrator, no session that outlives its credentials and no      *)
(* revoked key that opens again, for any number of users, passwords,       *)
(* sessions and keys.                                                      *)
(*                                                                         *)
(* A change ends the sessions of two names only, so that it ends all the   *)
(* current ones rests on there being one administrator; and a login that   *)
(* has passed its password check is current until the credentials change.  *)
(***************************************************************************)
EXTENDS AdminAuth, FiniteSetTheorems, TLAPS

Rows == [user: User, epoch: 0..MaxChanges, expired: BOOLEAN, overtaken: BOOLEAN]
KeyRows == [enabled: BOOLEAN, revoked: BOOLEAN]

Verifying == [pc: {"verify"}, op: {"login"}, user: User, password: Password]
Failing == [pc: {"failure"}, user: User]
Passing == [pc: {"clear", "session"}, user: User, epoch: 0..MaxChanges]
Writing == [pc: {"write"}, user: User, name: User, password: Password, renames: BOOLEAN]

Shape ==
    /\ users \in [User -> Password \cup {Absent}]
    /\ epoch \in 0..MaxChanges
    /\ sessions \in [Token -> Rows \cup {Absent}]
    /\ attempts \in [User -> [fails: 0..MaxFailures, locked: BOOLEAN]]
    /\ keys \in [Key -> KeyRows \cup {Absent}]
    /\ req \in {Idle} \cup Verifying \cup Failing \cup Passing \cup Writing

OneAdmin == \E u \in User : Exists(u) /\ \A v \in User \ {u} : ~Exists(v)

\* A login past its password check is for an account that is still there, unless
\* the credentials have changed since.
LoginCurrent ==
    req \in Passing => req.epoch <= epoch /\ (req.epoch = epoch => Exists(req.user))

\* Expired sessions too are current or overtaken.
SessionsCurrent ==
    \A t \in Token : sessions[t] # Absent =>
        \/ Exists(sessions[t].user) /\ sessions[t].epoch = epoch
        \/ sessions[t].overtaken

AdminInv == Shape /\ OneAdmin /\ LoginCurrent /\ SessionsCurrent

-----------------------------------------------------------------------------
(* The request being served *)

\* The step a request is at tells what is known of it.
LEMMA RequestShape ==
    ASSUME Shape
    PROVE  /\ req.pc = "verify" => req \in Verifying
           /\ req.pc = "failure" => req \in Failing
           /\ req.pc \in {"clear", "session"} => req \in Passing
           /\ req.pc = "write" => req \in Writing
BY DEF Shape, Idle, Verifying, Failing, Passing, Writing

\* Only a login past its password check is a Passing request.
LEMMA NotPassing ==
    /\ Idle \notin Passing
    /\ \A x \in Verifying \cup Failing \cup Writing : x \notin Passing
BY DEF Idle, Verifying, Failing, Passing, Writing

\* A step that leaves the account and the sessions alone, and starts no login
\* for an account that is not there.
LEMMA QuietStep ==
    ASSUME AdminInv, Shape', UNCHANGED <<users, epoch, sessions>>,
           req' \in Passing => \/ req' = req
                               \/ req \in Passing /\ req'.epoch = req.epoch /\ req'.user = req.user
                               \/ req'.epoch = epoch /\ Exists(req'.user)
    PROVE  AdminInv'
<1>1. OneAdmin' /\ SessionsCurrent'
  BY DEF AdminInv, OneAdmin, SessionsCurrent, Exists
<1>2. LoginCurrent'
  BY DEF AdminInv, LoginCurrent, Exists, Shape
<1>3. QED
  BY <1>1, <1>2 DEF AdminInv

\* The login and its failures.
LEMMA LoginKeeps ==
    ASSUME AdminInv,
           \/ \E u \in User, p \in Password : Login(u, p)
           \/ VerifyLogin \/ RecordFailure \/ ClearFailures
    PROVE  AdminInv'
<1>1. CASE \E u \in User, p \in Password : Login(u, p)
  <2>1. req' \in Verifying /\ UNCHANGED <<users, epoch, sessions, attempts, keys>>
    BY <1>1 DEF Login, Verifying
  <2>2. Shape'
    BY <2>1 DEF AdminInv, Shape
  <2>3. QED
    BY <2>1, <2>2, NotPassing, QuietStep
<1>2. CASE VerifyLogin
  <2>1. UNCHANGED <<users, epoch, sessions, attempts, keys>> /\ req \in Verifying
    BY <1>2, RequestShape DEF VerifyLogin, AdminInv
  <2>2. CASE Verifies(req.user, req.password)
    <3>1. req' = [pc |-> "clear", user |-> req.user, epoch |-> epoch]
      BY <1>2, <2>2 DEF VerifyLogin
    <3>2. req' \in Passing /\ req'.epoch = epoch /\ req'.user = req.user
      BY <2>1, <3>1 DEF Passing, Verifying, AdminInv, Shape
    <3>3. Exists(req.user)
      BY <2>1, <2>2, AdminAssumption DEF Verifies, Exists, Verifying
    <3>4. Shape'
      BY <2>1, <3>2 DEF AdminInv, Shape
    <3>5. QED
      BY <2>1, <3>2, <3>3, <3>4, QuietStep
  <2>3. CASE ~Verifies(req.user, req.password)
    <3>1. req' = [pc |-> "failure", user |-> req.user]
      BY <1>2, <2>3 DEF VerifyLogin
    <3>2. req' \in Failing
      BY <2>1, <3>1 DEF Failing, Verifying
    <3>3. Shape'
      BY <2>1, <3>2 DEF AdminInv, Shape
    <3>4. QED
      BY <2>1, <3>2, <3>3, NotPassing, QuietStep
  <2>4. QED
    BY <2>2, <2>3
<1>3. CASE RecordFailure
  <2>1. UNCHANGED <<users, epoch, sessions, keys>> /\ req \in Failing /\ req' = Idle
    BY <1>3, RequestShape DEF RecordFailure, AdminInv
  <2>2. req.user \in User
    BY <2>1 DEF Failing
  <2>3. attempts[req.user].fails \in 0..MaxFailures
    BY <2>2 DEF AdminInv, Shape
  <2> DEFINE fails == IF attempts[req.user].fails = MaxFailures THEN MaxFailures
                      ELSE attempts[req.user].fails + 1
  <2>4. fails \in 0..MaxFailures
    BY <2>3, AdminAssumption
  <2>5. attempts' = [attempts EXCEPT ![req.user] =
                        [fails |-> fails, locked |-> fails >= MaxFailures]]
    BY <1>3 DEF RecordFailure
  <2> HIDE DEF fails
  <2>6. attempts' \in [User -> [fails: 0..MaxFailures, locked: BOOLEAN]]
    BY <2>2, <2>4, <2>5 DEF AdminInv, Shape
  <2>7. Shape'
    BY <2>1, <2>6 DEF AdminInv, Shape
  <2>8. QED
    BY <2>1, <2>7, NotPassing, QuietStep
<1>4. CASE ClearFailures
  <2>1. /\ UNCHANGED <<users, epoch, sessions, keys>> /\ req \in Passing
        /\ req' = [req EXCEPT !.pc = "session"]
    BY <1>4, RequestShape DEF ClearFailures, AdminInv
  <2>2. req' \in Passing /\ req'.epoch = req.epoch /\ req'.user = req.user
    BY <2>1 DEF Passing
  <2>3. attempts' \in [User -> [fails: 0..MaxFailures, locked: BOOLEAN]]
    BY <1>4, AdminAssumption DEF ClearFailures, AdminInv, Shape, NoFailure
  <2>4. Shape'
    BY <2>1, <2>2, <2>3 DEF AdminInv, Shape
  <2>5. QED
    BY <2>1, <2>2, <2>4, QuietStep
<1>5. QED
  BY <1>1, <1>2, <1>3, <1>4

\* A password check opens a change of the account; keys come and go.
LEMMA RequestKeeps ==
    ASSUME AdminInv, NEW t \in Token,
           \/ \E current, p \in Password, name \in User : ChangeRequest(t, current, name, p)
           \/ \E k \in Key : \/ CreateKey(t, k) \/ RevokeKey(t, k)
                             \/ \E enabled \in BOOLEAN : UpdateKey(t, k, enabled)
    PROVE  AdminInv'
<1>1. CASE \E current, p \in Password, name \in User : ChangeRequest(t, current, name, p)
  <2>1. PICK current \in Password, p \in Password, name \in User :
          ChangeRequest(t, current, name, p)
    BY <1>1
  <2>2. sessions[t] \in Rows
    BY <2>1 DEF ChangeRequest, Live, AdminInv, Shape
  <2>3. req' \in Writing
    BY <2>1, <2>2 DEF ChangeRequest, Writing, Rows
  <2>4. Shape' /\ UNCHANGED <<users, epoch, sessions>>
    BY <2>1, <2>3 DEF ChangeRequest, AdminInv, Shape
  <2>5. QED
    BY <2>3, <2>4, NotPassing, QuietStep
<1>2. CASE \E k \in Key : \/ CreateKey(t, k) \/ RevokeKey(t, k)
                          \/ \E enabled \in BOOLEAN : UpdateKey(t, k, enabled)
  <2>1. UNCHANGED <<users, epoch, sessions, attempts, req>>
    BY <1>2 DEF CreateKey, RevokeKey, UpdateKey
  <2>2. keys' \in [Key -> KeyRows \cup {Absent}]
    <3>1. keys \in [Key -> KeyRows \cup {Absent}]
      BY DEF AdminInv, Shape
    <3>2. ASSUME NEW k \in Key, CreateKey(t, k)
          PROVE  keys' \in [Key -> KeyRows \cup {Absent}]
      BY <3>1, <3>2 DEF CreateKey, KeyRows
    <3>3. ASSUME NEW k \in Key, RevokeKey(t, k)
          PROVE  keys' \in [Key -> KeyRows \cup {Absent}]
      BY <3>1, <3>3 DEF RevokeKey, KeyRows
    <3>4. ASSUME NEW k \in Key, NEW enabled \in BOOLEAN, UpdateKey(t, k, enabled)
          PROVE  keys' \in [Key -> KeyRows \cup {Absent}]
      BY <3>1, <3>4 DEF UpdateKey, KeyRows
    <3>5. QED
      BY <1>2, <3>2, <3>3, <3>4
  <2>3. Shape'
    BY <2>1, <2>2 DEF AdminInv, Shape
  <2>4. QED
    BY <2>1, <2>3, QuietStep
<1>3. QED
  BY <1>1, <1>2

-----------------------------------------------------------------------------
(* Sessions *)

\* A session is opened for the account the login was verified against, or is
\* marked as overtaken.
LEMMA CreateSessionKeeps ==
    ASSUME AdminInv, NEW t \in Token, CreateSession(t)
    PROVE  AdminInv'
<1>1. req \in Passing /\ UNCHANGED <<users, epoch, attempts, keys>> /\ req' = Idle
  BY RequestShape DEF CreateSession, AdminInv
<1> DEFINE row == [user |-> req.user, epoch |-> req.epoch, expired |-> FALSE,
                   overtaken |-> req.epoch # epoch]
<1>2. sessions' = [sessions EXCEPT ![t] = row]
  BY DEF CreateSession
<1>3. /\ row \in Rows /\ row.user = req.user /\ row.epoch = req.epoch
      /\ row.overtaken <=> req.epoch # epoch
  BY <1>1 DEF Rows, Passing
<1>4. (Exists(row.user) /\ row.epoch = epoch) \/ row.overtaken
  BY <1>1, <1>3 DEF AdminInv, LoginCurrent
<1> HIDE DEF row
<1>5. Shape'
  BY <1>1, <1>2, <1>3 DEF AdminInv, Shape
<1>6. SessionsCurrent'
  <2> SUFFICES ASSUME NEW s \in Token, sessions'[s] # Absent
               PROVE  \/ Exists(sessions'[s].user) /\ sessions'[s].epoch = epoch
                      \/ sessions'[s].overtaken
    BY <1>1 DEF SessionsCurrent, Exists
  <2>1. CASE s = t
    BY <1>2, <1>4, <2>1 DEF AdminInv, Shape
  <2>2. CASE s # t
    BY <1>2, <2>2 DEF AdminInv, Shape, SessionsCurrent
  <2>3. QED
    BY <2>1, <2>2
<1>7. OneAdmin' /\ LoginCurrent'
  BY <1>1, NotPassing DEF AdminInv, OneAdmin, LoginCurrent, Exists
<1>8. QED
  BY <1>5, <1>6, <1>7 DEF AdminInv

\* Ending or expiring sessions.
LEMMA SessionsEnd ==
    ASSUME AdminInv, UNCHANGED <<users, epoch, keys>>, req' = req \/ req' = Idle,
           attempts' \in [User -> [fails: 0..MaxFailures, locked: BOOLEAN]],
           sessions' \in [Token -> Rows \cup {Absent}],
           \A t \in Token : sessions'[t] # Absent =>
              /\ sessions[t] # Absent /\ sessions'[t].user = sessions[t].user
              /\ sessions'[t].epoch = sessions[t].epoch
              /\ sessions'[t].overtaken = sessions[t].overtaken
    PROVE  AdminInv'
<1>1. Shape'
  BY DEF AdminInv, Shape
<1>2. OneAdmin' /\ SessionsCurrent'
  BY DEF AdminInv, OneAdmin, SessionsCurrent, Exists
<1>3. LoginCurrent'
  BY NotPassing DEF AdminInv, LoginCurrent, Exists
<1>4. QED
  BY <1>1, <1>2, <1>3 DEF AdminInv

\* Logout, expiry, restart; and the expiry of a lock.
LEMMA TimeKeeps ==
    ASSUME AdminInv,
           \/ \E t \in Token : Logout(t) \/ MeetExpired(t) \/ SessionExpires(t)
           \/ \E u \in User : LockExpires(u)
           \/ \E old \in SUBSET User : Restart(old)
    PROVE  AdminInv'
<1>0. /\ sessions \in [Token -> Rows \cup {Absent}]
      /\ attempts \in [User -> [fails: 0..MaxFailures, locked: BOOLEAN]]
  BY DEF AdminInv, Shape
<1>1. CASE \E t \in Token : Logout(t) \/ MeetExpired(t)
  BY <1>0, <1>1, SessionsEnd DEF Logout, MeetExpired
<1>2. CASE \E t \in Token : SessionExpires(t)
  <2>1. PICK t \in Token : SessionExpires(t)
    BY <1>2
  <2>2. sessions[t] \in Rows
    BY <1>0, <2>1 DEF SessionExpires, Live
  <2>3. /\ sessions' \in [Token -> Rows \cup {Absent}]
        /\ \A s \in Token : sessions'[s] # Absent =>
              /\ sessions[s] # Absent /\ sessions'[s].user = sessions[s].user
              /\ sessions'[s].epoch = sessions[s].epoch
              /\ sessions'[s].overtaken = sessions[s].overtaken
    BY <1>0, <2>1, <2>2 DEF SessionExpires, Live, Rows
  <2>4. QED
    BY <1>0, <2>1, <2>3, SessionsEnd DEF SessionExpires
<1>3. CASE \E u \in User : LockExpires(u)
  BY <1>0, <1>3, SessionsEnd DEF LockExpires
<1>4. CASE \E old \in SUBSET User : Restart(old)
  BY <1>0, <1>4, SessionsEnd, AdminAssumption DEF Restart, NoFailure
<1>5. QED
  BY <1>1, <1>2, <1>3, <1>4

-----------------------------------------------------------------------------
(* Changes of the account *)

\* The sole administrator is rewritten and the sessions of its old name go: all
\* that is left was overtaken before.
LEMMA RewriteKeeps ==
    ASSUME AdminInv, NEW u \in User, NEW name \in User, NEW p \in Password,
           Rewrite(u, name, p), epoch < MaxChanges, req' = Idle,
           UNCHANGED <<attempts, keys>>
    PROVE  AdminInv'
<1>1. sessions' \in [Token -> Rows \cup {Absent}]
  BY DEF Rewrite, Without, AdminInv, Shape
<1>2. CASE ~Exists(u)
  <2>1. UNCHANGED <<users, epoch>>
    BY <1>2 DEF Rewrite
  <2>2. \A t \in Token : sessions'[t] # Absent => sessions'[t] = sessions[t]
    BY DEF Rewrite, Without
  <2>3. attempts' \in [User -> [fails: 0..MaxFailures, locked: BOOLEAN]]
    BY DEF AdminInv, Shape
  <2>4. QED
    BY <1>1, <2>1, <2>2, <2>3, SessionsEnd
<1>3. CASE Exists(u)
  <2>1. users' = [[users EXCEPT ![u] = Absent] EXCEPT ![name] = p] /\ epoch' = epoch + 1
    BY <1>3 DEF Rewrite
  <2>2. \A v \in User \ {u} : ~Exists(v)
    BY <1>3 DEF AdminInv, OneAdmin
  <2>3. Shape'
    <3>1. users' \in [User -> Password \cup {Absent}]
      BY <2>1 DEF AdminInv, Shape
    <3>2. epoch' \in 0..MaxChanges
      BY <2>1, AdminAssumption DEF AdminInv, Shape
    <3>3. QED
      BY <1>1, <3>1, <3>2 DEF AdminInv, Shape
  <2>4. \A v \in User : users'[v] = IF v = name THEN p ELSE IF v = u THEN Absent ELSE users[v]
    BY <2>1 DEF AdminInv, Shape
  <2>5. OneAdmin'
    BY <2>2, <2>4, AdminAssumption DEF OneAdmin, Exists
  <2>6. LoginCurrent'
    BY NotPassing DEF LoginCurrent
  <2>7. SessionsCurrent'
    <3> SUFFICES ASSUME NEW t \in Token, sessions'[t] # Absent
                 PROVE  sessions'[t].overtaken
      BY DEF SessionsCurrent
    <3>1. sessions'[t] = sessions[t] /\ sessions[t] # Absent /\ sessions[t].user # u
      BY DEF Rewrite, Without
    <3>2. ~Exists(sessions[t].user)
      BY <2>2, <3>1 DEF AdminInv, Shape, Rows
    <3>3. QED
      BY <3>1, <3>2 DEF AdminInv, SessionsCurrent
  <2>8. QED
    BY <2>3, <2>5, <2>6, <2>7 DEF AdminInv
<1>4. QED
  BY <1>2, <1>3

\* PATCH /v1/admin/account, and the second half of a change request.
LEMMA ChangeKeeps ==
    ASSUME AdminInv,
           \/ \E t \in Token, current, p \in Password, name \in User :
                 UpdateAccount(t, current, name, p)
           \/ WriteChange
    PROVE  AdminInv'
<1>1. CASE \E t \in Token, current, p \in Password, name \in User :
              UpdateAccount(t, current, name, p)
  <2>1. PICK t \in Token, current \in Password, p \in Password, name \in User :
          UpdateAccount(t, current, name, p)
    BY <1>1
  <2>2. sessions[t].user \in User
    BY <2>1 DEF UpdateAccount, Live, AdminInv, Shape, Rows
  <2>3. QED
    BY <2>1, <2>2, RewriteKeeps DEF UpdateAccount
<1>2. CASE WriteChange
  <2>1. req \in Writing /\ req' = Idle /\ UNCHANGED <<attempts, keys>> /\ epoch < MaxChanges
    BY <1>2, RequestShape DEF WriteChange, AdminInv
  <2>2. req.user \in User /\ req.name \in User /\ req.password \in Password
    BY <2>1 DEF Writing
  <2>3. CASE UNCHANGED <<users, epoch, sessions>>
    <3>1. Shape'
      BY <2>1, <2>3 DEF AdminInv, Shape
    <3>2. QED
      BY <2>1, <2>3, <3>1, NotPassing, QuietStep
  <2> DEFINE p == IF req.renames THEN users[req.user] ELSE req.password
  <2>4. CASE Rewrite(req.user, req.name, p)
    <3>1. CASE p \in Password
      BY <2>1, <2>2, <2>4, <3>1, RewriteKeeps
    <3>2. CASE p \notin Password
      <4>1. ~Exists(req.user)
        BY <2>2, <3>2 DEF AdminInv, Shape, Exists
      <4>2. /\ UNCHANGED <<users, epoch>>
            /\ sessions' \in [Token -> Rows \cup {Absent}]
            /\ \A t \in Token : sessions'[t] # Absent => sessions'[t] = sessions[t]
        BY <2>4, <4>1 DEF Rewrite, Without, AdminInv, Shape
      <4>3. attempts' \in [User -> [fails: 0..MaxFailures, locked: BOOLEAN]]
        BY <2>1 DEF AdminInv, Shape
      <4>4. QED
        BY <2>1, <4>2, <4>3, SessionsEnd
    <3>3. QED
      BY <3>1, <3>2
  <2>5. QED
    BY <1>2, <2>3, <2>4 DEF WriteChange
<1>3. QED
  BY <1>1, <1>2

\* The reset command, in the middle of any request: the epoch moves past that of
\* a login under way.
LEMMA ResetKeeps ==
    ASSUME AdminInv, NEW u \in User, NEW p \in Password, Reset(u, p)
    PROVE  AdminInv'
<1>1. Shape'
  BY AdminAssumption DEF Reset, AdminInv, Shape, NoFailure
<1>2. OneAdmin'
  BY AdminAssumption DEF Reset, OneAdmin, Exists
<1>3. SessionsCurrent'
  BY DEF Reset, SessionsCurrent
<1>4. LoginCurrent'
  <2> SUFFICES ASSUME req \in Passing
               PROVE  req.epoch < epoch'
    BY <1>1 DEF Reset, LoginCurrent, Shape, Passing
  <2>1. req.epoch <= epoch /\ epoch' = epoch + 1 /\ req.epoch \in Nat /\ epoch \in Nat
    BY AdminAssumption DEF Reset, AdminInv, LoginCurrent, Shape, Passing
  <2>2. QED
    BY <2>1
<1>5. QED
  BY <1>1, <1>2, <1>3, <1>4 DEF AdminInv

-----------------------------------------------------------------------------
(* Theorems *)

\* The inductive invariant of the account, its sessions and the keys.
THEOREM AdminInvariant == AdminSpec => []AdminInv
<1>1. AdminInit => AdminInv
  <2> SUFFICES ASSUME AdminInit
               PROVE  AdminInv
    OBVIOUS
  <2>1. PICK u \in User, p \in Password : users = [v \in User |-> IF v = u THEN p ELSE Absent]
    BY DEF AdminInit
  <2>2. OneAdmin
    BY <2>1, AdminAssumption DEF OneAdmin, Exists
  <2>3. Shape
    BY <2>1, AdminAssumption DEF AdminInit, Shape, NoFailure
  <2>4. LoginCurrent /\ SessionsCurrent
    BY NotPassing DEF AdminInit, LoginCurrent, SessionsCurrent
  <2>5. QED
    BY <2>2, <2>3, <2>4 DEF AdminInv
<1>2. AdminInv /\ [AdminNext]_vars => AdminInv'
  <2> SUFFICES ASSUME AdminInv, [AdminNext]_vars
               PROVE  AdminInv'
    OBVIOUS
  <2>1. CASE UNCHANGED vars
    BY <2>1 DEF vars, AdminInv, Shape, OneAdmin, LoginCurrent, SessionsCurrent, Exists
  <2>2. CASE AdminNext
    BY <2>2, LoginKeeps, RequestKeeps, CreateSessionKeeps, TimeKeeps, ChangeKeeps, ResetKeeps
    DEF AdminNext
  <2>3. QED
    BY <2>1, <2>2
<1>3. QED
  BY <1>1, <1>2, PTL DEF AdminSpec

\* There is exactly one administrator after any sequence of renames, resets and
\* restarts, and the tables and the request are well formed.
THEOREM AdminTypeCorrect == AdminSpec => []AdminTypeOK
<1>1. AdminInv => AdminTypeOK
  <2> SUFFICES ASSUME AdminInv
               PROVE  AdminTypeOK
    OBVIOUS
  <2>1. PICK u \in User : Exists(u) /\ \A v \in User \ {u} : ~Exists(v)
    BY DEF AdminInv, OneAdmin
  <2>2. {v \in User : users[v] # Absent} = {u}
    BY <2>1 DEF Exists
  <2>3. Cardinality({v \in User : users[v] # Absent}) = 1
    BY <2>2, FS_Singleton
  <2>4. req.pc \in {"idle", "verify", "failure", "clear", "session", "write"}
    BY DEF AdminInv, Shape, Idle, Verifying, Failing, Passing, Writing
  <2>5. QED
    BY <2>3, <2>4 DEF AdminInv, Shape, AdminTypeOK, Rows, KeyRows
<1>2. QED
  BY <1>1, AdminInvariant, PTL

\* A live session belongs to the account as it is, or to a login that a reset
\* overtook (change_admin_password, update_admin_account, reset_admin).
THEOREM SessionsEndWithCredentials == AdminSpec => []SessionsFollowCredentials
<1>1. AdminInv => SessionsFollowCredentials
  BY DEF AdminInv, SessionsCurrent, SessionsFollowCredentials, Live
<1>2. QED
  BY <1>1, AdminInvariant, PTL

\* No update lets a revoked key in again (update_gateway_api_key).
THEOREM RevokedIsForEver == AdminSpec => RevokedKeyStaysOut
<1> DEFINE StaysOut == \A k \in Key : keys[k] # Absent /\ keys[k].revoked
                                      => keys'[k] # Absent /\ ~Admits(k)'
<1>1. AdminInv /\ [AdminNext]_vars => [StaysOut]_vars
  <2> SUFFICES ASSUME AdminInv, AdminNext, NEW k \in Key, keys[k] # Absent, keys[k].revoked
               PROVE  keys'[k] # Absent /\ ~Admits(k)'
    OBVIOUS
  <2>1. keys[k] \in KeyRows /\ keys \in [Key -> KeyRows \cup {Absent}]
    BY DEF AdminInv, Shape
  <2>2. CASE UNCHANGED keys
    BY <2>2 DEF Admits
  <2>3. CASE \E t \in Token, i \in Key, enabled \in BOOLEAN : UpdateKey(t, i, enabled)
    <3>1. PICK i \in Key, enabled \in BOOLEAN : keys' = [keys EXCEPT ![i].enabled = enabled]
      BY <2>3 DEF UpdateKey
    <3>2. keys'[k] \in KeyRows /\ keys'[k].revoked
      BY <2>1, <3>1 DEF KeyRows
    <3>3. QED
      BY <3>2, AdminAssumption DEF Admits, KeyRows
  <2>4. CASE \E t \in Token, i \in Key : CreateKey(t, i) \/ RevokeKey(t, i)
    <3>1. PICK i \in Key :
            \/ /\ keys[i] = Absent
               /\ keys' = [keys EXCEPT ![i] = [enabled |-> TRUE, revoked |-> FALSE]]
            \/ keys' = [keys EXCEPT ![i].revoked = TRUE]
      BY <2>4 DEF CreateKey, RevokeKey
    <3>2. keys'[k] \in KeyRows /\ keys'[k].revoked
      BY <2>1, <3>1 DEF KeyRows
    <3>3. QED
      BY <3>2, AdminAssumption DEF Admits, KeyRows
  <2>5. QED
    BY <2>2, <2>3, <2>4
    DEF AdminNext, Login, Reset, VerifyLogin, RecordFailure, ClearFailures, WriteChange,
        CreateSession, Logout, MeetExpired, SessionExpires, UpdateAccount, ChangeRequest,
        LockExpires, Restart
<1>2. QED
  BY <1>1, AdminInvariant, PTL DEF AdminSpec, RevokedKeyStaysOut
=============================================================================
