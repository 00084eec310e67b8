------------------------------ MODULE Accounts -------------------------------
(***************************************************************************)
(* Accounts of AvIT-Data: users, their server-side sessions, the login     *)
(* rate limit, and the commands that act on the same tables from another   *)
(* process (create-user, reset-password, deactivate-user, the cleanup of   *)
(* ended sessions, backup and restore-drill).                              *)
(*                                                                         *)
(* The handlers run in a pool of threads and read before they write, each  *)
(* read outside of any transaction: a task is one that has read and has    *)
(* not written yet.  A token stands for the random session id a browser    *)
(* holds, and for the row found by its hash.  A password is the number of  *)
(* resets that led to it; that one does not fit is an input.               *)
(*                                                                         *)
(* An operator whose comment starts with "Mistake:" is no part of the      *)
(* specification: it is the operator after it with one plausible bug.      *)
(***************************************************************************)
EXTENDS Naturals, FiniteSets

CONSTANTS
  Users,        \* normalized user names
  Browsers,     \* browsers, each with an address of its own (request_source)
  Tasks,        \* threads of the pool, and terminals with a command
  Roles,        \* roles that are given; the model knows "admin" and "viewer"
  Nobody,       \* the user of a session before the login
  Free,         \* a task that does nothing
  IdleFor,      \* settings.session_idle_minutes
  AbsoluteFor,  \* settings.session_absolute_hours
  LoginFor,     \* settings.login_session_minutes
  MaxAttempts,  \* settings.login_max_attempts
  Window,       \* settings.login_window_seconds
  LockFor,      \* settings.login_lock_seconds
  MaxTime,      \* bound: the clock stops there
  MaxTokens,    \* bound: sessions ever opened
  MaxResets,    \* bound: password resets of a user
  WithBackup    \* bound: whether one backup may be taken, and restored

ASSUME AccountsAssumption ==
  /\ Nobody \notin Users /\ Users \cap Browsers = {} /\ IsFiniteSet(Tasks)
  /\ {IdleFor, AbsoluteFor, LoginFor, MaxAttempts, Window, LockFor} \subseteq Nat \ {0}
  /\ Roles \subseteq {"admin", "viewer"}
  /\ MaxTime \in Nat \ {0} /\ {MaxTokens, MaxResets} \subseteq Nat /\ WithBackup \in BOOLEAN

Never    == 0
NoToken  == 0
Instants == 1 .. MaxTime
Keys     == Users \cup Browsers   \* "account:..." and "source:..."

VARIABLES
  now,      \* the clock
  users,    \* the users table; role "none" if there is no row
  sessions, \* the user_sessions table, by token
  issued,   \* tokens issued so far
  cookie,   \* the session cookie of each browser
  task,     \* what each task has read
  failed,   \* LoginRateLimiter._failures: how many at each instant
  blocked,  \* LoginRateLimiter._blocked_until
  saved     \* a backup: users and sessions then; its time, or Never

limiter == <<failed, blocked>>
web     == <<issued, cookie, limiter>>
vars    == <<now, users, sessions, web, task, saved>>
-----------------------------------------------------------------------------
(* Sessions.                                                               *)

Expired(s, at)  == s.expires <= at
Unused(s, at)   == s.user # Nobody /\ s.used + IdleFor <= at
Disowned(s)     == s.user # Nobody /\ ~users[s.user].active
Usable(s, at)   == s.revoked = Never /\ ~Expired(s, at) /\ ~Unused(s, at) /\ ~Disowned(s)

\* resolve_session finds a session for the token, before a login or after it.
Accepts(t) == t \in DOMAIN sessions /\ Usable(sessions[t], now)

\* Mistake: the expiry is stored as the end.
SessionEnded(u, at, lifetime, key, late) ==
  [user |-> u, used |-> at, expires |-> at + lifetime, revoked |-> at + lifetime,
   key |-> key, late |-> late]

\* create_session
Session(u, at, lifetime, key, late) ==
  [user |-> u, used |-> at, expires |-> at + lifetime, revoked |-> Never,
   key |-> key, late |-> late]

With(ss, t, s) == [x \in DOMAIN ss \cup {t} |-> IF x = t THEN s ELSE ss[x]]

Without(t) == [x \in DOMAIN sessions \ {t} |-> sessions[x]]

\* Mistake: only the sessions that could be used at this moment.
RevokedUsable(u) ==
  [t \in DOMAIN sessions |->
     IF sessions[t].user = u /\ Usable(sessions[t], now)
     THEN [sessions[t] EXCEPT !.revoked = now] ELSE sessions[t]]

\* revoke_user_sessions
Revoked(u) ==
  [t \in DOMAIN sessions |->
     IF sessions[t].user = u /\ sessions[t].revoked = Never
     THEN [sessions[t] EXCEPT !.revoked = now] ELSE sessions[t]]
-----------------------------------------------------------------------------
(* The login rate limit.                                                   *)

\* _cleanup: what left the window, and what is not blocked any more.
Recent(at) ==
  [k \in Keys |-> [i \in Instants |-> IF i + Window <= at THEN 0 ELSE failed[k][i]]]
Blocked(at) == [k \in Keys |-> IF blocked[k] <= at THEN Never ELSE blocked[k]]

\* How many failures f counts, one for each <<instant, number>>.
Total(f) == Cardinality(UNION {{i} \X (1 .. f[i]) : i \in Instants})

\* Mistake: one more failure than the limit.
RecordBeyond(u, b, at) ==
  LET more == [k \in Keys |-> IF k \in {u, b} THEN [Recent(at)[k] EXCEPT ![at] = @ + 1]
                                              ELSE Recent(at)[k]]
  IN  /\ failed' = more
      /\ blocked' = [k \in Keys |-> IF k \in {u, b} /\ Total(more[k]) > MaxAttempts
                                    THEN at + LockFor ELSE Blocked(at)[k]]

\* record_failure for an account and a source.
RecordFailure(u, b, at) ==
  LET more == [k \in Keys |-> IF k \in {u, b} THEN [Recent(at)[k] EXCEPT ![at] = @ + 1]
                                              ELSE Recent(at)[k]]
  IN  /\ failed' = more
      /\ blocked' = [k \in Keys |-> IF k \in {u, b} /\ Total(more[k]) >= MaxAttempts
                                    THEN at + LockFor ELSE Blocked(at)[k]]

\* reset_account
ResetAccount(u) ==
  /\ failed' = [failed EXCEPT ![u] = [i \in Instants |-> 0]]
  /\ blocked' = [blocked EXCEPT ![u] = Never]
-----------------------------------------------------------------------------
(* The handlers.                                                           *)

\* A request that comes with an ended session: the row is marked as ended.
Refuse(b) ==
  LET t == cookie[b]
  IN  /\ t \in DOMAIN sessions /\ sessions[t].revoked = Never /\ ~Accepts(t)
      /\ sessions' = [sessions EXCEPT ![t].revoked = now]
      /\ UNCHANGED <<now, users, web, task, saved>>

\* GET /login: a new session without a user, unless the browser has one that
\* its CSRF cookie belongs to (fits).  One that it does not belong to ends.
LoginPage(b, fits) ==
  LET t == cookie[b]
      n == issued + 1
  IN  /\ ~(Accepts(t) /\ fits)
      /\ issued < MaxTokens /\ issued' = n
      /\ sessions' = With([x \in DOMAIN sessions |->
                             IF x = t /\ sessions[t].revoked = Never
                             THEN [sessions[t] EXCEPT !.revoked = now] ELSE sessions[x]],
                          n, Session(Nobody, now, LoginFor, 0, FALSE))
      /\ cookie' = [cookie EXCEPT ![b] = n]
      /\ UNCHANGED <<now, users, task, limiter, saved>>

\* retry_after
MayTry(u, b) == Blocked(now)[u] = Never /\ Blocked(now)[b] = Never

\* POST /login, up to the hashing of the password: the session, the limit, the
\* user and its password are read.
LoginBegin(k, b, u, right) ==
  LET t == cookie[b]
  IN  /\ task[k] = Free
      /\ Accepts(t) /\ sessions[t].user = Nobody
      /\ failed' = Recent(now) /\ blocked' = Blocked(now)
      /\ task' = IF MayTry(u, b)
                 THEN [task EXCEPT ![k] =
                         [kind |-> "login", by |-> b, token |-> t, user |-> u, at |-> now,
                          key |-> users[u].key, good |-> users[u].active /\ right]]
                 ELSE task
      /\ UNCHANGED <<now, users, sessions, issued, cookie, saved>>

LoginFails(k) ==
  LET j == task[k]
  IN  /\ j.kind = "login" /\ ~j.good
      /\ RecordFailure(j.user, j.by, j.at)
      /\ task' = [task EXCEPT ![k] = Free]
      /\ UNCHANGED <<now, users, sessions, issued, cookie, saved>>

\* The session from before the login ends and one of the user begins; all
\* fails if the cleanup deleted the former meanwhile.
LoginSucceeds(k) ==
  LET j == task[k]
      n == issued + 1
  IN  /\ j.kind = "login" /\ j.good
      /\ ResetAccount(j.user)
      /\ \/ /\ j.token \notin DOMAIN sessions
            /\ UNCHANGED <<sessions, issued, cookie>>
         \/ /\ j.token \in DOMAIN sessions
            /\ issued < MaxTokens /\ issued' = n
            /\ sessions' = With([sessions EXCEPT ![j.token].revoked = j.at], n,
                 Session(j.user, j.at, AbsoluteFor, j.key, j.key # users[j.user].key))
            /\ cookie' = [cookie EXCEPT ![j.by] = n]
      /\ task' = [task EXCEPT ![k] = Free]
      /\ UNCHANGED <<now, users, saved>>

\* Any handler behind require_authenticated: the session is read and found
\* usable, ...
RequestBegin(k, b, kind) ==
  LET t == cookie[b]
  IN  /\ task[k] = Free
      /\ Accepts(t) /\ sessions[t].user # Nobody
      /\ task' = [task EXCEPT ![k] =
           [kind |-> kind, by |-> b, token |-> t, user |-> Nobody, at |-> now,
            key |-> 0, good |-> TRUE]]
      /\ UNCHANGED <<now, users, sessions, web, saved>>

After(k) == IF task[k].kind = "logout" /\ task[k].token \in DOMAIN sessions
            THEN [task[k] EXCEPT !.kind = "leaving"] ELSE Free

\* ... then its last activity, and nothing else of the row, is written.
Touch(k) ==
  LET j == task[k]
  IN  /\ j.kind \in {"request", "logout"}
      /\ sessions' = IF j.token \in DOMAIN sessions
                     THEN [sessions EXCEPT ![j.token].used = j.at] ELSE sessions
      /\ task' = [task EXCEPT ![k] = After(k)]
      /\ UNCHANGED <<now, users, web, saved>>

\* POST /logout, behind its dependency.
Logout(k) ==
  LET j == task[k]
  IN  /\ j.kind = "leaving"
      /\ task' = [task EXCEPT ![k] = Free]
      /\ \/ /\ j.token \in DOMAIN sessions
            /\ sessions' = [sessions EXCEPT ![j.token].revoked = now]
            /\ cookie' = [cookie EXCEPT ![j.by] = NoToken]
         \/ /\ j.token \notin DOMAIN sessions
            /\ UNCHANGED <<sessions, cookie>>
      /\ UNCHANGED <<now, users, issued, limiter, saved>>
-----------------------------------------------------------------------------
(* The commands.                                                           *)

CreateUser(u, role) ==
  /\ users[u].role = "none"
  /\ users' = [users EXCEPT ![u] = [role |-> role, active |-> TRUE, key |-> 1]]
  /\ UNCHANGED <<now, sessions, web, task, saved>>

ResetPassword(u) ==
  /\ users[u].role # "none" /\ users[u].key <= MaxResets
  /\ users' = [users EXCEPT ![u].key = @ + 1]
  /\ sessions' = Revoked(u)
  /\ UNCHANGED <<now, web, task, saved>>

ActiveAdmins == {u \in Users : users[u].role = "admin" /\ users[u].active}

\* deactivate-user counts the administrators, ...
DeactivateBegin(k, u) ==
  /\ task[k] = Free
  /\ users[u].active
  /\ users[u].role = "admin" => Cardinality(ActiveAdmins) > 1
  /\ task' = [task EXCEPT ![k] = [kind |-> "deactivate", by |-> Nobody, token |-> NoToken,
                                  user |-> u, at |-> now, key |-> 0, good |-> TRUE]]
  /\ UNCHANGED <<now, users, sessions, web, saved>>

\* ... then writes.
DeactivateEnd(k) ==
  LET j == task[k]
  IN  /\ j.kind = "deactivate"
      /\ users' = [users EXCEPT ![j.user].active = FALSE]
      /\ sessions' = Revoked(j.user)
      /\ task' = [task EXCEPT ![k] = Free]
      /\ UNCHANGED <<now, web, saved>>

\* cleanup --sessions-before: sessions that had ended by then, in batches of
\* one; the cutoff is not in the future.
Purge(cutoff) ==
  LET ended == {t \in DOMAIN sessions :
                  \/ sessions[t].revoked # Never /\ sessions[t].revoked < cutoff
                  \/ sessions[t].expires < cutoff}
  IN  /\ cutoff <= now
      /\ \E t \in ended : /\ \A x \in ended : t <= x
                          /\ sessions' = Without(t)
      /\ UNCHANGED <<now, users, web, task, saved>>

Backup ==
  /\ WithBackup /\ saved.at = Never
  /\ saved' = [at |-> now, users |-> users, sessions |-> sessions]
  /\ UNCHANGED <<now, users, sessions, web, task>>

\* The process ends; its requests and its rate limit are lost.
Crash ==
  /\ task' = [k \in Tasks |-> IF task[k] # Free /\ task[k].kind = "deactivate"
                              THEN task[k] ELSE Free]
  /\ failed' = [k \in Keys |-> [i \in Instants |-> 0]]
  /\ blocked' = [k \in Keys |-> Never]
  /\ UNCHANGED <<now, users, sessions, issued, cookie, saved>>

\* Mistake: the copy keeps its sessions.
RestoreBare ==
  /\ saved.at # Never
  /\ users' = saved.users /\ sessions' = saved.sessions
  /\ task' = [k \in Tasks |-> Free]
  /\ failed' = [k \in Keys |-> [i \in Instants |-> 0]]
  /\ blocked' = [k \in Keys |-> Never]
  /\ UNCHANGED <<now, issued, cookie, saved>>

\* restore-drill, and a boot on the copy: all sessions in it are revoked.
Restore ==
  /\ saved.at # Never
  /\ users' = saved.users
  /\ sessions' = [t \in DOMAIN saved.sessions |->
                    IF saved.sessions[t].revoked = Never
                    THEN [saved.sessions[t] EXCEPT !.revoked = now] ELSE saved.sessions[t]]
  /\ task' = [k \in Tasks |-> Free]
  /\ failed' = [k \in Keys |-> [i \in Instants |-> 0]]
  /\ blocked' = [k \in Keys |-> Never]
  /\ UNCHANGED <<now, issued, cookie, saved>>

Tick ==
  /\ now < MaxTime
  /\ now' = now + 1
  /\ UNCHANGED <<users, sessions, web, task, saved>>
-----------------------------------------------------------------------------
Nothing == [t \in {} |-> t]

Init ==
  /\ now = 1
  /\ users = [u \in Users |-> [role |-> "none", active |-> FALSE, key |-> 0]]
  /\ sessions = Nothing /\ issued = 0
  /\ cookie = [b \in Browsers |-> NoToken]
  /\ task = [k \in Tasks |-> Free]
  /\ failed = [k \in Keys |-> [i \in Instants |-> 0]]
  /\ blocked = [k \in Keys |-> Never]
  /\ saved = [at |-> Never, users |-> users, sessions |-> Nothing]

Handler(k) ==
  /\ task[k] # Free
  /\ LoginFails(k) \/ LoginSucceeds(k) \/ Touch(k) \/ Logout(k) \/ DeactivateEnd(k)

Next ==
  \/ \E b \in Browsers : Refuse(b) \/ \E fits \in BOOLEAN : LoginPage(b, fits)
  \/ \E k \in Tasks, b \in Browsers :
       \/ \E u \in Users, right \in BOOLEAN : LoginBegin(k, b, u, right)
       \/ \E kind \in {"request", "logout"} : RequestBegin(k, b, kind)
  \/ \E k \in Tasks : Handler(k) \/ \E u \in Users : DeactivateBegin(k, u)
  \/ \E u \in Users : ResetPassword(u) \/ \E role \in Roles : CreateUser(u, role)
  \/ \E cutoff \in Instants : Purge(cutoff)
  \/ Backup \/ Crash \/ Restore
  \/ Tick

Spec == Init /\ [][Next]_vars
-----------------------------------------------------------------------------
(* Properties.                                                             *)

User    == [role : {"none", "admin", "viewer"}, active : BOOLEAN, key : 0 .. MaxResets + 1]
Row     == [user : Users \cup {Nobody}, used : Instants, expires : Nat,
            revoked : 0 .. MaxTime, key : 0 .. MaxResets + 1, late : BOOLEAN]
Pending == [kind : {"login", "request", "logout", "leaving", "deactivate"},
            by : Browsers \cup {Nobody}, token : 0 .. MaxTokens,
            user : Users \cup {Nobody}, at : Instants, key : 0 .. MaxResets + 1,
            good : BOOLEAN]

RowsOK(ss) == DOMAIN ss \subseteq 1 .. issued /\ \A t \in DOMAIN ss : ss[t] \in Row

\* Every table, cookie and task has the form the handlers give it.
TypeOK ==
  /\ now \in Instants
  /\ users \in [Users -> User]
  /\ issued \in 0 .. MaxTokens /\ RowsOK(sessions)
  /\ cookie \in [Browsers -> 0 .. issued]
  /\ task \in [Tasks -> {Free} \cup Pending]
  /\ failed \in [Keys -> [Instants -> Nat]]
  /\ blocked \in [Keys -> Nat]
  /\ saved.at \in 0 .. MaxTime
  /\ saved.users \in [Users -> User] /\ RowsOK(saved.sessions)

\* The session of a token has ended: no row, revoked, expired, its user is not
\* active, or it was not used for too long and no request that found it usable
\* is still to write its use.
Over(t) ==
  \/ t \notin DOMAIN sessions
  \/ sessions[t].revoked # Never
  \/ Expired(sessions[t], now)
  \/ Disowned(sessions[t])
  \/ /\ Unused(sessions[t], now)
     /\ \A k \in Tasks : task[k] # Free => task[k].token # t

\* A session that has ended stays ended: whatever requests that read it before
\* are still to write, whichever rows the cleanup deletes, and although a
\* restored copy has the rows as they were at the backup.
EndedForGood == [][\A t \in 1 .. issued : Over(t) => Over(t)']_vars

\* A session that is accepted knows the present password of its user, unless
\* its login had read the former one before the reset committed.
PasswordsEndSessions ==
  \A t \in DOMAIN sessions :
    Accepts(t) /\ sessions[t].user # Nobody /\ ~sessions[t].late
      => sessions[t].key = users[sessions[t].user].key

\* Where a lock lasts as long as the window, the failures within one are bounded
\* for an account and for an address: the last that is allowed, with all logins
\* that were being hashed beside it, and as many again less one for each of these
\* that was late, since it sets the end of the lock by its own, earlier clock.
AttemptsAreBounded ==
  LET n == Cardinality(Tasks)
  IN  LockFor >= Window =>
        \A k \in Keys : Total(Recent(now)[k]) <= MaxAttempts - 1 + (n * (n + 1)) \div 2

\* README.md:110, "the last active administrator cannot be deactivated": once
\* there is an administrator, one of them is active.
AnAdminRemains ==
  (\E u \in Users : users[u].role = "admin") => ActiveAdmins # {}
=============================================================================
