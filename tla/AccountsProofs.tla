--------------------------- MODULE AccountsProofs ---------------------------
(***************************************************************************)
(* Proofs about accounts, for any number of users, browsers and tasks and  *)
(* any limits: every table keeps its form, a session that has ended stays  *)
(* ended, and a password that was reset opens none.                        *)
(***************************************************************************)
EXTENDS Accounts, FiniteSetTheorems, TLAPS

\* A session, now or in the backup, and a login about to succeed, are of a user
\* that exists: a name that is registered later inherits none.
Owned(us, ss) ==
  /\ \A u \in Users : us[u].active => us[u].role # "none"
  /\ \A t \in DOMAIN ss : ss[t].user # Nobody => us[ss[t].user].role # "none"

Expected ==
  \A k \in Tasks : task[k] # Free /\ task[k].kind = "login" /\ task[k].good
                     => users[task[k].user].role # "none" /\ task[k].user \in Users

IInv == TypeOK /\ Owned(users, sessions) /\ Owned(saved.users, saved.sessions) /\ Expected
-----------------------------------------------------------------------------
LEMMA Limits ==
  ASSUME AccountsAssumption
  PROVE  /\ Nobody \notin Users
         /\ IdleFor \in Nat /\ AbsoluteFor \in Nat /\ LoginFor \in Nat
         /\ Window \in Nat /\ LockFor \in Nat /\ MaxAttempts \in Nat
         /\ Roles \subseteq {"admin", "viewer"}
         /\ MaxTime \in Nat /\ MaxTime > 0 /\ MaxTokens \in Nat /\ MaxResets \in Nat
BY DEF AccountsAssumption

LEMMA RecentType ==
  ASSUME AccountsAssumption, TypeOK, NEW at \in Instants
  PROVE  /\ Recent(at) \in [Keys -> [Instants -> Nat]]
         /\ Blocked(at) \in [Keys -> Nat]
BY DEF TypeOK, Recent, Blocked, Never

LEMMA RecordFailureType ==
  ASSUME AccountsAssumption, TypeOK, NEW at \in Instants, NEW u, NEW b, RecordFailure(u, b, at)
  PROVE  failed' \in [Keys -> [Instants -> Nat]] /\ blocked' \in [Keys -> Nat]
<1>. DEFINE more == [k \in Keys |-> IF k \in {u, b} THEN [Recent(at)[k] EXCEPT ![at] = @ + 1]
                                                  ELSE Recent(at)[k]]
<1>1. Recent(at) \in [Keys -> [Instants -> Nat]] /\ Blocked(at) \in [Keys -> Nat]
  BY RecentType
<1>2. ASSUME NEW k \in Keys
      PROVE  [Recent(at)[k] EXCEPT ![at] = @ + 1] \in [Instants -> Nat]
  BY <1>1
<1>3. failed' \in [Keys -> [Instants -> Nat]]
  <2>1. more \in [Keys -> [Instants -> Nat]]
    BY <1>1, <1>2
  <2>2. failed' = more
    BY DEF RecordFailure
  <2>. QED BY <2>1, <2>2
<1>4. at + LockFor \in Nat
  BY Limits DEF Instants
<1>5. blocked' \in [Keys -> Nat]
  BY <1>1, <1>4 DEF RecordFailure
<1>. QED BY <1>3, <1>5

LEMMA ResetAccountType ==
  ASSUME TypeOK, NEW u, ResetAccount(u)
  PROVE  failed' \in [Keys -> [Instants -> Nat]] /\ blocked' \in [Keys -> Nat]
<1>1. [i \in Instants |-> 0] \in [Instants -> Nat]
  OBVIOUS
<1>. QED BY <1>1 DEF TypeOK, ResetAccount, Never

LEMMA ClearedType ==
  /\ [k \in Keys |-> [i \in Instants |-> 0]] \in [Keys -> [Instants -> Nat]]
  /\ [k \in Keys |-> Never] \in [Keys -> Nat]
BY DEF Never

\* What a task has read.
LEMMA TaskType ==
  ASSUME TypeOK, NEW k \in Tasks, task[k] # Free
  PROVE  /\ task[k] \in Pending
         /\ task[k].by \in Browsers \cup {Nobody} /\ task[k].token \in 0 .. MaxTokens
         /\ task[k].user \in Users \cup {Nobody} /\ task[k].at \in Instants
         /\ task[k].key \in 0 .. MaxResets + 1 /\ task[k].good \in BOOLEAN
BY DEF TypeOK, Pending
-----------------------------------------------------------------------------
\* Rows that stay in the table, or are only marked as ended or used, keep their form.
LEMMA RowsMarked ==
  ASSUME NEW ss, NEW more, RowsOK(ss), DOMAIN more \subseteq DOMAIN ss,
         \A t \in DOMAIN more :
            \/ more[t] = ss[t]
            \/ \E at \in Instants : more[t] = [ss[t] EXCEPT !.revoked = at]
            \/ \E at \in Instants : more[t] = [ss[t] EXCEPT !.used = at],
         issued' \in Nat, issued \in Nat, issued <= issued'
  PROVE  /\ DOMAIN more \subseteq 1 .. issued'
         /\ \A t \in DOMAIN more : more[t] \in Row
         /\ \A t \in DOMAIN more : more[t].user = ss[t].user
BY DEF RowsOK, Row, Instants

\* What ended a session still holds after a step that only adds to what ended it.
Lasts(t) == Over(t) => Over(t)'
AllLast  == \A t \in 1 .. issued : Lasts(t)

LEMMA AcceptedIsNotOver ==
  ASSUME NEW t, Accepts(t)
  PROVE  ~Over(t)
BY DEF Accepts, Usable, Over

\* No user becomes active again.
NoneReturns == \A u \in Users : ~users[u].active /\ users[u].role # "none" => ~users'[u].active

\* A task that has read a session had it before, or reads it while it is accepted.
TasksCarry ==
  \A k \in Tasks : task'[k] # Free =>
     \/ task[k] # Free /\ task'[k].token = task[k].token
     \/ Accepts(task'[k].token)
     \/ task'[k].token = NoToken

\* A row keeps what ended it, and only a request that had read it marks its use.
RowLasts(t) ==
  t \in DOMAIN sessions' =>
    /\ t \in DOMAIN sessions
    /\ sessions'[t].user = sessions[t].user
    /\ sessions'[t].expires = sessions[t].expires
    /\ sessions[t].revoked # Never => sessions'[t].revoked # Never
    /\ \/ sessions'[t].used = sessions[t].used
       \/ \E k \in Tasks : task[k] # Free /\ task[k].token = t

LEMMA OverStays ==
  ASSUME AccountsAssumption, IInv, now' \in Instants, now <= now',
         NoneReturns, TasksCarry, NEW t \in 1 .. issued, RowLasts(t)
  PROVE  Lasts(t)
<1>. SUFFICES ASSUME Over(t), t \in DOMAIN sessions'
     PROVE  Over(t)'
  BY DEF Lasts, Over
<1>1. /\ t \in DOMAIN sessions /\ sessions[t] \in Row
      /\ now \in Instants /\ issued \in Nat
  BY Limits DEF IInv, TypeOK, RowsOK, RowLasts
<1>2. /\ sessions[t].used \in Nat /\ sessions[t].expires \in Nat
      /\ sessions[t].user \in Users \cup {Nobody}
      /\ now \in Nat /\ now' \in Nat /\ IdleFor \in Nat
  BY <1>1, Limits DEF Row, Instants
<1>3. CASE sessions[t].revoked # Never
  BY <1>3 DEF Over, RowLasts
<1>4. CASE Expired(sessions[t], now)
  BY <1>2, <1>4 DEF Over, Expired, RowLasts
<1>5. CASE Disowned(sessions[t])
  <2>1. sessions[t].user \in Users /\ users[sessions[t].user].role # "none"
    BY <1>1, <1>2, <1>5 DEF Disowned, IInv, Owned
  <2>. QED BY <1>5, <2>1 DEF Over, Disowned, RowLasts, NoneReturns
<1>6. CASE Unused(sessions[t], now) /\ \A k \in Tasks : task[k] # Free => task[k].token # t
  <2>1. Unused(sessions[t], now)'
    BY <1>2, <1>6 DEF Unused, RowLasts
  <2>2. ~Accepts(t) /\ t # NoToken
    BY AcceptedIsNotOver DEF NoToken
  <2>3. \A k \in Tasks : task'[k] # Free => task'[k].token # t
    BY <1>6, <2>2 DEF TasksCarry
  <2>. QED BY <2>1, <2>3 DEF Over
<1>. QED BY <1>1, <1>3, <1>4, <1>5, <1>6 DEF Over

LEMMA Clock ==
  ASSUME AccountsAssumption, TypeOK
  PROVE  now \in Instants /\ now \in Nat /\ now # Never /\ issued \in Nat
BY Limits DEF TypeOK, Never, Instants

LEMMA LoginPageStep ==
  ASSUME AccountsAssumption, IInv, NEW b \in Browsers, NEW fits \in BOOLEAN, LoginPage(b, fits)
  PROVE  IInv' /\ AllLast
<1>. DEFINE n == issued + 1
            new == Session(Nobody, now, LoginFor, 0, FALSE)
<1>1. /\ now \in Instants /\ now \in Nat /\ now # Never /\ issued \in Nat /\ RowsOK(sessions)
      /\ LoginFor \in Nat /\ MaxTime \in Nat /\ MaxResets \in Nat /\ MaxTokens \in Nat
  BY Clock, Limits DEF IInv, TypeOK
<1>2. /\ DOMAIN sessions' = DOMAIN sessions \cup {n} /\ n \notin DOMAIN sessions
      /\ sessions'[n] = new
      /\ \A t \in DOMAIN sessions :
           \/ sessions'[t] = sessions[t]
           \/ sessions'[t] = [sessions[t] EXCEPT !.revoked = now]
  <2>. DEFINE base == [x \in DOMAIN sessions |->
                         IF x = cookie[b] /\ sessions[cookie[b]].revoked = Never
                         THEN [sessions[cookie[b]] EXCEPT !.revoked = now] ELSE sessions[x]]
  <2>1. sessions' = With(base, n, new)
    BY DEF LoginPage
  <2>2. DOMAIN base = DOMAIN sessions /\ n \notin DOMAIN sessions
    BY <1>1 DEF RowsOK
  <2>3. \A t \in DOMAIN sessions :
          base[t] = sessions[t] \/ base[t] = [sessions[t] EXCEPT !.revoked = now]
    OBVIOUS
  <2>. QED BY <2>1, <2>2, <2>3, Zenon DEF With
<1>3. /\ issued' = n /\ n \in 1 .. MaxTokens
      /\ now' = now /\ users' = users /\ task' = task /\ saved' = saved
      /\ failed' = failed /\ blocked' = blocked /\ cookie' = [cookie EXCEPT ![b] = n]
  BY <1>1 DEF LoginPage, limiter
<1>4. new \in Row /\ new.user = Nobody
  BY <1>1 DEF Session, Row, Never, Instants
<1>5. \A t \in DOMAIN sessions :
        sessions'[t] \in Row /\ sessions'[t].user = sessions[t].user
  <2>1. \A t \in DOMAIN sessions : sessions[t] \in Row /\ now \in 0 .. MaxTime
    BY <1>1 DEF RowsOK, Instants
  <2>. QED BY <1>2, <2>1 DEF Row
<1>6. RowsOK(sessions)'
  <2>1. DOMAIN sessions' \subseteq 1 .. issued'
    BY <1>1, <1>2, <1>3 DEF RowsOK
  <2>2. \A t \in DOMAIN sessions' : sessions'[t] \in Row
    BY <1>2, <1>4, <1>5
  <2>. QED BY <2>1, <2>2 DEF RowsOK
<1>7. RowsOK(saved.sessions)' /\ cookie' \in [Browsers -> 0 .. issued']
  BY <1>1, <1>3 DEF IInv, TypeOK, RowsOK
<1>8. TypeOK'
  BY <1>1, <1>3, <1>6, <1>7 DEF IInv, TypeOK
<1>9. Owned(users, sessions)' /\ Owned(saved.users, saved.sessions)' /\ Expected'
  BY <1>2, <1>3, <1>4, <1>5 DEF IInv, Owned, Expected
<1>10. \A t \in 1 .. issued : RowLasts(t)
  BY <1>1, <1>2 DEF RowsOK, Row, RowLasts
<1>11. NoneReturns /\ TasksCarry
  BY <1>3 DEF NoneReturns, TasksCarry
<1>12. AllLast
  BY <1>1, <1>3, <1>10, <1>11, OverStays DEF AllLast
<1>. QED BY <1>8, <1>9, <1>12 DEF IInv

\* Steps that leave the rows alone.
LEMMA SameRowsLast ==
  ASSUME AccountsAssumption, IInv, sessions' = sessions, now' \in Instants, now <= now',
         NoneReturns, TasksCarry
  PROVE  AllLast
BY OverStays DEF AllLast, RowLasts

LEMMA SameUsers ==
  ASSUME IInv, users' = users
  PROVE  NoneReturns
BY DEF NoneReturns

LEMMA LoginBeginStep ==
  ASSUME AccountsAssumption, IInv, NEW k \in Tasks, NEW b \in Browsers, NEW u \in Users,
         NEW right \in BOOLEAN, LoginBegin(k, b, u, right)
  PROVE  IInv' /\ AllLast
<1>. DEFINE t == cookie[b]
            job == [kind |-> "login", by |-> b, token |-> t, user |-> u, at |-> now,
                    key |-> users[u].key, good |-> users[u].active /\ right]
<1>1. /\ now \in Instants /\ now \in Nat /\ issued \in Nat /\ RowsOK(sessions)
      /\ MaxTokens \in Nat /\ issued <= MaxTokens
  BY Clock, Limits DEF IInv, TypeOK
<1>2. /\ t \in DOMAIN sessions /\ Accepts(t)
      /\ issued' = issued /\ cookie' = cookie /\ now' = now
      /\ users' = users /\ sessions' = sessions /\ saved' = saved
      /\ failed' = Recent(now) /\ blocked' = Blocked(now)
      /\ task' = task \/ task' = [task EXCEPT ![k] = job]
  BY DEF LoginBegin, Accepts
<1>3. users[u] \in User
  BY DEF IInv, TypeOK
<1>4. job \in Pending
  <2>1. t \in 0 .. MaxTokens
    BY <1>1, <1>2 DEF RowsOK
  <2>2. users[u].key \in 0 .. MaxResets + 1 /\ users[u].active \in BOOLEAN
    BY <1>3 DEF User
  <2>. QED BY <1>1, <2>1, <2>2 DEF Pending
<1>5. TypeOK'
  <2>1. failed' \in [Keys -> [Instants -> Nat]] /\ blocked' \in [Keys -> Nat]
    BY <1>1, <1>2, RecentType DEF IInv
  <2>2. task' \in [Tasks -> {Free} \cup Pending]
    BY <1>2, <1>4 DEF IInv, TypeOK
  <2>3. RowsOK(sessions)' /\ RowsOK(saved.sessions)'
    BY <1>2 DEF IInv, TypeOK, RowsOK
  <2>. QED BY <1>2, <2>1, <2>2, <2>3 DEF IInv, TypeOK
<1>6. Expected'
  <2>1. job.good => users[u].role # "none"
    BY DEF IInv, Owned
  <2>. QED BY <1>2, <2>1 DEF IInv, Expected, TypeOK
<1>7. Owned(users, sessions)' /\ Owned(saved.users, saved.sessions)'
  BY <1>2 DEF IInv, Owned
<1>8. TasksCarry
  BY <1>2 DEF TasksCarry, IInv, TypeOK
<1>9. AllLast
  BY <1>1, <1>2, <1>8, SameRowsLast, SameUsers
<1>. QED BY <1>5, <1>6, <1>7, <1>9 DEF IInv

\* A task that ends, or goes on with the session it has read and is no login.
LEMMA TaskGoesOn ==
  ASSUME IInv, NEW k \in Tasks, NEW j, task' = [task EXCEPT ![k] = j],
         \/ j = Free
         \/ /\ j \in Pending /\ j.kind # "login"
            /\ \/ task[k] # Free /\ j.token = task[k].token
               \/ Accepts(j.token)
               \/ j.token = NoToken
  PROVE  /\ task' \in [Tasks -> {Free} \cup Pending]
         /\ TasksCarry
         /\ users' = users => Expected'
<1>1. task \in [Tasks -> {Free} \cup Pending]
  BY DEF IInv, TypeOK
<1>2. task' \in [Tasks -> {Free} \cup Pending]
  BY <1>1
<1>3. TasksCarry
  BY <1>1 DEF TasksCarry
<1>4. users' = users => Expected'
  BY <1>1 DEF IInv, Expected
<1>. QED BY <1>2, <1>3, <1>4

LEMMA LoginFailsStep ==
  ASSUME AccountsAssumption, IInv, NEW k \in Tasks, task[k] # Free, LoginFails(k)
  PROVE  IInv' /\ AllLast
<1>1. /\ now' = now /\ users' = users /\ sessions' = sessions /\ issued' = issued
      /\ cookie' = cookie /\ saved' = saved /\ task' = [task EXCEPT ![k] = Free]
      /\ RecordFailure(task[k].user, task[k].by, task[k].at)
  BY DEF LoginFails
<1>2. now \in Instants /\ now <= now
  BY Clock DEF IInv
<1>3. failed' \in [Keys -> [Instants -> Nat]] /\ blocked' \in [Keys -> Nat]
  BY <1>1, RecordFailureType, TaskType DEF IInv
<1>4. task' \in [Tasks -> {Free} \cup Pending] /\ TasksCarry /\ Expected'
  BY <1>1, TaskGoesOn
<1>5. RowsOK(sessions)' /\ RowsOK(saved.sessions)'
  BY <1>1 DEF IInv, TypeOK, RowsOK
<1>6. TypeOK'
  BY <1>1, <1>3, <1>4, <1>5 DEF IInv, TypeOK
<1>7. Owned(users, sessions)' /\ Owned(saved.users, saved.sessions)'
  BY <1>1 DEF IInv, Owned
<1>8. AllLast
  BY <1>1, <1>2, <1>4, SameRowsLast, SameUsers
<1>. QED BY <1>4, <1>6, <1>7, <1>8 DEF IInv

\* The login that finds its first session gone.
LEMMA LoginInVain ==
  ASSUME AccountsAssumption, IInv, NEW k \in Tasks, task[k] # Free, LoginSucceeds(k),
         task[k].token \notin DOMAIN sessions
  PROVE  IInv' /\ AllLast
<1>1. /\ now' = now /\ users' = users /\ sessions' = sessions /\ issued' = issued
      /\ cookie' = cookie /\ saved' = saved /\ task' = [task EXCEPT ![k] = Free]
      /\ ResetAccount(task[k].user)
  BY DEF LoginSucceeds
<1>2. now \in Instants /\ now <= now
  BY Clock DEF IInv
<1>3. failed' \in [Keys -> [Instants -> Nat]] /\ blocked' \in [Keys -> Nat]
  BY <1>1, ResetAccountType DEF IInv
<1>4. task' \in [Tasks -> {Free} \cup Pending] /\ TasksCarry /\ Expected'
  BY <1>1, TaskGoesOn
<1>5. RowsOK(sessions)' /\ RowsOK(saved.sessions)'
  BY <1>1 DEF IInv, TypeOK, RowsOK
<1>6. TypeOK'
  BY <1>1, <1>3, <1>4, <1>5 DEF IInv, TypeOK
<1>7. Owned(users, sessions)' /\ Owned(saved.users, saved.sessions)'
  BY <1>1 DEF IInv, Owned
<1>8. AllLast
  BY <1>1, <1>2, <1>4, SameRowsLast, SameUsers
<1>. QED BY <1>4, <1>6, <1>7, <1>8 DEF IInv

LEMMA LoginOpens ==
  ASSUME AccountsAssumption, IInv, NEW k \in Tasks, task[k] # Free, LoginSucceeds(k),
         task[k].token \in DOMAIN sessions
  PROVE  IInv' /\ AllLast
<1>. DEFINE j == task[k]
            n == issued + 1
            new == Session(j.user, j.at, AbsoluteFor, j.key, j.key # users[j.user].key)
            base == [sessions EXCEPT ![j.token].revoked = j.at]
<1>1. /\ now \in Instants /\ now \in Nat /\ issued \in Nat /\ RowsOK(sessions)
      /\ AbsoluteFor \in Nat /\ MaxTime \in Nat /\ MaxResets \in Nat /\ MaxTokens \in Nat
  BY Clock, Limits DEF IInv, TypeOK
<1>2. /\ j.user \in Users /\ users[j.user].role # "none"
      /\ j.at \in Instants /\ j.at \in Nat /\ j.at # Never /\ j.key \in 0 .. MaxResets + 1
      /\ j.by \in Browsers \cup {Nobody}
  BY TaskType DEF IInv, Expected, LoginSucceeds, Instants, Never
<1>3. /\ now' = now /\ users' = users /\ saved' = saved /\ task' = [task EXCEPT ![k] = Free]
      /\ issued' = n /\ n \in 1 .. MaxTokens /\ sessions' = With(base, n, new)
      /\ cookie' = [cookie EXCEPT ![j.by] = n] /\ ResetAccount(j.user)
  BY <1>1 DEF LoginSucceeds
<1>4. failed' \in [Keys -> [Instants -> Nat]] /\ blocked' \in [Keys -> Nat]
  BY <1>3, ResetAccountType DEF IInv
<1>5. task' \in [Tasks -> {Free} \cup Pending] /\ TasksCarry /\ Expected'
  BY <1>3, TaskGoesOn
<1>6. /\ DOMAIN sessions' = DOMAIN sessions \cup {n} /\ n \notin DOMAIN sessions
      /\ sessions'[n] = new
      /\ \A t \in DOMAIN sessions :
           \/ sessions'[t] = sessions[t]
           \/ sessions'[t] = [sessions[t] EXCEPT !.revoked = j.at]
  <2>1. DOMAIN base = DOMAIN sessions /\ n \notin DOMAIN sessions
    BY <1>1 DEF RowsOK
  <2>2. \A t \in DOMAIN sessions :
          base[t] = sessions[t] \/ base[t] = [sessions[t] EXCEPT !.revoked = j.at]
    OBVIOUS
  <2>. QED BY <1>3, <2>1, <2>2, Zenon DEF With
<1>7. new \in Row /\ new.user = j.user
  BY <1>1, <1>2 DEF Session, Row, Never, Instants
<1>8. \A t \in DOMAIN sessions :
        sessions'[t] \in Row /\ sessions'[t].user = sessions[t].user
  <2>1. \A t \in DOMAIN sessions : sessions[t] \in Row /\ j.at \in 0 .. MaxTime
    BY <1>1, <1>2 DEF RowsOK, Instants
  <2>. QED BY <1>6, <2>1 DEF Row
<1>9. RowsOK(sessions)'
  <2>1. DOMAIN sessions' \subseteq 1 .. issued'
    BY <1>1, <1>3, <1>6 DEF RowsOK
  <2>2. \A t \in DOMAIN sessions' : sessions'[t] \in Row
    BY <1>6, <1>7, <1>8
  <2>. QED BY <2>1, <2>2 DEF RowsOK
<1>10. RowsOK(saved.sessions)' /\ cookie' \in [Browsers -> 0 .. issued']
  <2>1. 1 .. issued \subseteq 1 .. issued' /\ 0 .. issued \subseteq 0 .. issued'
        /\ n \in 0 .. issued'
    BY <1>1, <1>3
  <2>2. RowsOK(saved.sessions)'
    BY <1>3, <2>1 DEF IInv, TypeOK, RowsOK
  <2>3. cookie \in [Browsers -> 0 .. issued']
    BY <2>1 DEF IInv, TypeOK
  <2>. QED BY <1>3, <2>1, <2>2, <2>3
<1>11. TypeOK'
  <2>1. issued' \in 0 .. MaxTokens
    BY <1>3
  <2>. QED BY <1>3, <1>4, <1>5, <1>9, <1>10, <2>1 DEF IInv, TypeOK
<1>12. Owned(users, sessions)' /\ Owned(saved.users, saved.sessions)'
  <2>1. users'[sessions'[n].user].role # "none"
    BY <1>2, <1>3, <1>6, <1>7
  <2>2. \A t \in DOMAIN sessions : sessions'[t].user # Nobody
                                     => users'[sessions'[t].user].role # "none"
    BY <1>3, <1>8 DEF IInv, Owned
  <2>. QED BY <1>3, <1>6, <2>1, <2>2 DEF IInv, Owned
<1>13. \A t \in 1 .. issued : RowLasts(t)
  BY <1>1, <1>2, <1>6 DEF RowsOK, Row, RowLasts
<1>14. AllLast
  BY <1>1, <1>3, <1>5, <1>13, SameUsers, OverStays DEF AllLast
<1>. QED BY <1>5, <1>11, <1>12, <1>14 DEF IInv

LEMMA LoginSucceedsStep ==
  ASSUME AccountsAssumption, IInv, NEW k \in Tasks, task[k] # Free, LoginSucceeds(k)
  PROVE  IInv' /\ AllLast
BY LoginInVain, LoginOpens

LEMMA RequestBeginStep ==
  ASSUME AccountsAssumption, IInv, NEW k \in Tasks, NEW b \in Browsers,
         NEW kind \in {"request", "logout"}, RequestBegin(k, b, kind)
  PROVE  IInv' /\ AllLast
<1>. DEFINE j == [kind |-> kind, by |-> b, token |-> cookie[b], user |-> Nobody, at |-> now,
                  key |-> 0, good |-> TRUE]
<1>1. /\ now' = now /\ users' = users /\ sessions' = sessions /\ issued' = issued
      /\ cookie' = cookie /\ failed' = failed /\ blocked' = blocked /\ saved' = saved
      /\ task' = [task EXCEPT ![k] = j] /\ Accepts(j.token) /\ j.token \in DOMAIN sessions
  BY DEF RequestBegin, web, limiter, Accepts
<1>2. /\ now \in Instants /\ now <= now /\ issued \in Nat /\ MaxTokens \in Nat
      /\ issued <= MaxTokens /\ MaxResets \in Nat /\ RowsOK(sessions)
  BY Clock, Limits DEF IInv, TypeOK
<1>3. j.token \in 0 .. MaxTokens
  BY <1>1, <1>2 DEF RowsOK
<1>4. j \in Pending
  BY <1>2, <1>3 DEF Pending
<1>5. task' \in [Tasks -> {Free} \cup Pending] /\ TasksCarry /\ Expected'
  BY <1>1, <1>4, TaskGoesOn
<1>6. RowsOK(sessions)' /\ RowsOK(saved.sessions)'
  BY <1>1 DEF IInv, TypeOK, RowsOK
<1>7. TypeOK'
  BY <1>1, <1>5, <1>6 DEF IInv, TypeOK
<1>8. Owned(users, sessions)' /\ Owned(saved.users, saved.sessions)'
  BY <1>1 DEF IInv, Owned
<1>9. AllLast
  BY <1>1, <1>2, <1>5, SameRowsLast, SameUsers
<1>. QED BY <1>5, <1>7, <1>8, <1>9 DEF IInv

\* Steps that mark one row or none, and leave the users alone.
LEMMA MarkedRowsLast ==
  ASSUME AccountsAssumption, IInv, now' = now, users' = users, issued' = issued, saved' = saved,
         TasksCarry, NEW t, NEW at \in Instants,
         \/ sessions' = sessions
         \/ sessions' = [sessions EXCEPT ![t].revoked = at]
         \/ /\ sessions' = [sessions EXCEPT ![t].used = at]
            /\ \E k \in Tasks : task[k] # Free /\ task[k].token = t
  PROVE  /\ RowsOK(sessions)' /\ RowsOK(saved.sessions)'
         /\ Owned(users, sessions)' /\ Owned(saved.users, saved.sessions)'
         /\ AllLast
<1>1. /\ now \in Instants /\ now <= now /\ issued \in Nat /\ RowsOK(sessions)
      /\ at \in Nat /\ at # Never
  BY Clock DEF IInv, TypeOK, Instants, Never
<1>2. /\ DOMAIN sessions' = DOMAIN sessions
      /\ \A x \in DOMAIN sessions :
           \/ sessions'[x] = sessions[x]
           \/ sessions'[x] = [sessions[x] EXCEPT !.revoked = at]
           \/ sessions'[x] = [sessions[x] EXCEPT !.used = at]
  OBVIOUS
<1>3. RowsOK(sessions)' /\ \A x \in DOMAIN sessions' : sessions'[x].user = sessions[x].user
  BY <1>1, <1>2, RowsMarked DEF RowsOK
<1>4. RowsOK(saved.sessions)'
  BY DEF IInv, TypeOK, RowsOK
<1>5. Owned(users, sessions)' /\ Owned(saved.users, saved.sessions)'
  BY <1>2, <1>3 DEF IInv, Owned
<1>6. \A x \in 1 .. issued : RowLasts(x)
  <2>. SUFFICES ASSUME NEW x \in DOMAIN sessions PROVE RowLasts(x)
    BY <1>2 DEF RowLasts
  <2>1. sessions[x] \in Row
    BY <1>1 DEF RowsOK
  <2>. QED BY <1>1, <1>2, <2>1 DEF Row, RowLasts
<1>7. AllLast
  BY <1>1, <1>6, SameUsers, OverStays DEF AllLast
<1>. QED BY <1>3, <1>4, <1>5, <1>7

LEMMA RefuseStep ==
  ASSUME AccountsAssumption, IInv, NEW b \in Browsers, Refuse(b)
  PROVE  IInv' /\ AllLast
<1>1. /\ now' = now /\ users' = users /\ issued' = issued /\ cookie' = cookie
      /\ failed' = failed /\ blocked' = blocked /\ saved' = saved /\ task' = task
      /\ sessions' = [sessions EXCEPT ![cookie[b]].revoked = now]
  BY DEF Refuse, web, limiter
<1>2. now \in Instants
  BY Clock DEF IInv
<1>3. TasksCarry /\ Expected'
  BY <1>1 DEF TasksCarry, IInv, Expected
<1>4. /\ RowsOK(sessions)' /\ RowsOK(saved.sessions)'
      /\ Owned(users, sessions)' /\ Owned(saved.users, saved.sessions)'
      /\ AllLast
  BY <1>1, <1>2, <1>3, MarkedRowsLast
<1>5. TypeOK'
  BY <1>1, <1>4 DEF IInv, TypeOK
<1>. QED BY <1>3, <1>4, <1>5 DEF IInv

LEMMA TouchStep ==
  ASSUME AccountsAssumption, IInv, NEW k \in Tasks, task[k] # Free, Touch(k)
  PROVE  IInv' /\ AllLast
<1>. DEFINE j == task[k]
<1>1. /\ now' = now /\ users' = users /\ issued' = issued /\ cookie' = cookie
      /\ failed' = failed /\ blocked' = blocked /\ saved' = saved
      /\ task' = [task EXCEPT ![k] = After(k)] /\ j.at \in Instants /\ j \in Pending
      /\ \/ sessions' = sessions
         \/ sessions' = [sessions EXCEPT ![j.token].used = j.at]
  BY TaskType DEF IInv, Touch, web, limiter
<1>2. After(k) = Free \/ (After(k) \in Pending /\ After(k).kind # "login"
                          /\ After(k).token = j.token)
  BY <1>1 DEF After, Pending
<1>3. task' \in [Tasks -> {Free} \cup Pending] /\ TasksCarry /\ Expected'
  BY <1>1, <1>2, TaskGoesOn
<1>4. /\ RowsOK(sessions)' /\ RowsOK(saved.sessions)'
      /\ Owned(users, sessions)' /\ Owned(saved.users, saved.sessions)'
      /\ AllLast
  BY <1>1, <1>3, MarkedRowsLast
<1>5. TypeOK'
  BY <1>1, <1>3, <1>4 DEF IInv, TypeOK
<1>. QED BY <1>3, <1>4, <1>5 DEF IInv

LEMMA LogoutStep ==
  ASSUME AccountsAssumption, IInv, NEW k \in Tasks, task[k] # Free, Logout(k)
  PROVE  IInv' /\ AllLast
<1>. DEFINE j == task[k]
<1>1. /\ now' = now /\ users' = users /\ issued' = issued
      /\ failed' = failed /\ blocked' = blocked /\ saved' = saved
      /\ task' = [task EXCEPT ![k] = Free]
      /\ cookie' = cookie \/ cookie' = [cookie EXCEPT ![j.by] = NoToken]
      /\ \/ sessions' = sessions
         \/ sessions' = [sessions EXCEPT ![j.token].revoked = now]
  BY DEF Logout, limiter
<1>2. task' \in [Tasks -> {Free} \cup Pending] /\ TasksCarry /\ Expected'
  BY <1>1, TaskGoesOn
<1>3. now \in Instants /\ issued \in Nat
  BY Clock DEF IInv
<1>4. /\ RowsOK(sessions)' /\ RowsOK(saved.sessions)'
      /\ Owned(users, sessions)' /\ Owned(saved.users, saved.sessions)'
      /\ AllLast
  BY <1>1, <1>2, <1>3, MarkedRowsLast
<1>5. cookie' \in [Browsers -> 0 .. issued']
  BY <1>1, <1>3 DEF IInv, TypeOK, NoToken
<1>6. TypeOK'
  BY <1>1, <1>2, <1>4, <1>5 DEF IInv, TypeOK
<1>. QED BY <1>2, <1>4, <1>6 DEF IInv
-----------------------------------------------------------------------------
\* The commands.

LEMMA CreateUserStep ==
  ASSUME AccountsAssumption, IInv, NEW u \in Users, NEW role \in Roles, CreateUser(u, role)
  PROVE  IInv' /\ AllLast
<1>. DEFINE new == [role |-> role, active |-> TRUE, key |-> 1]
<1>1. /\ now' = now /\ sessions' = sessions /\ issued' = issued /\ cookie' = cookie
      /\ failed' = failed /\ blocked' = blocked /\ saved' = saved /\ task' = task
      /\ users[u].role = "none" /\ users' = [users EXCEPT ![u] = new]
  BY DEF CreateUser, web, limiter
<1>2. now \in Instants /\ now <= now
  BY Clock DEF IInv
<1>3. new \in User /\ role # "none"
  BY Limits DEF User
<1>4. users \in [Users -> User] /\ users' \in [Users -> User]
  BY <1>1, <1>3 DEF IInv, TypeOK
<1>5. RowsOK(sessions)' /\ RowsOK(saved.sessions)'
  BY <1>1 DEF IInv, TypeOK, RowsOK
<1>6. TypeOK'
  BY <1>1, <1>4, <1>5 DEF IInv, TypeOK
<1>7. \A v \in Users : users[v].role # "none" => users'[v] = users[v]
  BY <1>1, <1>4
<1>8. Owned(users, sessions)' /\ Owned(saved.users, saved.sessions)' /\ Expected'
  <2>1. \A v \in Users : users'[v].active => users'[v].role # "none"
    BY <1>1, <1>3, <1>4 DEF IInv, Owned
  <2>2. \A t \in DOMAIN sessions : sessions[t].user \in Users \cup {Nobody}
    BY DEF IInv, TypeOK, RowsOK, Row
  <2>3. Owned(users, sessions)'
    BY <1>1, <1>7, <2>1, <2>2 DEF IInv, Owned
  <2>. QED BY <1>1, <1>7, <2>3 DEF IInv, Owned, Expected
<1>9. NoneReturns /\ TasksCarry
  BY <1>1, <1>7 DEF NoneReturns, TasksCarry
<1>10. AllLast
  BY <1>1, <1>2, <1>9, SameRowsLast
<1>. QED BY <1>6, <1>8, <1>10 DEF IInv

\* Marking the rows of a user, on any table whose rows keep their form.
LEMMA RevokedRows ==
  ASSUME AccountsAssumption, IInv, NEW u, sessions' = Revoked(u), issued' = issued
  PROVE  /\ RowsOK(sessions)' /\ DOMAIN sessions' = DOMAIN sessions
         /\ \A t \in DOMAIN sessions : sessions'[t].user = sessions[t].user
         /\ \A t \in 1 .. issued : RowLasts(t)
<1>1. /\ now \in Instants /\ now # Never /\ issued \in Nat /\ issued <= issued /\ RowsOK(sessions)
  BY Clock DEF IInv, TypeOK
<1>2. /\ DOMAIN sessions' = DOMAIN sessions
      /\ \A t \in DOMAIN sessions : \/ sessions'[t] = sessions[t]
                                    \/ sessions'[t] = [sessions[t] EXCEPT !.revoked = now]
  BY DEF Revoked
<1>3. RowsOK(sessions)' /\ \A t \in DOMAIN sessions : sessions'[t].user = sessions[t].user
  BY <1>1, <1>2, RowsMarked DEF RowsOK
<1>4. \A t \in 1 .. issued : RowLasts(t)
  BY <1>1, <1>2 DEF RowsOK, Row, RowLasts
<1>. QED BY <1>2, <1>3, <1>4

LEMMA ResetPasswordStep ==
  ASSUME AccountsAssumption, IInv, NEW u \in Users, ResetPassword(u)
  PROVE  IInv' /\ AllLast
<1>1. /\ now' = now /\ issued' = issued /\ cookie' = cookie
      /\ failed' = failed /\ blocked' = blocked /\ saved' = saved /\ task' = task
      /\ users[u].key <= MaxResets /\ users' = [users EXCEPT ![u].key = @ + 1]
      /\ sessions' = Revoked(u)
  BY DEF ResetPassword, web, limiter
<1>2. now \in Instants /\ now <= now /\ MaxResets \in Nat
  BY Clock, Limits DEF IInv
<1>3. users \in [Users -> User] /\ users[u] \in User
  BY DEF IInv, TypeOK
<1>4. users[u].key + 1 \in 0 .. MaxResets + 1
  BY <1>1, <1>2, <1>3 DEF User
<1>5. /\ users' \in [Users -> User]
      /\ \A v \in Users : users'[v].role = users[v].role /\ users'[v].active = users[v].active
  BY <1>1, <1>3, <1>4 DEF User
<1>6. RowsOK(saved.sessions)'
  BY <1>1 DEF IInv, TypeOK, RowsOK
<1>7. TypeOK'
  BY <1>1, <1>5, <1>6, RevokedRows DEF IInv, TypeOK
<1>8. Owned(users, sessions)' /\ Owned(saved.users, saved.sessions)' /\ Expected'
  <2>1. \A t \in DOMAIN sessions : sessions[t].user \in Users \cup {Nobody}
    BY DEF IInv, TypeOK, RowsOK, Row
  <2>2. Owned(users, sessions)'
    BY <1>1, <1>5, <2>1, RevokedRows DEF IInv, Owned
  <2>. QED BY <1>1, <1>5, <2>2 DEF IInv, Owned, Expected
<1>9. NoneReturns /\ TasksCarry
  BY <1>1, <1>5 DEF NoneReturns, TasksCarry
<1>10. AllLast
  BY <1>1, <1>2, <1>9, RevokedRows, OverStays DEF AllLast
<1>. QED BY <1>7, <1>8, <1>10 DEF IInv

LEMMA DeactivateBeginStep ==
  ASSUME AccountsAssumption, IInv, NEW k \in Tasks, NEW u \in Users, DeactivateBegin(k, u)
  PROVE  IInv' /\ AllLast
<1>. DEFINE j == [kind |-> "deactivate", by |-> Nobody, token |-> NoToken,
                  user |-> u, at |-> now, key |-> 0, good |-> TRUE]
<1>1. /\ now' = now /\ users' = users /\ sessions' = sessions /\ issued' = issued
      /\ cookie' = cookie /\ failed' = failed /\ blocked' = blocked /\ saved' = saved
      /\ task' = [task EXCEPT ![k] = j]
  BY DEF DeactivateBegin, web, limiter
<1>2. now \in Instants /\ now <= now /\ MaxTokens \in Nat /\ MaxResets \in Nat
  BY Clock, Limits DEF IInv
<1>3. j \in Pending /\ j.token = NoToken
  BY <1>2 DEF Pending, NoToken
<1>4. task' \in [Tasks -> {Free} \cup Pending] /\ TasksCarry /\ Expected'
  BY <1>1, <1>3, TaskGoesOn
<1>5. RowsOK(sessions)' /\ RowsOK(saved.sessions)'
  BY <1>1 DEF IInv, TypeOK, RowsOK
<1>6. TypeOK'
  BY <1>1, <1>4, <1>5 DEF IInv, TypeOK
<1>7. Owned(users, sessions)' /\ Owned(saved.users, saved.sessions)'
  BY <1>1 DEF IInv, Owned
<1>8. AllLast
  BY <1>1, <1>2, <1>4, SameRowsLast, SameUsers
<1>. QED BY <1>4, <1>6, <1>7, <1>8 DEF IInv

LEMMA DeactivateEndStep ==
  ASSUME AccountsAssumption, IInv, NEW k \in Tasks, task[k] # Free, DeactivateEnd(k)
  PROVE  IInv' /\ AllLast
<1>. DEFINE u == task[k].user
<1>1. /\ now' = now /\ issued' = issued /\ cookie' = cookie
      /\ failed' = failed /\ blocked' = blocked /\ saved' = saved
      /\ task' = [task EXCEPT ![k] = Free] /\ users' = [users EXCEPT ![u].active = FALSE]
      /\ sessions' = Revoked(u)
  BY DEF DeactivateEnd, web, limiter
<1>2. now \in Instants /\ now <= now
  BY Clock DEF IInv
<1>3. /\ users \in [Users -> User] /\ users' \in [Users -> User]
      /\ \A v \in Users : /\ users'[v].role = users[v].role
                          /\ users'[v].active => users[v].active
  <2>1. users \in [Users -> User]
    BY DEF IInv, TypeOK
  <2>2. CASE u \in Users
    <3>. HIDE DEF u
    <3>1. users[u] \in User /\ [users[u] EXCEPT !.active = FALSE] \in User
      <4>1. users[u] \in User
        BY <2>1, <2>2
      <4>2. \A r \in User : [r EXCEPT !.active = FALSE] \in User
        BY DEF User
      <4>. QED BY <4>1, <4>2
    <3>2. users' = [users EXCEPT ![u] = [users[u] EXCEPT !.active = FALSE]]
      BY <1>1
    <3>3. users' \in [Users -> User]
      BY <2>1, <2>2, <3>1, <3>2
    <3>4. \A v \in Users : users'[v].role = users[v].role
                           /\ (users'[v].active => users[v].active)
      BY <2>1, <2>2, <3>1, <3>2 DEF User
    <3>. QED BY <2>1, <3>3, <3>4
  <2>3. CASE u \notin Users
    BY <1>1, <2>1, <2>3
  <2>. QED BY <2>2, <2>3
<1>4. task' \in [Tasks -> {Free} \cup Pending] /\ TasksCarry
  BY <1>1, TaskGoesOn
<1>5. RowsOK(saved.sessions)'
  BY <1>1 DEF IInv, TypeOK, RowsOK
<1>6. TypeOK'
  BY <1>1, <1>3, <1>4, <1>5, RevokedRows DEF IInv, TypeOK
<1>7. Owned(users, sessions)' /\ Owned(saved.users, saved.sessions)' /\ Expected'
  <2>1. \A t \in DOMAIN sessions : sessions[t].user \in Users \cup {Nobody}
    BY DEF IInv, TypeOK, RowsOK, Row
  <2>2. Owned(users, sessions)'
    BY <1>1, <1>3, <2>1, RevokedRows DEF IInv, Owned
  <2>3. Expected'
    BY <1>1, <1>3 DEF IInv, TypeOK, Expected
  <2>. QED BY <1>1, <2>2, <2>3 DEF IInv, Owned
<1>8. NoneReturns
  BY <1>3 DEF NoneReturns
<1>9. AllLast
  BY <1>1, <1>2, <1>4, <1>8, RevokedRows, OverStays DEF AllLast
<1>. QED BY <1>6, <1>7, <1>9 DEF IInv

LEMMA PurgeStep ==
  ASSUME AccountsAssumption, IInv, NEW cutoff \in Instants, Purge(cutoff)
  PROVE  IInv' /\ AllLast
<1>1. /\ now' = now /\ users' = users /\ issued' = issued /\ cookie' = cookie
      /\ failed' = failed /\ blocked' = blocked /\ saved' = saved /\ task' = task
      /\ DOMAIN sessions' \subseteq DOMAIN sessions
      /\ \A t \in DOMAIN sessions' : sessions'[t] = sessions[t]
  BY DEF Purge, Without, web, limiter
<1>2. now \in Instants /\ now <= now
  BY Clock DEF IInv
<1>3. RowsOK(sessions)' /\ RowsOK(saved.sessions)'
  BY <1>1 DEF IInv, TypeOK, RowsOK
<1>4. TypeOK'
  BY <1>1, <1>3 DEF IInv, TypeOK
<1>5. Owned(users, sessions)' /\ Owned(saved.users, saved.sessions)' /\ Expected'
  BY <1>1 DEF IInv, Owned, Expected
<1>6. TasksCarry /\ \A t \in 1 .. issued : RowLasts(t)
  BY <1>1 DEF TasksCarry, RowLasts
<1>7. AllLast
  BY <1>1, <1>2, <1>6, SameUsers, OverStays DEF AllLast
<1>. QED BY <1>4, <1>5, <1>7 DEF IInv

LEMMA BackupStep ==
  ASSUME AccountsAssumption, IInv, Backup
  PROVE  IInv' /\ AllLast
<1>1. /\ now' = now /\ users' = users /\ sessions' = sessions /\ issued' = issued
      /\ cookie' = cookie /\ failed' = failed /\ blocked' = blocked /\ task' = task
      /\ saved'.at = now /\ saved'.users = users /\ saved'.sessions = sessions
  BY DEF Backup, web, limiter
<1>2. now \in Instants /\ now <= now /\ now \in 0 .. MaxTime
  BY Clock, Limits DEF IInv, Instants
<1>3. RowsOK(sessions)' /\ RowsOK(saved.sessions)'
  BY <1>1 DEF IInv, TypeOK, RowsOK
<1>4. TypeOK'
  BY <1>1, <1>2, <1>3 DEF IInv, TypeOK
<1>5. Owned(users, sessions)' /\ Owned(saved.users, saved.sessions)' /\ Expected'
  BY <1>1 DEF IInv, Owned, Expected
<1>6. AllLast
  BY <1>1, <1>2, SameUsers, SameRowsLast DEF TasksCarry
<1>. QED BY <1>4, <1>5, <1>6 DEF IInv

LEMMA CrashStep ==
  ASSUME AccountsAssumption, IInv, Crash
  PROVE  IInv' /\ AllLast
<1>1. /\ now' = now /\ users' = users /\ sessions' = sessions /\ issued' = issued
      /\ cookie' = cookie /\ saved' = saved
      /\ failed' = [k \in Keys |-> [i \in Instants |-> 0]]
      /\ blocked' = [k \in Keys |-> Never]
      /\ task' = [k \in Tasks |-> IF task[k] # Free /\ task[k].kind = "deactivate"
                                  THEN task[k] ELSE Free]
  BY DEF Crash
<1>2. now \in Instants /\ now <= now
  BY Clock DEF IInv
<1>3. failed' \in [Keys -> [Instants -> Nat]] /\ blocked' \in [Keys -> Nat]
  BY <1>1, ClearedType
<1>4. task' \in [Tasks -> {Free} \cup Pending]
  BY <1>1 DEF IInv, TypeOK
<1>5. RowsOK(sessions)' /\ RowsOK(saved.sessions)'
  BY <1>1 DEF IInv, TypeOK, RowsOK
<1>6. TypeOK'
  BY <1>1, <1>3, <1>4, <1>5 DEF IInv, TypeOK
<1>7. Owned(users, sessions)' /\ Owned(saved.users, saved.sessions)' /\ Expected' /\ TasksCarry
  BY <1>1 DEF IInv, Owned, Expected, TasksCarry
<1>8. AllLast
  BY <1>1, <1>2, <1>7, SameUsers, SameRowsLast
<1>. QED BY <1>6, <1>7, <1>8 DEF IInv

LEMMA RevokedCopy ==
  ASSUME AccountsAssumption, IInv, NEW ss, NEW more, RowsOK(ss), issued' = issued,
         DOMAIN more = DOMAIN ss,
         \A t \in DOMAIN ss : \/ more[t] = ss[t] /\ ss[t].revoked # Never
                              \/ more[t] = [ss[t] EXCEPT !.revoked = now]
  PROVE  /\ DOMAIN more \subseteq 1 .. issued' /\ \A t \in DOMAIN more : more[t] \in Row
         /\ \A t \in DOMAIN ss : more[t].user = ss[t].user
         /\ \A t \in DOMAIN more : more[t].revoked # Never
<1>1. now \in Instants /\ now # Never /\ issued \in Nat /\ issued <= issued
  BY Clock DEF IInv
<1>2. \A t \in DOMAIN ss : ss[t] \in Row
  BY DEF RowsOK
<1>3. /\ DOMAIN more \subseteq 1 .. issued' /\ \A t \in DOMAIN more : more[t] \in Row
      /\ \A t \in DOMAIN ss : more[t].user = ss[t].user
  BY <1>1, RowsMarked
<1>4. \A t \in DOMAIN more : more[t].revoked # Never
  BY <1>1, <1>2 DEF Row
<1>. QED BY <1>3, <1>4

\* The copy has no session that is not revoked: one that had ended has, whatever
\* the backup knew of it.
LEMMA RestoreStep ==
  ASSUME AccountsAssumption, IInv, Restore
  PROVE  IInv' /\ AllLast
<1>. DEFINE ss == saved.sessions
<1>1. /\ now' = now /\ users' = saved.users /\ issued' = issued
      /\ cookie' = cookie /\ saved' = saved /\ task' = [k \in Tasks |-> Free]
      /\ failed' = [k \in Keys |-> [i \in Instants |-> 0]]
      /\ blocked' = [k \in Keys |-> Never]
      /\ DOMAIN sessions' = DOMAIN ss
      /\ \A t \in DOMAIN ss :
           \/ sessions'[t] = ss[t] /\ ss[t].revoked # Never
           \/ sessions'[t] = [ss[t] EXCEPT !.revoked = now]
  BY DEF Restore
<1>2. /\ now \in Instants /\ now # Never /\ issued \in Nat /\ issued <= issued /\ RowsOK(ss)
  BY Clock DEF IInv, TypeOK
<1>3. /\ DOMAIN sessions' \subseteq 1 .. issued'
      /\ \A t \in DOMAIN sessions' : sessions'[t] \in Row
      /\ \A t \in DOMAIN ss : sessions'[t].user = ss[t].user
      /\ \A t \in DOMAIN sessions' : sessions'[t].revoked # Never
  <2>. HIDE DEF ss
  <2>. QED BY <1>1, <1>2, RevokedCopy
<1>4. RowsOK(sessions)'
  BY <1>3 DEF RowsOK
<1>5. failed' \in [Keys -> [Instants -> Nat]] /\ blocked' \in [Keys -> Nat]
  BY <1>1, ClearedType
<1>6. task' \in [Tasks -> {Free} \cup Pending] /\ Expected'
  BY <1>1 DEF Expected
<1>7. RowsOK(saved.sessions)'
  BY <1>1 DEF IInv, TypeOK, RowsOK
<1>8. TypeOK'
  BY <1>1, <1>4, <1>5, <1>6, <1>7 DEF IInv, TypeOK
<1>9. Owned(users, sessions)' /\ Owned(saved.users, saved.sessions)'
  BY <1>1, <1>3 DEF IInv, Owned
<1>10. AllLast
  BY <1>3 DEF AllLast, Lasts, Over
<1>. QED BY <1>6, <1>8, <1>9, <1>10 DEF IInv

LEMMA TickStep ==
  ASSUME AccountsAssumption, IInv, Tick
  PROVE  IInv' /\ AllLast
<1>1. /\ now' = now + 1 /\ now < MaxTime /\ users' = users /\ sessions' = sessions
      /\ issued' = issued /\ cookie' = cookie /\ failed' = failed /\ blocked' = blocked
      /\ saved' = saved /\ task' = task
  BY DEF Tick, web, limiter
<1>2. now' \in Instants /\ now <= now'
  BY <1>1, Clock, Limits DEF IInv, Instants
<1>3. RowsOK(sessions)' /\ RowsOK(saved.sessions)'
  BY <1>1 DEF IInv, TypeOK, RowsOK
<1>4. TypeOK'
  BY <1>1, <1>2, <1>3 DEF IInv, TypeOK
<1>5. Owned(users, sessions)' /\ Owned(saved.users, saved.sessions)' /\ Expected' /\ TasksCarry
  BY <1>1 DEF IInv, Owned, Expected, TasksCarry
<1>6. AllLast
  BY <1>1, <1>2, <1>5, SameUsers, SameRowsLast
<1>. QED BY <1>4, <1>5, <1>6 DEF IInv
-----------------------------------------------------------------------------
LEMMA InitStep ==
  ASSUME AccountsAssumption, Init
  PROVE  IInv
<1>1. now \in Instants
  BY Limits DEF Init, Instants
<1>2. users \in [Users -> User] /\ \A u \in Users : ~users[u].active
  BY Limits DEF Init, User
<1>3. DOMAIN sessions = {} /\ DOMAIN saved.sessions = {} /\ saved.at = Never /\ saved.users = users
  BY DEF Init, Nothing
<1>4. RowsOK(sessions) /\ RowsOK(saved.sessions)
  BY <1>3 DEF RowsOK
<1>5. /\ issued \in 0 .. MaxTokens /\ cookie \in [Browsers -> 0 .. issued]
      /\ task = [k \in Tasks |-> Free] /\ saved.at \in 0 .. MaxTime
  BY <1>3, Limits DEF Init, NoToken, Never
<1>6. failed \in [Keys -> [Instants -> Nat]] /\ blocked \in [Keys -> Nat]
  BY ClearedType DEF Init
<1>7. TypeOK
  BY <1>1, <1>2, <1>3, <1>4, <1>5, <1>6 DEF TypeOK
<1>8. Owned(users, sessions) /\ Owned(saved.users, saved.sessions) /\ Expected
  BY <1>2, <1>3, <1>5 DEF Owned, Expected
<1>. QED BY <1>7, <1>8 DEF IInv

LEMMA HandlerStep ==
  ASSUME AccountsAssumption, IInv, NEW k \in Tasks, Handler(k)
  PROVE  IInv' /\ AllLast
BY LoginFailsStep, LoginSucceedsStep, TouchStep, LogoutStep, DeactivateEndStep DEF Handler

LEMMA NextStep ==
  ASSUME AccountsAssumption, IInv, Next
  PROVE  IInv' /\ AllLast
BY RefuseStep, LoginPageStep, LoginBeginStep, RequestBeginStep, HandlerStep,
   CreateUserStep, ResetPasswordStep, DeactivateBeginStep, PurgeStep, BackupStep, CrashStep,
   RestoreStep, TickStep DEF Next

LEMMA Stutter ==
  ASSUME IInv, UNCHANGED vars
  PROVE  IInv'
BY DEF IInv, TypeOK, Owned, Expected, RowsOK, vars, web, limiter

LEMMA Inductive ==
  ASSUME AccountsAssumption
  PROVE  Spec => []IInv
<1>1. Init => IInv
  BY InitStep
<1>2. IInv /\ [Next]_vars => IInv'
  BY NextStep, Stutter
<1>. QED BY <1>1, <1>2, PTL DEF Spec

-----------------------------------------------------------------------------
\* A session that was not revoked, whose login was not late, knows the password.
Knows ==
  \A t \in DOMAIN sessions :
    sessions[t].user # Nobody /\ sessions[t].revoked = Never /\ ~sessions[t].late
      => sessions[t].key = users[sessions[t].user].key

\* What a row has of a login, and of its end, is what it had.
RowSays(t) ==
  /\ t \in DOMAIN sessions
  /\ sessions'[t].user = sessions[t].user /\ sessions'[t].key = sessions[t].key
  /\ sessions'[t].late = sessions[t].late /\ sessions'[t].revoked = sessions[t].revoked

\* The passwords of users stay, and each row says what it said or needs not know.
LEMMA KnowsStays ==
  ASSUME IInv, Knows,
         \A u \in Users : users[u].role # "none" => users'[u].key = users[u].key,
         \A t \in DOMAIN sessions' :
            \/ sessions'[t].user = Nobody \/ sessions'[t].revoked # Never
            \/ ~sessions'[t].late => sessions'[t].key = users'[sessions'[t].user].key
            \/ RowSays(t)
  PROVE  Knows'
<1>. SUFFICES ASSUME NEW t \in DOMAIN sessions', RowSays(t), sessions'[t].user # Nobody,
                     sessions'[t].revoked = Never, ~sessions'[t].late
     PROVE  sessions'[t].key = users'[sessions'[t].user].key
  BY DEF Knows
<1>1. sessions[t].key = users[sessions[t].user].key
  BY DEF Knows, RowSays
<1>2. sessions[t].user \in Users
  BY DEF IInv, TypeOK, RowsOK, Row, RowSays
<1>3. users[sessions[t].user].role # "none"
  BY DEF IInv, Owned, RowSays
<1>. QED BY <1>1, <1>2, <1>3 DEF RowSays

\* Steps that leave users and rows alone.
LEMMA KnowsSame ==
  ASSUME Knows, users' = users, sessions' = sessions
  PROVE  Knows'
BY DEF Knows

LEMMA KnowsRefuse ==
  ASSUME AccountsAssumption, IInv, Knows, NEW b \in Browsers, Refuse(b)
  PROVE  Knows'
<1>1. /\ users' = users /\ DOMAIN sessions' = DOMAIN sessions /\ now # Never
      /\ \A t \in DOMAIN sessions : sessions[t] \in Row
      /\ \A t \in DOMAIN sessions : \/ sessions'[t] = sessions[t]
                                    \/ sessions'[t] = [sessions[t] EXCEPT !.revoked = now]
  BY Clock DEF Refuse, IInv, TypeOK, RowsOK
<1>2. \A t \in DOMAIN sessions' : sessions'[t].revoked # Never \/ RowSays(t)
  BY <1>1 DEF Row, RowSays
<1>. QED BY <1>1, <1>2, KnowsStays

LEMMA KnowsLoginPage ==
  ASSUME AccountsAssumption, IInv, Knows, NEW b \in Browsers, NEW fits \in BOOLEAN,
         LoginPage(b, fits)
  PROVE  Knows'
<1>. DEFINE n == issued + 1
            base == [x \in DOMAIN sessions |->
                       IF x = cookie[b] /\ sessions[cookie[b]].revoked = Never
                       THEN [sessions[cookie[b]] EXCEPT !.revoked = now] ELSE sessions[x]]
<1>1. /\ users' = users /\ sessions' = With(base, n, Session(Nobody, now, LoginFor, 0, FALSE))
      /\ now # Never /\ \A t \in DOMAIN sessions : sessions[t] \in Row
  BY Clock DEF LoginPage, IInv, TypeOK, RowsOK
<1>2. DOMAIN sessions' = DOMAIN sessions \cup {n} /\ sessions'[n].user = Nobody
  BY <1>1 DEF With, Session
<1>3. \A t \in DOMAIN sessions : t # n =>
        sessions'[t] = sessions[t] \/ sessions'[t] = [sessions[t] EXCEPT !.revoked = now]
  BY <1>1 DEF With
<1>4. \A t \in DOMAIN sessions : t # n => sessions'[t].revoked # Never \/ RowSays(t)
  BY <1>1, <1>3 DEF Row, RowSays
<1>. QED BY <1>1, <1>2, <1>4, KnowsStays

LEMMA KnowsLoginSucceeds ==
  ASSUME AccountsAssumption, IInv, Knows, NEW k \in Tasks, task[k] # Free, LoginSucceeds(k)
  PROVE  Knows'
<1>. DEFINE j == task[k]
            n == issued + 1
            base == [sessions EXCEPT ![j.token].revoked = j.at]
            new == Session(j.user, j.at, AbsoluteFor, j.key, j.key # users[j.user].key)
<1>1. /\ users' = users /\ j.at # Never /\ \A t \in DOMAIN sessions : sessions[t] \in Row
  BY TaskType DEF LoginSucceeds, IInv, TypeOK, RowsOK, Instants, Never
<1>2. CASE sessions' = sessions
  BY <1>1, <1>2, KnowsSame
<1>3. CASE sessions' = With(base, n, new)
  <2>1. DOMAIN sessions' = DOMAIN sessions \cup {n} /\ sessions'[n] = new
    BY <1>3 DEF With
  <2>2. \A t \in DOMAIN sessions : t # n =>
          sessions'[t] = sessions[t] \/ sessions'[t] = [sessions[t] EXCEPT !.revoked = j.at]
    BY <1>3 DEF With
  <2>3. \A t \in DOMAIN sessions : t # n => sessions'[t].revoked # Never \/ RowSays(t)
    BY <1>1, <2>2 DEF Row, RowSays
  <2>4. ~sessions'[n].late => sessions'[n].key = users'[sessions'[n].user].key
    <3>1. CASE j.key = users[j.user].key
      BY <1>1, <2>1, <3>1 DEF Session
    <3>2. CASE j.key # users[j.user].key
      <4>1. (j.key # users[j.user].key) = TRUE
        BY <3>2
      <4>2. new.late
        BY <4>1 DEF Session
      <4>. QED BY <2>1, <4>2
    <3>. QED BY <3>1, <3>2
  <2>. QED BY <1>1, <2>1, <2>3, <2>4, KnowsStays
<1>. QED BY <1>2, <1>3 DEF LoginSucceeds

LEMMA KnowsTouch ==
  ASSUME AccountsAssumption, IInv, Knows, NEW k \in Tasks, Touch(k)
  PROVE  Knows'
<1>1. /\ users' = users /\ DOMAIN sessions' = DOMAIN sessions
      /\ \A t \in DOMAIN sessions : sessions[t] \in Row
      /\ \A t \in DOMAIN sessions : \/ sessions'[t] = sessions[t]
                                    \/ sessions'[t] = [sessions[t] EXCEPT !.used = task[k].at]
  BY DEF Touch, IInv, TypeOK, RowsOK
<1>2. \A t \in DOMAIN sessions' : RowSays(t)
  BY <1>1 DEF Row, RowSays
<1>. QED BY <1>1, <1>2, KnowsStays

LEMMA KnowsLogout ==
  ASSUME AccountsAssumption, IInv, Knows, NEW k \in Tasks, Logout(k)
  PROVE  Knows'
<1>1. /\ users' = users /\ DOMAIN sessions' = DOMAIN sessions /\ now # Never
      /\ \A t \in DOMAIN sessions : sessions[t] \in Row
      /\ \A t \in DOMAIN sessions : \/ sessions'[t] = sessions[t]
                                    \/ sessions'[t] = [sessions[t] EXCEPT !.revoked = now]
  BY Clock DEF Logout, IInv, TypeOK, RowsOK
<1>2. \A t \in DOMAIN sessions' : sessions'[t].revoked # Never \/ RowSays(t)
  BY <1>1 DEF Row, RowSays
<1>. QED BY <1>1, <1>2, KnowsStays

LEMMA KnowsCreateUser ==
  ASSUME IInv, Knows, NEW u \in Users, NEW role \in Roles, CreateUser(u, role)
  PROVE  Knows'
<1>1. /\ sessions' = sessions
      /\ \A v \in Users : users[v].role # "none" => users'[v] = users[v]
  BY DEF CreateUser, IInv, TypeOK
<1>2. \A t \in DOMAIN sessions' : RowSays(t)
  BY <1>1 DEF RowSays
<1>. QED BY <1>1, <1>2, KnowsStays

\* After Revoked(u) no session of u needs to know, and the others say what they said.
LEMMA KnowsRevoked ==
  ASSUME AccountsAssumption, IInv, Knows, NEW u, sessions' = Revoked(u),
         \A v \in Users : v # u => users'[v].key = users[v].key
  PROVE  Knows'
<1>1. /\ DOMAIN sessions' = DOMAIN sessions /\ now # Never
      /\ \A t \in DOMAIN sessions : sessions[t] \in Row
      /\ \A t \in DOMAIN sessions :
           IF sessions[t].user = u /\ sessions[t].revoked = Never
           THEN sessions'[t] = [sessions[t] EXCEPT !.revoked = now]
           ELSE sessions'[t] = sessions[t]
  BY Clock DEF Revoked, IInv, TypeOK, RowsOK
<1>2. \A t \in DOMAIN sessions' :
        \/ sessions'[t].revoked # Never
        \/ RowSays(t) /\ sessions[t].user # u
  BY <1>1 DEF Row, RowSays
<1>. SUFFICES ASSUME NEW t \in DOMAIN sessions', sessions'[t].user # Nobody,
                     sessions'[t].revoked = Never, ~sessions'[t].late
     PROVE  sessions'[t].key = users'[sessions'[t].user].key
  BY DEF Knows
<1>3. RowSays(t) /\ sessions[t].user # u
  BY <1>2
<1>4. sessions[t].user \in Users
  BY <1>1, <1>3 DEF Row, RowSays
<1>. QED BY <1>3, <1>4 DEF Knows, RowSays

LEMMA KnowsResetPassword ==
  ASSUME AccountsAssumption, IInv, Knows, NEW u \in Users, ResetPassword(u)
  PROVE  Knows'
<1>1. sessions' = Revoked(u) /\ \A v \in Users : v # u => users'[v].key = users[v].key
  BY DEF ResetPassword, IInv, TypeOK
<1>. QED BY <1>1, KnowsRevoked

LEMMA KnowsDeactivateEnd ==
  ASSUME AccountsAssumption, IInv, Knows, NEW k \in Tasks, DeactivateEnd(k)
  PROVE  Knows'
<1>1. /\ sessions' = Revoked(task[k].user)
      /\ \A v \in Users : v # task[k].user => users'[v].key = users[v].key
  BY DEF DeactivateEnd, IInv, TypeOK
<1>. QED BY <1>1, KnowsRevoked

LEMMA KnowsPurge ==
  ASSUME IInv, Knows, NEW cutoff, Purge(cutoff)
  PROVE  Knows'
<1>1. /\ users' = users /\ DOMAIN sessions' \subseteq DOMAIN sessions
      /\ \A t \in DOMAIN sessions' : sessions'[t] = sessions[t]
  BY DEF Purge, Without
<1>2. \A t \in DOMAIN sessions' : RowSays(t)
  BY <1>1 DEF RowSays
<1>. QED BY <1>1, <1>2, KnowsStays

LEMMA KnowsRestore ==
  ASSUME AccountsAssumption, IInv, Restore
  PROVE  Knows'
<1>. DEFINE ss == saved.sessions
<1>1. /\ now # Never /\ DOMAIN sessions' = DOMAIN ss /\ \A t \in DOMAIN ss : ss[t] \in Row
      /\ \A t \in DOMAIN ss :
           \/ sessions'[t] = ss[t] /\ ss[t].revoked # Never
           \/ sessions'[t] = [ss[t] EXCEPT !.revoked = now]
  BY Clock DEF Restore, IInv, TypeOK, RowsOK
<1>2. \A t \in DOMAIN sessions' : sessions'[t].revoked # Never
  <2>. HIDE DEF ss
  <2>. QED BY <1>1 DEF Row
<1>. QED BY <1>2 DEF Knows

LEMMA KnowsHandler ==
  ASSUME AccountsAssumption, IInv, Knows, NEW k \in Tasks, Handler(k)
  PROVE  Knows'
<1>1. LoginFails(k) => Knows'
  BY KnowsSame DEF LoginFails
<1>. QED BY <1>1, KnowsLoginSucceeds, KnowsTouch, KnowsLogout, KnowsDeactivateEnd DEF Handler

LEMMA KnowsNext ==
  ASSUME AccountsAssumption, IInv, Knows, Next
  PROVE  Knows'
<1>1. ASSUME NEW k \in Tasks, NEW b \in Browsers, NEW u \in Users, NEW right \in BOOLEAN,
             LoginBegin(k, b, u, right)
      PROVE  Knows'
  BY <1>1, KnowsSame DEF LoginBegin
<1>2. ASSUME NEW k \in Tasks, NEW b \in Browsers, NEW kind, RequestBegin(k, b, kind)
      PROVE  Knows'
  BY <1>2, KnowsSame DEF RequestBegin
<1>3. ASSUME NEW k \in Tasks, NEW u \in Users, DeactivateBegin(k, u)
      PROVE  Knows'
  BY <1>3, KnowsSame DEF DeactivateBegin
<1>4. Backup \/ Crash \/ Tick => Knows'
  BY KnowsSame DEF Backup, Crash, Tick
<1>. QED BY <1>1, <1>2, <1>3, <1>4, KnowsRefuse, KnowsLoginPage, KnowsHandler, KnowsCreateUser,
            KnowsResetPassword, KnowsPurge, KnowsRestore DEF Next
-----------------------------------------------------------------------------
\* Every table, cookie and task keeps the form the handlers give it.
THEOREM TypeCorrect ==
  ASSUME AccountsAssumption
  PROVE  Spec => []TypeOK
<1>1. IInv => TypeOK
  BY DEF IInv
<1>. QED BY <1>1, Inductive, PTL

\* A session that has ended stays ended, for any number of browsers, tasks and
\* users: none of them, no cleanup and no restored copy brings it back.
THEOREM EndsAreFinal ==
  ASSUME AccountsAssumption
  PROVE  Spec => EndedForGood
<1>1. IInv /\ Next => \A t \in 1 .. issued : Over(t) => Over(t)'
  BY NextStep DEF AllLast, Lasts
<1>2. IInv /\ [Next]_vars => [\A t \in 1 .. issued : Over(t) => Over(t)']_vars
  BY <1>1
<1>. QED BY <1>2, Inductive, PTL DEF Spec, EndedForGood
\* A reset ends every session that was opened with the former password, except
\* that of a login in flight: for any number of tasks, browsers and users.
THEOREM PasswordsEnd ==
  ASSUME AccountsAssumption
  PROVE  Spec => []PasswordsEndSessions
<1>1. Init => Knows
  BY DEF Init, Nothing, Knows
<1>2. IInv /\ Knows /\ [Next]_vars => Knows'
  BY KnowsNext, KnowsSame DEF vars
<1>3. Knows => PasswordsEndSessions
  BY DEF Knows, PasswordsEndSessions, Accepts, Usable
<1>. QED BY <1>1, <1>2, <1>3, Inductive, PTL DEF Spec
-----------------------------------------------------------------------------
(***************************************************************************)
(* The login rate limit: how many failures there are.                      *)
(***************************************************************************)
Failures(f) == UNION {{i} \X (1 .. f[i]) : i \in Instants}

LEMMA FailureIs ==
  ASSUME NEW f
  PROVE  \A x : x \in Failures(f) <=> \E i \in Instants : x \in {i} \X (1 .. f[i])
BY DEF Failures

LEMMA FailuresAreFinite ==
  ASSUME AccountsAssumption, NEW f \in [Instants -> Nat]
  PROVE  /\ IsFiniteSet(Failures(f))
         /\ Total(f) = Cardinality(Failures(f)) /\ Total(f) \in Nat
<1> DEFINE part == [i \in Instants |-> {i} \X (1 .. f[i])]
           S == {{i} \X (1 .. f[i]) : i \in Instants}
<1>1. IsFiniteSet(Instants)
  BY Limits, FS_Interval DEF Instants
<1>2. part \in Surjection(Instants, S)
  BY DEF Surjection
<1>3. IsFiniteSet(S)
  BY <1>1, <1>2, FS_Surjection
<1>4. ASSUME NEW i \in Instants
      PROVE  IsFiniteSet({i} \X (1 .. f[i]))
  <2>1. PICK n \in Nat : n = f[i]
    OBVIOUS
  <2>2. IsFiniteSet(1 .. n)
    BY FS_Interval
  <2>3. IsFiniteSet({i})
    BY FS_Singleton
  <2>4. QED
    BY <2>1, <2>2, <2>3, FS_Product
<1>5. IsFiniteSet(Failures(f))
  BY <1>3, <1>4, FS_UNION DEF Failures
<1>6. Total(f) = Cardinality(Failures(f))
  BY DEF Total, Failures
<1>7. QED
  BY <1>5, <1>6, FS_CardinalityType

LEMMA TotalGrows ==
  ASSUME AccountsAssumption, NEW f \in [Instants -> Nat], NEW g \in [Instants -> Nat],
         \A i \in Instants : f[i] <= g[i]
  PROVE  Total(f) <= Total(g)
<1>1. ASSUME NEW i \in Instants
      PROVE  {i} \X (1 .. f[i]) \subseteq {i} \X (1 .. g[i])
  <2>1. f[i] \in Nat /\ g[i] \in Nat /\ f[i] <= g[i]
    OBVIOUS
  <2>2. 1 .. f[i] \subseteq 1 .. g[i]
    BY <2>1
  <2>3. QED
    BY <2>2
<1>2. Failures(f) \subseteq Failures(g)
  BY <1>1, FailureIs
<1>3. QED
  BY <1>2, FailuresAreFinite, FS_Subset

LEMMA TotalOfNone ==
  ASSUME AccountsAssumption, NEW f \in [Instants -> Nat], \A i \in Instants : f[i] = 0
  PROVE  Total(f) = 0
<1>1. \A i \in Instants : {i} \X (1 .. f[i]) = {}
  OBVIOUS
<1>2. Failures(f) = {}
  BY <1>1, FailureIs
<1>3. QED
  BY <1>2, FailuresAreFinite, FS_EmptySet

LEMMA TotalOfOneMore ==
  ASSUME AccountsAssumption, NEW f \in [Instants -> Nat], NEW at \in Instants,
         NEW g \in [Instants -> Nat], g[at] = f[at] + 1,
         \A i \in Instants \ {at} : g[i] = f[i]
  PROVE  Total(g) = Total(f) + 1
<1>1. f[at] \in Nat
  OBVIOUS
<1>2. 1 .. g[at] = (1 .. f[at]) \cup {g[at]} /\ g[at] \notin 1 .. f[at]
  BY <1>1
<1>3. PICK x : x = <<at, g[at]>>
  OBVIOUS
<1>4. {at} \X (1 .. g[at]) = ({at} \X (1 .. f[at])) \cup {x}
  BY <1>2, <1>3
<1>5. x \notin Failures(f)
  BY <1>2, <1>3, FailureIs
<1>6. Failures(g) = Failures(f) \cup {x}
  <2>1. ASSUME NEW y \in Failures(g)
        PROVE  y \in Failures(f) \cup {x}
    <3>1. PICK i \in Instants : y \in {i} \X (1 .. g[i])
      BY FailureIs
    <3>2. i = at \/ g[i] = f[i]
      OBVIOUS
    <3>3. QED
      BY <1>4, <3>1, <3>2, FailureIs
  <2>2. ASSUME NEW y \in Failures(f)
        PROVE  y \in Failures(g)
    <3>1. PICK i \in Instants : y \in {i} \X (1 .. f[i])
      BY FailureIs
    <3>2. i = at \/ g[i] = f[i]
      OBVIOUS
    <3>3. QED
      BY <1>4, <3>1, <3>2, FailureIs
  <2>3. x \in Failures(g)
    BY <1>4, FailureIs
  <2>4. QED
    BY <2>1, <2>2, <2>3
<1>7. QED
  BY <1>5, <1>6, FailuresAreFinite, FS_AddElement
-----------------------------------------------------------------------------
(***************************************************************************)
(* The login rate limit: rounds.  Of the logins that begin after instant s *)
(* a round is what is let in until the next failure locks the key.  A lock *)
(* that one of them sets outlasts the window; only a login from before s   *)
(* sets one that ends within, and then its task is free for the next round.*)
(***************************************************************************)
Trying(x, k) == x # Free /\ x.kind = "login" /\ k \in {x.user, x.by}

Old(tk, k, s)   == {j \in Tasks : Trying(tk[j], k) /\ tk[j].at <= s}
Young(tk, k, s) == {j \in Tasks : Trying(tk[j], k) /\ s < tk[j].at}

Since(f, s) == [i \in Instants |-> IF s < i THEN f[i] ELSE 0]

\* Twice the failures of rounds with up to m tasks.
Most(m) == 2 * (MaxAttempts - 1) + m * (m + 1)

\* n failures, r logins that may still fail, m tasks not held by older logins;
\* all may begin unless the key is locked until after t.
Fits(n, r, m, t, end) ==
  /\ 2 * (n + r) <= Most(m)
  /\ 2 * (n + m) <= Most(m) \/ t < end

Rounds(tk, f, k, s, end) ==
  Fits(Total(Since(f, s)), Cardinality(Young(tk, k, s)), Cardinality(Tasks \ Old(tk, k, s)),
       s + Window, end)

\* Nothing is dated later than now.
Past ==
  /\ \A k \in Keys, i \in Instants : now < i => failed[k][i] = 0
  /\ \A j \in Tasks : task[j] # Free => task[j].at <= now

BInv ==
  /\ Past
  /\ \A k \in Keys, s \in Nat : now <= s + Window => Rounds(task, failed[k], k, s, blocked[k])

LEMMA MostGrows ==
  ASSUME AccountsAssumption, NEW m \in Nat
  PROVE  /\ Most(m) \in Nat /\ 2 * m <= Most(m) /\ 2 * (MaxAttempts - 1) + 2 * m <= Most(m)
         /\ \A p \in Nat : m <= p => /\ Most(m) <= Most(p)
                                     /\ Most(m) + 2 * p <= Most(p) + 2 * m
         /\ \A p \in Nat : m + 1 <= p => Most(m) + 2 * p <= Most(p)
<1>1. MaxAttempts \in Nat \ {0}
  BY DEF AccountsAssumption
<1>2. \A x, y \in Nat : x * y \in Nat
  OBVIOUS
<1>3. m * (m + 1) = m * m + m
  OBVIOUS
<1>4. m <= m * m
  OBVIOUS
<1>5. ASSUME NEW p \in Nat, m <= p
      PROVE  m * m + p <= p * p + m
  <2>1. PICK d \in Nat : p = m + d
    <3>1. p - m \in Nat /\ p = m + (p - m)
      BY <1>5
    <3>2. QED
      BY <3>1
  <2>2. p * p = m * m + 2 * (m * d) + d * d
    BY <2>1
  <2>3. d <= d * d
    OBVIOUS
  <2>4. m * d \in Nat /\ d * d \in Nat /\ m * m \in Nat
    BY <1>2
  <2>5. QED
    BY <2>1, <2>2, <2>3, <2>4
<1>6. ASSUME NEW p \in Nat, m + 1 <= p
      PROVE  m * m + m + p <= p * p
  <2>1. PICK d \in Nat : p = (m + 1) + d
    <3>1. p - (m + 1) \in Nat /\ p = (m + 1) + (p - (m + 1))
      BY <1>6
    <3>2. QED
      BY <3>1
  <2>2. p * p = m * m + 2 * m + 1 + 2 * (m * d) + 2 * d + d * d
    BY <2>1
  <2>3. m * d \in Nat /\ d * d \in Nat /\ m * m \in Nat
    BY <1>2
  <2>4. QED
    BY <2>1, <2>2, <2>3
<1>7. \A p \in Nat : p * (p + 1) = p * p + p /\ p * p \in Nat
  OBVIOUS
<1>8. QED
  BY <1>1, <1>3, <1>4, <1>5, <1>6, <1>7 DEF Most

\* What only makes way is within the limit, ...
LEMMA FitsFewer ==
  ASSUME AccountsAssumption, NEW n \in Nat, NEW r \in Nat, NEW m \in Nat, NEW t, NEW end,
         Fits(n, r, m, t, end), NEW l \in Nat, NEW q \in Nat, NEW p \in Nat, NEW till,
         l <= n, q <= r, m <= p, t < end => t < till
  PROVE  Fits(l, q, p, t, till)
<1>1. PICK x, y \in Nat : /\ x = Most(m) /\ y = Most(p) /\ x <= y
                          /\ x + 2 * p <= y + 2 * m
  BY MostGrows
<1>2. 2 * (n + r) <= x /\ (2 * (n + m) <= x \/ t < end)
  BY <1>1 DEF Fits
<1>3. 2 * (l + q) <= y
  BY <1>1, <1>2
<1>4. 2 * (n + m) <= x => 2 * (l + p) <= y
  BY <1>1
<1>5. QED
  BY <1>1, <1>2, <1>3, <1>4 DEF Fits

\* ... also if a lock is shortened but an older login has left, ...
LEMMA FitsOld ==
  ASSUME AccountsAssumption, NEW n \in Nat, NEW r \in Nat, NEW m \in Nat, NEW t, NEW end,
         Fits(n, r, m, t, end), NEW l \in Nat, NEW q \in Nat, NEW p \in Nat, NEW till,
         l <= n, q <= r, m + 1 <= p
  PROVE  Fits(l, q, p, t, till)
<1>1. PICK x, y \in Nat : x = Most(m) /\ y = Most(p) /\ x <= y /\ x + 2 * p <= y
  <2>1. m <= p
    OBVIOUS
  <2>2. QED
    BY <2>1, MostGrows
<1>2. 2 * (n + r) <= x
  BY <1>1 DEF Fits
<1>3. 2 * (l + q) <= y /\ 2 * (l + p) <= y
  BY <1>1, <1>2
<1>4. QED
  BY <1>1, <1>3 DEF Fits

\* ... and a login that fails was counted before; it locks from the limit on.
LEMMA FitsFailure ==
  ASSUME AccountsAssumption, NEW n \in Nat, NEW r \in Nat, NEW m \in Nat, NEW t, NEW end,
         Fits(n, r, m, t, end), NEW q \in Nat, NEW p \in Nat, NEW till,
         q + 1 <= r, m <= p, MaxAttempts <= n + 1 => t < till
  PROVE  Fits(n + 1, q, p, t, till)
<1>1. PICK x, y \in Nat : /\ x = Most(m) /\ y = Most(p) /\ x <= y
                          /\ 2 * (MaxAttempts - 1) + 2 * p <= y
  BY MostGrows
<1>2. MaxAttempts \in Nat \ {0}
  BY DEF AccountsAssumption
<1>3. 2 * (n + r) <= x
  BY <1>1 DEF Fits
<1>4. 2 * ((n + 1) + q) <= y
  BY <1>1, <1>3
<1>5. ~(MaxAttempts <= n + 1) => 2 * ((n + 1) + p) <= y
  BY <1>1, <1>2
<1>6. QED
  BY <1>1, <1>4, <1>5 DEF Fits

\* A round of a key that is not locked has a task for each login.
LEMMA FitsRound ==
  ASSUME AccountsAssumption, NEW n \in Nat, NEW r, NEW m \in Nat, NEW t, NEW end,
         Fits(n, r, m, t, end), ~(t < end), NEW q \in Nat, NEW till, q <= m
  PROVE  Fits(n, q, m, t, till)
<1>1. PICK x \in Nat : x = Most(m)
  BY MostGrows
<1>2. 2 * (n + m) <= x
  BY <1>1 DEF Fits
<1>3. 2 * (n + q) <= x
  BY <1>1, <1>2
<1>4. QED
  BY <1>1, <1>2, <1>3 DEF Fits

LEMMA FitsNone ==
  ASSUME AccountsAssumption, NEW m \in Nat, NEW q \in Nat, NEW t, NEW till, q <= m
  PROVE  Fits(0, q, m, t, till)
<1>1. PICK x \in Nat : x = Most(m) /\ 2 * m <= x
  BY MostGrows
<1>2. QED
  BY <1>1 DEF Fits

\* The numbers of a key.
LEMMA Numbers ==
  ASSUME AccountsAssumption, NEW tk \in [Tasks -> {Free} \cup Pending], NEW k, NEW s \in Nat
  PROVE  /\ IsFiniteSet(Old(tk, k, s)) /\ IsFiniteSet(Young(tk, k, s))
         /\ IsFiniteSet(Tasks \ Old(tk, k, s))
         /\ Cardinality(Young(tk, k, s)) \in Nat /\ Cardinality(Tasks \ Old(tk, k, s)) \in Nat
         /\ Cardinality(Young(tk, k, s)) <= Cardinality(Tasks \ Old(tk, k, s))
<1>1. IsFiniteSet(Tasks)
  BY DEF AccountsAssumption
<1>2. Old(tk, k, s) \subseteq Tasks /\ Young(tk, k, s) \subseteq Tasks \ Old(tk, k, s)
  <2>1. ASSUME NEW j \in Young(tk, k, s)
        PROVE  j \in Tasks /\ j \notin Old(tk, k, s)
    <3>1. j \in Tasks /\ tk[j] # Free /\ s < tk[j].at
      BY DEF Young, Trying
    <3>2. tk[j].at \in Nat
      BY <3>1 DEF Pending, Instants
    <3>3. ~(tk[j].at <= s)
      BY <3>1, <3>2
    <3>4. QED
      BY <3>1, <3>3 DEF Old
  <2>2. QED
    BY <2>1 DEF Old
<1>3. IsFiniteSet(Old(tk, k, s)) /\ IsFiniteSet(Tasks \ Old(tk, k, s))
  BY <1>1, <1>2, FS_Subset
<1>4. /\ IsFiniteSet(Young(tk, k, s))
      /\ Cardinality(Young(tk, k, s)) <= Cardinality(Tasks \ Old(tk, k, s))
  BY <1>2, <1>3, FS_Subset
<1>5. QED
  BY <1>3, <1>4, FS_CardinalityType

LEMMA SinceType ==
  ASSUME AccountsAssumption, NEW f \in [Instants -> Nat], NEW s
  PROVE  Since(f, s) \in [Instants -> Nat] /\ Total(Since(f, s)) \in Nat
<1>1. Since(f, s) \in [Instants -> Nat]
  BY DEF Since
<1>2. QED
  BY <1>1, FailuresAreFinite

\* No login of the key begins: a task that is at one was at it before.
Carries(tk, tl, k) == \A j \in Tasks : Trying(tl[j], k) => tl[j] = tk[j]

LEMMA FewerTasks ==
  ASSUME AccountsAssumption, NEW k, NEW s \in Nat,
         NEW tk \in [Tasks -> {Free} \cup Pending], NEW tl \in [Tasks -> {Free} \cup Pending],
         Carries(tk, tl, k)
  PROVE  /\ Old(tl, k, s) \subseteq Old(tk, k, s) /\ Young(tl, k, s) \subseteq Young(tk, k, s)
         /\ Cardinality(Young(tl, k, s)) <= Cardinality(Young(tk, k, s))
         /\ Cardinality(Tasks \ Old(tk, k, s)) <= Cardinality(Tasks \ Old(tl, k, s))
<1>1. Old(tl, k, s) \subseteq Old(tk, k, s) /\ Young(tl, k, s) \subseteq Young(tk, k, s)
  BY DEF Carries, Old, Young
<1>2. Tasks \ Old(tk, k, s) \subseteq Tasks \ Old(tl, k, s)
  BY <1>1
<1>3. IsFiniteSet(Young(tk, k, s)) /\ IsFiniteSet(Tasks \ Old(tl, k, s))
  BY Numbers
<1>4. Cardinality(Young(tl, k, s)) <= Cardinality(Young(tk, k, s))
  BY <1>1, <1>3, FS_Subset
<1>5. Cardinality(Tasks \ Old(tk, k, s)) <= Cardinality(Tasks \ Old(tl, k, s))
  BY <1>2, <1>3, FS_Subset
<1>6. QED
  BY <1>1, <1>4, <1>5

LEMMA RoundsStay ==
  ASSUME AccountsAssumption, NEW k, NEW s \in Nat,
         NEW tk \in [Tasks -> {Free} \cup Pending], NEW tl \in [Tasks -> {Free} \cup Pending],
         Carries(tk, tl, k),
         NEW f \in [Instants -> Nat], NEW g \in [Instants -> Nat], NEW end, NEW till,
         Rounds(tk, f, k, s, end),
         \A i \in Instants : s < i => g[i] <= f[i],
         s + Window < end => s + Window < till
  PROVE  Rounds(tl, g, k, s, till)
<1>1. PICK n, l \in Nat : n = Total(Since(f, s)) /\ l = Total(Since(g, s))
  BY SinceType
<1>2. l <= n
  <2>1. \A i \in Instants : Since(g, s)[i] <= Since(f, s)[i]
    BY DEF Since
  <2>2. QED
    BY <1>1, <2>1, SinceType, TotalGrows
<1>3. PICK r, q \in Nat : r = Cardinality(Young(tk, k, s)) /\ q = Cardinality(Young(tl, k, s))
  BY Numbers
<1>4. PICK m, p \in Nat : /\ m = Cardinality(Tasks \ Old(tk, k, s))
                          /\ p = Cardinality(Tasks \ Old(tl, k, s))
  BY Numbers
<1>5. q <= r /\ m <= p
  BY <1>3, <1>4, FewerTasks
<1>6. Fits(n, r, m, s + Window, end)
  BY <1>1, <1>3, <1>4 DEF Rounds
<1>7. Fits(l, q, p, s + Window, till)
  BY <1>2, <1>5, <1>6, FitsFewer
<1>8. QED
  BY <1>1, <1>3, <1>4, <1>7 DEF Rounds

LEMMA RoundsOfNone ==
  ASSUME AccountsAssumption, NEW k, NEW s \in Nat,
         NEW tl \in [Tasks -> {Free} \cup Pending],
         NEW g \in [Instants -> Nat], NEW till,
         \A i \in Instants : s < i => g[i] = 0
  PROVE  Rounds(tl, g, k, s, till)
<1>1. Total(Since(g, s)) = 0
  <2>1. \A i \in Instants : Since(g, s)[i] = 0
    BY DEF Since
  <2>2. QED
    BY <2>1, SinceType, TotalOfNone
<1>2. PICK q, m \in Nat : /\ q = Cardinality(Young(tl, k, s)) /\ q <= m
                          /\ m = Cardinality(Tasks \ Old(tl, k, s))
  BY Numbers
<1>3. Fits(0, q, m, s + Window, till)
  BY <1>2, FitsNone
<1>4. QED
  BY <1>1, <1>2, <1>3 DEF Rounds

\* The login in task j fails and leaves; at its instant one more is counted.
LEMMA RoundsOfFailure ==
  ASSUME AccountsAssumption, NEW k, NEW s \in Nat,
         NEW tk \in [Tasks -> {Free} \cup Pending], NEW tl \in [Tasks -> {Free} \cup Pending],
         Carries(tk, tl, k), NEW j \in Tasks, Trying(tk[j], k), tl[j] = Free,
         NEW f \in [Instants -> Nat], NEW g \in [Instants -> Nat], NEW end, NEW till,
         Rounds(tk, f, k, s, end),
         g[tk[j].at] = f[tk[j].at] + 1 \/ ~(s < tk[j].at),
         \A i \in Instants \ {tk[j].at} : s < i => g[i] = f[i],
         s < tk[j].at /\ MaxAttempts <= Total(Since(g, s)) => s + Window < till
  PROVE  Rounds(tl, g, k, s, till)
<1>1. PICK at \in Instants : at = tk[j].at
  BY DEF Trying, Pending
<1>2. PICK n, l \in Nat : n = Total(Since(f, s)) /\ l = Total(Since(g, s))
  BY SinceType
<1>3. PICK r, q \in Nat : r = Cardinality(Young(tk, k, s)) /\ q = Cardinality(Young(tl, k, s))
  BY Numbers
<1>4. PICK m, p \in Nat : /\ m = Cardinality(Tasks \ Old(tk, k, s))
                          /\ p = Cardinality(Tasks \ Old(tl, k, s))
  BY Numbers
<1>5. /\ q <= r /\ m <= p
      /\ Old(tl, k, s) \subseteq Old(tk, k, s) /\ Young(tl, k, s) \subseteq Young(tk, k, s)
  BY <1>3, <1>4, FewerTasks
<1>6. Fits(n, r, m, s + Window, end)
  BY <1>2, <1>3, <1>4 DEF Rounds
<1>7. /\ IsFiniteSet(Young(tk, k, s)) /\ IsFiniteSet(Tasks \ Old(tl, k, s))
      /\ j \notin Young(tl, k, s) /\ j \notin Old(tl, k, s)
  <2>1. j \notin Young(tl, k, s) /\ j \notin Old(tl, k, s)
    BY DEF Young, Old, Trying
  <2>2. QED
    BY <2>1, Numbers
<1>8. CASE s < at
  <2>1. l = n + 1
    <3>1. Since(g, s)[at] = Since(f, s)[at] + 1
      BY <1>1, <1>8 DEF Since
    <3>2. \A i \in Instants \ {at} : Since(g, s)[i] = Since(f, s)[i]
      BY <1>1 DEF Since
    <3>3. QED
      BY <1>2, <3>1, <3>2, SinceType, TotalOfOneMore
  <2>2. q + 1 <= r
    <3>1. j \in Young(tk, k, s)
      BY <1>1, <1>8 DEF Young
    <3>2. Young(tl, k, s) \subseteq Young(tk, k, s) \ {j}
      BY <1>5, <1>7
    <3>3. /\ IsFiniteSet(Young(tk, k, s) \ {j})
          /\ Cardinality(Young(tk, k, s) \ {j}) = r - 1
      BY <1>3, <1>7, <3>1, FS_RemoveElement
    <3>4. q <= r - 1
      BY <1>3, <3>2, <3>3, FS_Subset
    <3>5. QED
      BY <1>3, <3>4
  <2>3. MaxAttempts <= n + 1 => s + Window < till
    BY <1>1, <1>2, <1>8, <2>1
  <2>4. Fits(n + 1, q, p, s + Window, till)
    BY <1>5, <1>6, <2>2, <2>3, FitsFailure
  <2>5. QED
    BY <1>2, <1>3, <1>4, <2>1, <2>4 DEF Rounds
<1>9. CASE ~(s < at)
  <2>1. l <= n
    <3>1. at \in Nat
      BY DEF Instants
    <3>2. \A i \in Instants : Since(g, s)[i] <= Since(f, s)[i]
      BY <1>1, <1>9 DEF Since
    <3>3. QED
      BY <1>2, <3>2, SinceType, TotalGrows
  <2>2. m + 1 <= p
    <3>1. j \in Old(tk, k, s)
      BY <1>1, <1>9 DEF Old, Instants
    <3>2. PICK S : S = Tasks \ Old(tk, k, s)
      OBVIOUS
    <3>3. j \notin S /\ S \cup {j} \subseteq Tasks \ Old(tl, k, s)
      BY <1>5, <1>7, <3>1, <3>2
    <3>4. IsFiniteSet(S) /\ Cardinality(S) = m
      BY <1>4, <3>2, Numbers
    <3>5. Cardinality(S \cup {j}) = m + 1
      BY <3>3, <3>4, FS_AddElement
    <3>6. QED
      BY <1>4, <1>7, <3>3, <3>5, FS_Subset
  <2>3. Fits(l, q, p, s + Window, till)
    BY <1>5, <1>6, <2>1, <2>2, FitsOld
  <2>4. QED
    BY <1>2, <1>3, <1>4, <2>3 DEF Rounds
<1>10. QED
  BY <1>8, <1>9

\* A login of a key that is not locked begins.
LEMMA RoundsOfLogin ==
  ASSUME AccountsAssumption, NEW k, NEW s \in Nat,
         NEW tk \in [Tasks -> {Free} \cup Pending], NEW tl \in [Tasks -> {Free} \cup Pending],
         NEW j \in Tasks, tk[j] = Free, \A i \in Tasks \ {j} : tl[i] = tk[i],
         tl[j] # Free, s < tl[j].at,
         NEW f \in [Instants -> Nat], NEW g \in [Instants -> Nat], NEW end, NEW till,
         Rounds(tk, f, k, s, end), ~(s + Window < end),
         \A i \in Instants : s < i => g[i] = f[i]
  PROVE  Rounds(tl, g, k, s, till)
<1>1. Since(g, s) = Since(f, s)
  BY DEF Since
<1>2. PICK n, r, q, m \in Nat :
        /\ n = Total(Since(f, s)) /\ r = Cardinality(Young(tk, k, s))
        /\ q = Cardinality(Young(tl, k, s)) /\ q <= Cardinality(Tasks \ Old(tl, k, s))
        /\ m = Cardinality(Tasks \ Old(tk, k, s))
  BY SinceType, Numbers
<1>3. Old(tl, k, s) = Old(tk, k, s)
  <2>1. tl[j] \in Pending
    OBVIOUS
  <2>2. tl[j].at \in Nat
    BY <2>1 DEF Pending, Instants
  <2>3. ~(tl[j].at <= s)
    BY <2>2
  <2>4. QED
    BY <2>3 DEF Old, Trying
<1>4. Fits(n, r, m, s + Window, end)
  BY <1>2 DEF Rounds
<1>5. Fits(n, q, m, s + Window, till)
  BY <1>2, <1>3, <1>4, FitsRound
<1>6. QED
  BY <1>1, <1>2, <1>3, <1>5 DEF Rounds
-----------------------------------------------------------------------------
(***************************************************************************)
(* The login rate limit: the steps.                                        *)
(***************************************************************************)
LEMMA Tables ==
  ASSUME AccountsAssumption, TypeOK, TypeOK'
  PROVE  /\ task \in [Tasks -> {Free} \cup Pending] /\ task' \in [Tasks -> {Free} \cup Pending]
         /\ failed \in [Keys -> [Instants -> Nat]] /\ failed' \in [Keys -> [Instants -> Nat]]
         /\ blocked \in [Keys -> Nat] /\ blocked' \in [Keys -> Nat]
         /\ now \in Instants /\ now' \in Instants /\ now \in Nat /\ now' \in Nat
         /\ Window \in Nat
BY Limits DEF TypeOK, Instants

\* The limit is as it was, and no login begins.
Quiet ==
  /\ now <= now' /\ failed' = failed /\ blocked' = blocked
  /\ \A j \in Tasks : task'[j] # Free => \/ task'[j] = task[j]
                                         \/ task'[j].kind # "login" /\ task'[j].at <= now'

LEMMA QuietStep ==
  ASSUME AccountsAssumption, TypeOK, TypeOK', BInv, Quiet
  PROVE  BInv'
<1>1. Past'
  <2>1. ASSUME NEW k \in Keys, NEW i \in Instants, now' < i
        PROVE  failed'[k][i] = 0
    <3>1. now < i
      BY <2>1, Tables DEF Quiet, Instants
    <3>2. QED
      BY <3>1 DEF Quiet, BInv, Past
  <2>2. ASSUME NEW j \in Tasks, task'[j] # Free
        PROVE  task'[j].at <= now'
    <3>1. CASE task'[j] = task[j]
      <4>1. task[j].at <= now /\ task[j] \in Pending
        BY <2>2, <3>1, Tables DEF BInv, Past
      <4>2. task[j].at \in Nat
        BY <4>1 DEF Pending, Instants
      <4>3. \A x, y, z \in Nat : x <= y /\ y <= z => x <= z
        OBVIOUS
      <4>4. QED
        BY <3>1, <4>1, <4>2, <4>3, Tables DEF Quiet
    <3>2. QED
      BY <2>2, <3>1 DEF Quiet
  <2>3. QED
    BY <2>1, <2>2 DEF Past
<1>2. ASSUME NEW k \in Keys, NEW s \in Nat, now' <= s + Window
      PROVE  Rounds(task', failed'[k], k, s, blocked'[k])
  <2>1. now <= s + Window
    BY <1>2, Tables DEF Quiet
  <2>2. Rounds(task, failed[k], k, s, blocked[k])
    BY <2>1 DEF BInv
  <2>3. Carries(task, task', k)
    BY DEF Quiet, Carries, Trying
  <2>4. failed[k] \in [Instants -> Nat]
    BY Tables
  <2>5. \A i \in Instants : failed[k][i] <= failed[k][i]
    BY <2>4
  <2>6. failed'[k] = failed[k] /\ blocked'[k] = blocked[k]
    BY DEF Quiet
  <2>7. QED
    BY <2>2, <2>3, <2>4, <2>5, <2>6, Tables, RoundsStay
<1>3. QED
  BY <1>1, <1>2 DEF BInv

\* The limit was kept in memory: nothing is left of it.
LEMMA ClearedStep ==
  ASSUME AccountsAssumption, TypeOK, TypeOK', BInv, now' = now,
         failed' = [k \in Keys |-> [i \in Instants |-> 0]],
         \A j \in Tasks : task'[j] # Free => task'[j] = task[j]
  PROVE  BInv'
<1>1. \A k \in Keys, i \in Instants : failed'[k][i] = 0
  OBVIOUS
<1>2. Past'
  BY <1>1 DEF BInv, Past
<1>3. ASSUME NEW k \in Keys, NEW s \in Nat
      PROVE  Rounds(task', failed'[k], k, s, blocked'[k])
  <2>1. failed'[k] \in [Instants -> Nat]
    BY Tables
  <2>2. QED
    BY <1>1, <2>1, Tables, RoundsOfNone
<1>4. QED
  BY <1>2, <1>3 DEF BInv

LEMMA SucceedsRounds ==
  ASSUME AccountsAssumption, TypeOK, TypeOK', BInv, NEW j \in Tasks, LoginSucceeds(j)
  PROVE  BInv'
<1>1. /\ now' = now /\ task' = [task EXCEPT ![j] = Free]
      /\ ResetAccount(task[j].user)
  BY DEF LoginSucceeds
<1>2. \A i \in Tasks : task'[i] # Free => task'[i] = task[i]
  BY <1>1, Tables
<1>3. \A k \in Keys : \/ failed'[k] = [i \in Instants |-> 0]
                      \/ failed'[k] = failed[k] /\ blocked'[k] = blocked[k]
  BY <1>1, Tables DEF ResetAccount
<1>4. Past'
  <2>1. ASSUME NEW k \in Keys, NEW i \in Instants, now < i
        PROVE  failed'[k][i] = 0
    BY <1>3, <2>1 DEF BInv, Past
  <2>2. QED
    BY <1>1, <1>2, <2>1 DEF BInv, Past
<1>5. ASSUME NEW k \in Keys, NEW s \in Nat, now <= s + Window
      PROVE  Rounds(task', failed'[k], k, s, blocked'[k])
  <2>1. failed[k] \in [Instants -> Nat] /\ failed'[k] \in [Instants -> Nat]
    BY Tables
  <2>2. CASE failed'[k] = [i \in Instants |-> 0]
    <3>1. \A i \in Instants : failed'[k][i] = 0
      BY <2>2
    <3>2. QED
      BY <2>1, <3>1, Tables, RoundsOfNone
  <2>3. CASE failed'[k] = failed[k] /\ blocked'[k] = blocked[k]
    <3>1. Carries(task, task', k)
      BY <1>2 DEF Carries, Trying
    <3>2. \A i \in Instants : failed'[k][i] <= failed[k][i]
      BY <2>1, <2>3
    <3>3. Rounds(task, failed[k], k, s, blocked[k])
      BY <1>5 DEF BInv
    <3>4. QED
      BY <2>1, <2>3, <3>1, <3>2, <3>3, Tables, RoundsStay
  <2>4. QED
    BY <1>3, <2>2, <2>3
<1>6. QED
  BY <1>1, <1>4, <1>5 DEF BInv

\* A failed login counts for its account and its source, by its own clock: what
\* it drops has left the window, and the lock it sets outlasts all that counts.
LEMMA FailsRounds ==
  ASSUME AccountsAssumption, Window <= LockFor, TypeOK, TypeOK', BInv,
         NEW j \in Tasks, task[j] # Free, LoginFails(j)
  PROVE  BInv'
<1>1. /\ now' = now /\ task' = [task EXCEPT ![j] = Free] /\ task[j].kind = "login"
      /\ RecordFailure(task[j].user, task[j].by, task[j].at)
  BY DEF LoginFails
<1>2. PICK at \in Instants : at = task[j].at
  BY TaskType
<1>3. at \in Nat /\ at <= now /\ LockFor \in Nat /\ MaxAttempts \in Nat
  BY <1>2, Limits DEF BInv, Past, Instants
<1>4. /\ task'[j] = Free
      /\ \A i \in Tasks : task'[i] # Free => task'[i] = task[i]
  BY <1>1, Tables
<1>5. ASSUME NEW k \in Keys
      PROVE  \/ /\ k \in {task[j].user, task[j].by}
                /\ failed'[k][at] = (IF at + Window <= at THEN 0 ELSE failed[k][at]) + 1
                /\ \A i \in Instants \ {at} :
                     failed'[k][i] = IF i + Window <= at THEN 0 ELSE failed[k][i]
                /\ MaxAttempts <= Total(failed'[k]) => blocked'[k] = at + LockFor
             \/ /\ \A i \in Instants :
                     failed'[k][i] = IF i + Window <= at THEN 0 ELSE failed[k][i]
                /\ blocked'[k] = IF blocked[k] <= at THEN Never ELSE blocked[k]
  <2>1. PICK r \in {Recent(at)} : r[k] = [i \in Instants |-> IF i + Window <= at THEN 0
                                                             ELSE failed[k][i]]
    BY DEF Recent
  <2>2. PICK d \in {Blocked(at)} : d[k] = IF blocked[k] <= at THEN Never ELSE blocked[k]
    BY DEF Blocked
  <2>3. /\ failed'[k] = IF k \in {task[j].user, task[j].by}
                        THEN [r[k] EXCEPT ![at] = @ + 1] ELSE r[k]
        /\ blocked'[k] = IF /\ k \in {task[j].user, task[j].by}
                            /\ Total(failed'[k]) >= MaxAttempts
                         THEN at + LockFor ELSE d[k]
    BY <1>1, <1>2, <2>1, <2>2 DEF RecordFailure
  <2>4. CASE k \in {task[j].user, task[j].by}
    <3>1. failed'[k] = [r[k] EXCEPT ![at] = @ + 1]
      BY <2>3, <2>4
    <3>2. failed'[k][at] = r[k][at] + 1 /\ \A i \in Instants \ {at} : failed'[k][i] = r[k][i]
      BY <2>1, <3>1
    <3>3. Total(failed'[k]) \in Nat
      BY Tables, FailuresAreFinite
    <3>4. MaxAttempts <= Total(failed'[k]) => blocked'[k] = at + LockFor
      BY <1>3, <2>3, <2>4, <3>3
    <3>5. QED
      BY <2>1, <2>4, <3>2, <3>4
  <2>5. CASE k \notin {task[j].user, task[j].by}
    <3>1. failed'[k] = r[k] /\ blocked'[k] = d[k]
      BY <2>3, <2>5
    <3>2. QED
      BY <2>1, <2>2, <3>1
  <2>6. QED
    BY <2>4, <2>5
<1>6. Past'
  <2>1. ASSUME NEW k \in Keys, NEW i \in Instants, now < i
        PROVE  failed'[k][i] = 0
    <3>1. failed[k][i] = 0 /\ i # at
      BY <1>3, <2>1, Tables DEF BInv, Past
    <3>2. QED
      BY <1>5, <3>1
  <2>2. QED
    BY <1>1, <1>4, <2>1 DEF BInv, Past
<1>7. ASSUME NEW k \in Keys, NEW s \in Nat, now <= s + Window
      PROVE  Rounds(task', failed'[k], k, s, blocked'[k])
  <2>1. failed[k] \in [Instants -> Nat] /\ failed'[k] \in [Instants -> Nat] /\ blocked[k] \in Nat
    BY Tables
  <2>2. Carries(task, task', k)
    BY <1>4 DEF Carries, Trying
  <2>3. Rounds(task, failed[k], k, s, blocked[k])
    BY <1>7 DEF BInv
  <2>4. \A i \in Instants : s < i => ~(i + Window <= at)
    <3>1. \A i, x, y, z, w \in Nat : y <= z /\ z <= x + w /\ x < i => ~(i + w <= y)
      OBVIOUS
    <3>2. QED
      BY <1>3, <1>7, <3>1, Tables DEF Instants
  <2>5. CASE /\ \A i \in Instants :
                  failed'[k][i] = IF i + Window <= at THEN 0 ELSE failed[k][i]
             /\ blocked'[k] = IF blocked[k] <= at THEN Never ELSE blocked[k]
    <3>1. \A i \in Instants : s < i => failed'[k][i] <= failed[k][i]
      BY <2>1, <2>4, <2>5
    <3>2. s + Window < blocked[k] => s + Window < blocked'[k]
      <4>1. \A x, y, z, w, b \in Nat : y <= z /\ z <= x + w /\ x + w < b => ~(b <= y)
        OBVIOUS
      <4>2. s + Window < blocked[k] => ~(blocked[k] <= at)
        BY <1>3, <1>7, <2>1, <4>1, Tables
      <4>3. QED
        BY <2>5, <4>2
    <3>3. QED
      BY <2>1, <2>2, <2>3, <3>1, <3>2, Tables, RoundsStay
  <2>6. CASE /\ k \in {task[j].user, task[j].by}
             /\ failed'[k][at] = (IF at + Window <= at THEN 0 ELSE failed[k][at]) + 1
             /\ \A i \in Instants \ {at} :
                  failed'[k][i] = IF i + Window <= at THEN 0 ELSE failed[k][i]
             /\ MaxAttempts <= Total(failed'[k]) => blocked'[k] = at + LockFor
    <3>1. Trying(task[j], k) /\ task'[j] = Free
      BY <1>1, <1>4, <2>6 DEF Trying
    <3>2. failed'[k][task[j].at] = failed[k][task[j].at] + 1 \/ ~(s < task[j].at)
      BY <1>2, <2>4, <2>6
    <3>3. \A i \in Instants \ {task[j].at} : s < i => failed'[k][i] = failed[k][i]
      BY <1>2, <2>4, <2>6
    <3>4. s < at /\ MaxAttempts <= Total(Since(failed'[k], s)) => s + Window < blocked'[k]
      <4>1. \A i \in Instants : Since(failed'[k], s)[i] <= failed'[k][i]
        BY <2>1 DEF Since
      <4>2. PICK n, l \in Nat : /\ n = Total(failed'[k]) /\ l = Total(Since(failed'[k], s))
                                /\ l <= n
        BY <2>1, <4>1, SinceType, FailuresAreFinite, TotalGrows
      <4>3. MaxAttempts <= l => blocked'[k] = at + LockFor
        BY <1>3, <2>6, <4>2
      <4>4. \A x, y, w, v \in Nat : x < y /\ w <= v => x + w < y + v
        OBVIOUS
      <4>5. s < at => s + Window < at + LockFor
        BY <1>3, <4>4, Tables
      <4>6. QED
        BY <4>2, <4>3, <4>5
    <3>5. s < task[j].at /\ MaxAttempts <= Total(Since(failed'[k], s)) => s + Window < blocked'[k]
      BY <1>2, <3>4
    <3>6. QED
      BY <2>1, <2>2, <2>3, <3>1, <3>2, <3>3, <3>5, Tables, RoundsOfFailure
  <2>7. QED
    BY <1>5, <2>5, <2>6
<1>8. QED
  BY <1>1, <1>6, <1>7 DEF BInv

\* A login is let in only where neither its account nor its source is locked.
LEMMA BeginRounds ==
  ASSUME AccountsAssumption, TypeOK, TypeOK', BInv, NEW j \in Tasks, NEW b \in Browsers,
         NEW u \in Users, NEW right \in BOOLEAN, LoginBegin(j, b, u, right)
  PROVE  BInv'
<1>1. /\ now' = now /\ task[j] = Free
      /\ failed' = Recent(now) /\ blocked' = Blocked(now)
      /\ \A i \in Tasks \ {j} : task'[i] = task[i]
      /\ \/ task'[j] = Free
         \/ /\ MayTry(u, b) /\ task'[j] # Free
            /\ task'[j].user = u /\ task'[j].by = b /\ task'[j].at = now
  BY Tables DEF LoginBegin
<1>2. \A k \in Keys :
        /\ failed'[k] = [i \in Instants |-> IF i + Window <= now THEN 0 ELSE failed[k][i]]
        /\ blocked'[k] = IF blocked[k] <= now THEN Never ELSE blocked[k]
  BY <1>1 DEF Recent, Blocked
<1>3. ASSUME NEW k \in Keys, NEW i \in Instants, now < i
      PROVE  failed'[k][i] = 0
  <2>1. failed[k][i] = 0
    BY <1>3 DEF BInv, Past
  <2>2. QED
    BY <1>2, <2>1
<1>4. Past'
  <2>1. ASSUME NEW i \in Tasks, task'[i] # Free
        PROVE  task'[i].at <= now
    <3>1. CASE i = j
      BY <1>1, <2>1, <3>1, Tables
    <3>2. CASE i # j
      BY <1>1, <2>1, <3>2 DEF BInv, Past
    <3>3. QED
      BY <3>1, <3>2
  <2>2. QED
    BY <1>1, <1>3, <2>1 DEF Past
<1>5. ASSUME NEW k \in Keys, NEW s \in Nat, now <= s + Window
      PROVE  Rounds(task', failed'[k], k, s, blocked'[k])
  <2>1. failed[k] \in [Instants -> Nat] /\ failed'[k] \in [Instants -> Nat] /\ blocked[k] \in Nat
    BY Tables
  <2>2. Rounds(task, failed[k], k, s, blocked[k])
    BY <1>5 DEF BInv
  <2>3. \A i \in Instants : s < i => failed'[k][i] = failed[k][i]
    <3>1. \A i, x, z, w \in Nat : z <= x + w /\ x < i => ~(i + w <= z)
      OBVIOUS
    <3>2. \A i \in Instants : s < i => ~(i + Window <= now)
      BY <1>5, <3>1, Tables DEF Instants
    <3>3. QED
      BY <1>2, <3>2
  <2>4. CASE Carries(task, task', k)
    <3>1. \A i \in Instants : s < i => failed'[k][i] <= failed[k][i]
      BY <2>1, <2>3
    <3>2. s + Window < blocked[k] => s + Window < blocked'[k]
      <4>1. \A x, z, w, d \in Nat : z <= x + w /\ x + w < d => ~(d <= z)
        OBVIOUS
      <4>2. s + Window < blocked[k] => ~(blocked[k] <= now)
        BY <1>5, <2>1, <4>1, Tables
      <4>3. QED
        BY <1>2, <4>2
    <3>3. QED
      BY <2>1, <2>2, <2>4, <3>1, <3>2, Tables, RoundsStay
  <2>5. CASE ~Carries(task, task', k)
    <3>1. task'[j] # Free /\ k \in {u, b} /\ MayTry(u, b) /\ task'[j].at = now
      BY <1>1, <2>5 DEF Carries, Trying
    <3>2. blocked[k] <= now
      <4>1. Blocked(now)[k] = Never
        BY <3>1 DEF MayTry
      <4>2. blocked[k] = 0 \/ blocked[k] <= now
        BY <4>1 DEF Blocked, Never
      <4>3. QED
        BY <2>1, <4>2, Tables
    <3>3. ~(s + Window < blocked[k])
      <4>1. \A x, z, w, d \in Nat : z <= x + w /\ d <= z => ~(x + w < d)
        OBVIOUS
      <4>2. QED
        BY <1>5, <2>1, <3>2, <4>1, Tables
    <3>4. CASE s < now
      <4>1. task[j] = Free /\ \A i \in Tasks \ {j} : task'[i] = task[i]
        BY <1>1
      <4>2. task'[j] # Free /\ s < task'[j].at
        BY <3>1, <3>4
      <4>3. PICK tk, tl \in [Tasks -> {Free} \cup Pending] : tk = task /\ tl = task'
        BY Tables
      <4>4. PICK f, g \in [Instants -> Nat], end, till \in Nat :
              /\ f = failed[k] /\ g = failed'[k]
              /\ end = blocked[k] /\ till = blocked'[k]
        BY <2>1, Tables
      <4>5. tk[j] = Free /\ \A i \in Tasks \ {j} : tl[i] = tk[i]
        BY <4>1, <4>3
      <4>6. tl[j] # Free /\ s < tl[j].at
        BY <4>2, <4>3
      <4>7. Rounds(tk, f, k, s, end)
        BY <2>2, <4>3, <4>4
      <4>8. ~(s + Window < end) /\ \A i \in Instants : s < i => g[i] = f[i]
        BY <2>3, <3>3, <4>4
      <4>9. Rounds(tl, g, k, s, till)
        BY <4>5, <4>6, <4>7, <4>8, RoundsOfLogin
      <4>10. QED
        BY <4>3, <4>4, <4>9
    <3>5. CASE ~(s < now)
      <4>1. \A i \in Instants : s < i => failed'[k][i] = 0
        BY <1>3, <3>5, Tables DEF Instants
      <4>2. QED
        BY <2>1, <4>1, Tables, RoundsOfNone
    <3>6. QED
      BY <3>4, <3>5
  <2>6. QED
    BY <2>4, <2>5
<1>6. QED
  BY <1>1, <1>4, <1>5 DEF BInv

LEMMA NextRounds ==
  ASSUME AccountsAssumption, Window <= LockFor, TypeOK, TypeOK', BInv, Next
  PROVE  BInv'
<1>1. UNCHANGED <<now, limiter, task>> \/ Tick => BInv'
  <2>1. ASSUME UNCHANGED <<now, limiter, task>> \/ Tick
        PROVE  Quiet
    BY <2>1, Tables DEF Quiet, Tick, web, limiter
  <2>2. QED
    BY <2>1, QuietStep
<1>2. ASSUME NEW k \in Tasks, NEW b \in Browsers, NEW kind \in {"request", "logout"},
             RequestBegin(k, b, kind)
      PROVE  BInv'
  <2>1. Quiet
    <3>1. /\ now' = now /\ failed' = failed /\ blocked' = blocked
          /\ \A j \in Tasks \ {k} : task'[j] = task[j]
          /\ task'[k].kind = kind /\ task'[k].at = now
      BY <1>2, Tables DEF RequestBegin, web, limiter
    <3>2. QED
      BY <3>1, Tables DEF Quiet
  <2>2. QED
    BY <2>1, QuietStep
<1>3. ASSUME NEW k \in Tasks, NEW u \in Users, DeactivateBegin(k, u)
      PROVE  BInv'
  <2>1. Quiet
    <3>1. /\ now' = now /\ failed' = failed /\ blocked' = blocked
          /\ \A j \in Tasks \ {k} : task'[j] = task[j]
          /\ task'[k].kind = "deactivate" /\ task'[k].at = now
      BY <1>3, Tables DEF DeactivateBegin, web, limiter
    <3>2. QED
      BY <3>1, Tables DEF Quiet
  <2>2. QED
    BY <2>1, QuietStep
<1>4. ASSUME NEW k \in Tasks, task[k] # Free, Touch(k) \/ Logout(k) \/ DeactivateEnd(k)
      PROVE  BInv'
  <2>1. Quiet
    <3>1. /\ now' = now /\ failed' = failed /\ blocked' = blocked
          /\ \A j \in Tasks \ {k} : task'[j] = task[j]
      BY <1>4, Tables DEF Touch, Logout, DeactivateEnd, web, limiter
    <3>2. task'[k] = Free \/ task'[k] = [task[k] EXCEPT !.kind = "leaving"]
      BY <1>4, Tables DEF Touch, Logout, DeactivateEnd, After
    <3>3. task[k] \in Pending /\ task[k].at <= now
      BY <1>4, TaskType DEF BInv, Past
    <3>4. task'[k] # Free => task'[k].kind # "login" /\ task'[k].at <= now
      BY <3>2, <3>3 DEF Pending
    <3>5. QED
      BY <3>1, <3>4, Tables DEF Quiet
  <2>2. QED
    BY <2>1, QuietStep
<1>5. ASSUME Crash \/ Restore
      PROVE  BInv'
  <2>1. /\ now' = now /\ failed' = [k \in Keys |-> [i \in Instants |-> 0]]
        /\ \A j \in Tasks : task'[j] # Free => task'[j] = task[j]
    BY <1>5 DEF Crash, Restore
  <2>2. QED
    BY <2>1, ClearedStep
<1>6. ASSUME NEW k \in Tasks, Handler(k)
      PROVE  BInv'
  BY <1>4, <1>6, FailsRounds, SucceedsRounds DEF Handler
<1>7. ASSUME NEW b \in Browsers, NEW fits \in BOOLEAN, Refuse(b) \/ LoginPage(b, fits)
      PROVE  BInv'
  BY <1>1, <1>7 DEF Refuse, LoginPage, web
<1>8. ASSUME NEW u \in Users, NEW role \in Roles, ResetPassword(u) \/ CreateUser(u, role)
      PROVE  BInv'
  BY <1>1, <1>8 DEF ResetPassword, CreateUser, web
<1>9. ASSUME NEW u \in Users, ResetPassword(u)
      PROVE  BInv'
  BY <1>1, <1>9 DEF ResetPassword, web
<1>10. ASSUME NEW cutoff \in Instants, Purge(cutoff)
      PROVE  BInv'
  BY <1>1, <1>10 DEF Purge, web
<1>11. Backup => BInv'
  BY <1>1 DEF Backup, web
<1>12. ASSUME NEW b \in Browsers, Refuse(b)
      PROVE  BInv'
  BY <1>1, <1>12 DEF Refuse, web
<1>13. QED
  BY <1>1, <1>2, <1>3, <1>5, <1>6, <1>7, <1>8, <1>9, <1>10, <1>11, <1>12, BeginRounds DEF Next

LEMMA SameRounds ==
  ASSUME BInv, UNCHANGED vars
  PROVE  BInv'
BY DEF BInv, Past, vars, web, limiter

LEMMA InitRounds ==
  ASSUME AccountsAssumption, TypeOK, Init
  PROVE  BInv
<1>1. /\ \A k \in Keys, i \in Instants : failed[k][i] = 0
      /\ \A j \in Tasks : task[j] = Free
  BY DEF Init
<1>2. /\ task \in [Tasks -> {Free} \cup Pending]
      /\ \A k \in Keys : failed[k] \in [Instants -> Nat]
  BY DEF TypeOK
<1>3. \A k \in Keys, s \in Nat : Rounds(task, failed[k], k, s, blocked[k])
  BY <1>1, <1>2, RoundsOfNone
<1>4. QED
  BY <1>1, <1>3 DEF BInv, Past

\* What counts now is of the logins since the beginning of the window.
LEMMA RoundsAreFew ==
  ASSUME AccountsAssumption, TypeOK, BInv
  PROVE  AttemptsAreBounded
<1>1. PICK n \in Nat : n = Cardinality(Tasks)
  BY FS_CardinalityType DEF AccountsAssumption
<1>2. PICK s \in Nat : /\ now <= s + Window
                       /\ \A i \in Instants : ~(s < i) => i + Window <= now
  <2>1. now \in Nat /\ Window \in Nat /\ Instants \subseteq Nat \ {0}
    BY Clock, Limits DEF Instants
  <2>2. CASE Window <= now
    <3>1. now - Window \in Nat /\ now <= (now - Window) + Window
      BY <2>1, <2>2
    <3>2. \A i \in Instants : ~(now - Window < i) => i + Window <= now
      BY <2>1, <2>2
    <3>3. QED
      BY <3>1, <3>2
  <2>3. CASE ~(Window <= now)
    <3>1. now <= 0 + Window /\ \A i \in Instants : 0 < i
      BY <2>1, <2>3
    <3>2. QED
      BY <3>1
  <2>4. QED
    BY <2>2, <2>3
<1>3. ASSUME NEW k \in Keys
      PROVE  Total(Recent(now)[k]) <= MaxAttempts - 1 + (n * (n + 1)) \div 2
  <2>1. failed[k] \in [Instants -> Nat] /\ task \in [Tasks -> {Free} \cup Pending]
    BY DEF TypeOK
  <2>2. /\ Recent(now)[k] \in [Instants -> Nat]
        /\ \A i \in Instants : Recent(now)[k][i] = IF i + Window <= now THEN 0 ELSE failed[k][i]
    BY <2>1 DEF Recent
  <2>3. \A i \in Instants : Recent(now)[k][i] <= Since(failed[k], s)[i]
    BY <1>2, <2>1, <2>2 DEF Since
  <2>4. PICK t, f \in Nat : /\ t = Total(Recent(now)[k]) /\ f = Total(Since(failed[k], s))
                           /\ t <= f
    BY <2>1, <2>2, <2>3, SinceType, FailuresAreFinite, TotalGrows
  <2>5. PICK r, m \in Nat : /\ r = Cardinality(Young(task, k, s))
                           /\ m = Cardinality(Tasks \ Old(task, k, s))
    BY <2>1, Numbers
  <2>6. m <= n
    <3>1. Tasks \ Old(task, k, s) \subseteq Tasks /\ IsFiniteSet(Tasks)
      BY DEF AccountsAssumption
    <3>2. QED
      BY <1>1, <2>5, <3>1, FS_Subset
  <2>7. Fits(f, r, m, s + Window, blocked[k])
    BY <1>2, <2>4, <2>5 DEF BInv, Rounds
  <2>8. PICK x, y \in Nat : x = Most(m) /\ y = Most(n) /\ x <= y
    BY <2>6, MostGrows
  <2>9. 2 * (f + r) <= y
    BY <2>7, <2>8 DEF Fits
  <2>10. PICK p \in Nat : p = n * (n + 1)
    OBVIOUS
  <2>11. MaxAttempts \in Nat /\ y = 2 * (MaxAttempts - 1) + p
    BY <2>8, <2>10, Limits DEF Most
  <2>12. \A a, b, c, d \in Nat : 2 * (b + c) <= 2 * (a - 1) + d => b <= a - 1 + d \div 2
    OBVIOUS
  <2>13. f <= MaxAttempts - 1 + p \div 2
    BY <2>9, <2>11, <2>12
  <2>14. QED
    BY <2>4, <2>10, <2>11, <2>13
<1>4. QED
  BY <1>1, <1>3 DEF AttemptsAreBounded

\* Where a lock lasts as long as the window, so few failures count for an account
\* or an address within one, whatever logins were being hashed beside each other
\* when LoginRateLimiter locked it: for any number of tasks, browsers and users.
THEOREM AttemptsBounded ==
  ASSUME AccountsAssumption
  PROVE  Spec => []AttemptsAreBounded
<1>1. Window \in Nat /\ LockFor \in Nat
  BY Limits
<1>2. CASE Window <= LockFor
  <2>1. IInv /\ Init => BInv
    BY InitRounds DEF IInv
  <2>2. IInv /\ IInv' /\ BInv /\ [Next]_vars => BInv'
    BY <1>2, NextRounds, SameRounds DEF IInv
  <2>3. IInv /\ BInv => AttemptsAreBounded
    BY RoundsAreFew DEF IInv
  <2>4. QED
    BY <2>1, <2>2, <2>3, Inductive, PTL DEF Spec
<1>3. CASE ~(Window <= LockFor)
  <2>1. AttemptsAreBounded
    BY <1>1, <1>3 DEF AttemptsAreBounded
  <2>2. QED
    BY <2>1, PTL
<1>4. QED
  BY <1>2, <1>3
=============================================================================
