--------------------------- MODULE AccountsProofs ---------------------------
(***************************************************************************)
(* Proofs of the safety properties of module Accounts, for any users,      *)
(* handlers, lifetimes and bounds.                                         *)
(***************************************************************************)
EXTENDS Accounts, TLAPS

\* What handler arguments r rely on at a step, given the rows: a new row is the
\* one the sign-up asks for; from then on it exists, with that role; a session
\* was granted to an approved account, a decision is about a pending one; the
\* administrator to be removed is one, and some were counted as remaining.
Relies(rows, r, step) ==
  /\ step = "create" => r.row = Row(r.role, InitialStatus(r.role))
  /\ step \notin {"idle", "create"} => rows[r.user].status # "absent"
  /\ step \in {"details", "status"} =>
       /\ rows[r.user].role = r.role
       /\ r.row.status = InitialStatus(r.role)
  /\ step = "session" => r.row.status = "approved"
  /\ step = "decide" => r.row.status = "pending" /\ r.decision \in {"approved", "rejected"}
  /\ step \in {"count", "remove"} => rows[r.user].role = "admin"
  /\ step = "remove" =>
       /\ r.others # {}
       /\ \A x \in r.others : rows[x].role = "admin" /\ rows[x].status # "absent"

HandlersInv == \A p \in Requests : Relies(users, req[p], pc[p])

\* An account that is not there was not decided about, and has no session.
AbsentInv ==
  \A u \in Users :
    users[u].status = "absent" => users[u].approvedBy = None /\ users[u].refresh = 0

\* An account that was decided about is pending only where a write was late.
DecidedInv ==
  \A u \in Users :
    (users[u].approvedBy # None /\ users[u].role # "admin" /\ users[u].status = "pending")
      => Raced(u, {"status"})

IInv ==
  /\ TypeOK
  /\ HandlersInv
  /\ AbsentInv
  /\ DecidedInv
  /\ SessionNeedsApproval
  /\ ResetEndsSessions
  /\ LockoutNeedsOverlap
  /\ DriverIsOfferable

-----------------------------------------------------------------------------
(* Rows and handlers                                                       *)

\* Rows stay, and keep their roles.
Stay(rows, later) ==
  \A u \in Users : rows[u].status # "absent" =>
    later[u].status # "absent" /\ later[u].role = rows[u].role

\* What a handler relies on is not taken away by others while rows stay.
LEMMA RelianceStays ==
  ASSUME NEW rows, NEW later, Stay(rows, later), NEW r, NEW step,
         r.others \subseteq Users, step # "idle" => r.user \in Users, Relies(rows, r, step)
  PROVE  Relies(later, r, step)
BY DEF Stay, Relies

LEMMA RolesAreRoles ==
  ASSUME NEW role \in Roles
  PROVE  Row(role, InitialStatus(role)) \in Rows
BY Lifetimes DEF Row, InitialStatus, Rows, Status

LEMMA NoRowIsRow == NoRow \in Rows /\ NoRow.status = "absent" /\ NoRow.approvedBy = None
                    /\ NoRow.refresh = 0 /\ NoRow.role = "buyer"
BY Lifetimes DEF NoRow, Row, Rows, Status, Roles

LEMMA NoRequestIsRequest == NoRequest \in Arguments
BY NoRowIsRow DEF NoRequest, Arguments, Kinds, Roles

\* A handler that goes on or ends, the rows untouched.
LEMMA ContinueType ==
  ASSUME TypeOK, NEW p \in Requests, NEW step, Continue(p, step),
         step \in {"idle", "status", "details", "audit"},
         step # "idle" => req[p].user \in Users
  PROVE  /\ pc' \in [Requests -> {"idle", "create", "details", "status", "session", "logout",
                                  "reset", "decide", "count", "remove", "audit"}]
         /\ req' \in [Requests -> Arguments]
         /\ \A q \in Requests : pc'[q] # "idle" => req'[q].user \in Users
BY NoRequestIsRequest DEF TypeOK, Continue

\* The handlers other than p keep what they rely on, and p has what it needs.
LEMMA OthersRely ==
  ASSUME TypeOK, HandlersInv, NEW p \in Requests, Stay(users, users'),
         \A q \in Requests \ {p} : req'[q] = req[q] /\ pc'[q] = pc[q],
         Relies(users', req'[p], pc'[p])
  PROVE  HandlersInv'
<1> SUFFICES ASSUME NEW q \in Requests PROVE Relies(users', req'[q], pc'[q])
  BY DEF HandlersInv
<1>1. CASE q = p
  BY <1>1
<1>2. CASE q # p
  <2>1. req[q].others \subseteq Users /\ (pc[q] # "idle" => req[q].user \in Users)
    BY DEF TypeOK, Arguments
  <2>2. Relies(users, req[q], pc[q])
    BY DEF HandlersInv
  <2>3. Relies(users', req[q], pc[q])
    BY <2>1, <2>2, RelianceStays
  <2>4. QED
    BY <1>2, <2>3
<1>3. QED
  BY <1>1, <1>2

LEMMA IdleReliesOnNothing ==
  ASSUME NEW rows, NEW r
  PROVE  Relies(rows, r, "idle")
BY DEF Relies

\* Where the rows and what has raced stay as they are.
LEMMA SameRows ==
  ASSUME IInv, users' = users, raced' = raced
  PROVE  /\ AbsentInv' /\ DecidedInv' /\ SessionNeedsApproval' /\ ResetEndsSessions'
         /\ LockoutNeedsOverlap'
BY DEF IInv, AbsentInv, DecidedInv, SessionNeedsApproval, ResetEndsSessions,
  LockoutNeedsOverlap, Raced, ActiveAdmins

\* A driver without details is still one the same handlers or failures answer for.
LEMMA SameDrivers ==
  ASSUME IInv, NEW p \in Requests, pc[p] # "details",
         \A u \in Users : /\ users'[u].role = users[u].role
                          /\ users'[u].details = users[u].details
                          /\ users[u].status = "absent" => users'[u].status = "absent",
         \A q \in Requests \ {p} : req'[q] = req[q] /\ pc'[q] = pc[q],
         failed \subseteq failed'
  PROVE  DriverIsOfferable'
BY DEF IInv, DriverIsOfferable

-----------------------------------------------------------------------------
(* Handlers start                                                          *)

LEMMA StartIInv ==
  ASSUME IInv, NEW p \in Requests, NEW r \in Arguments, r.user \in Users,
         NEW step \in {"create", "session", "logout", "reset", "decide", "count"},
         Relies(users, r, step), Start(p, r, step),
         UNCHANGED <<users, session, trail, history, failures>>
  PROVE  IInv'
<1> USE DEF Start, session, history
<1>1. TypeOK'
  BY NatBounds DEF IInv, TypeOK
<1>2. HandlersInv'
  <2>1. Stay(users, users')
    BY DEF Stay
  <2>2. req'[p] = r /\ pc'[p] = step
    BY DEF IInv, TypeOK
  <2>3. \A q \in Requests \ {p} : req'[q] = req[q] /\ pc'[q] = pc[q]
    BY DEF IInv, TypeOK
  <2>4. QED
    BY <2>1, <2>2, <2>3, OthersRely DEF IInv
<1>3. DriverIsOfferable'
  BY SameDrivers DEF IInv, TypeOK
<1>4. QED
  BY <1>1, <1>2, <1>3, SameRows DEF IInv

LEMMA SignUpIInv ==
  ASSUME IInv, NEW p \in Requests, NEW u \in Users, NEW role \in Roles, NEW kind \in Kinds,
         NEW by \in Users \cup {None}, SignUp(p, u, role, kind, by)
  PROVE  IInv'
<1> DEFINE r == [NoRequest EXCEPT !.kind = kind, !.user = u, !.by = by, !.role = role,
                                  !.row = Row(role, InitialStatus(role))]
<1>1. r \in Arguments /\ r.user = u /\ r.role = role /\ r.row = Row(role, InitialStatus(role))
  BY RolesAreRoles, NoRequestIsRequest DEF Arguments
<1>2. Relies(users, r, "create")
  BY <1>1 DEF Relies
<1> HIDE DEF r
<1>3. Start(p, r, "create") /\ UNCHANGED <<users, session, trail, history, failures>>
  BY DEF SignUp, r
<1>4. QED
  BY <1>1, <1>2, <1>3, StartIInv

\* The other handlers have read the row of the user they are about.
LEMMA ReadIInv ==
  ASSUME IInv, NEW p \in Requests, NEW u \in Users,
         NEW r, NEW step \in {"session", "logout", "reset", "decide", "count"},
         r \in Arguments, r.user = u, r.row = users[u], users[u].status # "absent",
         step = "decide" => users[u].status = "pending" /\ r.decision # "pending",
         step = "session" => users[u].status = "approved",
         step = "count" => users[u].role = "admin",
         Start(p, r, step), UNCHANGED <<users, session, trail, history, failures>>
  PROVE  IInv'
<1>1. Relies(users, r, step)
  BY DEF Relies, Arguments
<1>2. QED
  BY <1>1, StartIInv

-----------------------------------------------------------------------------
(* Sign-ups                                                                *)

LEMMA CreateIInv ==
  ASSUME IInv, NEW p \in Requests, Create(p)
  PROVE  IInv'
<1> DEFINE u == req[p].user
<1>1. /\ pc[p] = "create" /\ u \in Users /\ req[p] \in Arguments
      /\ req[p].row = Row(req[p].role, InitialStatus(req[p].role)) /\ req[p].role \in Roles
      /\ req[p].row \in Rows
  BY DEF Create, IInv, TypeOK, HandlersInv, Relies, Arguments
<1>2. \A q \in Requests \ {p} : req'[q] = req[q] /\ pc'[q] = pc[q]
  BY DEF Create, Continue, IInv, TypeOK
<1>3. CASE users[u].status = "absent"
  <2> DEFINE step == IF req[p].role = "driver" THEN "details" ELSE "status"
  <2>1. /\ users' = [users EXCEPT ![u] = req[p].row] /\ Continue(p, step)
        /\ UNCHANGED <<session, trail, history, counts>>
    BY <1>3 DEF Create
  <2>2. /\ users'[u].status # "absent" /\ users'[u].role = req[p].role
        /\ users'[u].refresh = 0 /\ users'[u].approvedBy = None
        /\ users'[u].status \in {"approved", "pending"}
        /\ req[p].row.status = InitialStatus(req[p].role)
    BY <1>1, <2>1 DEF IInv, TypeOK, Row, InitialStatus
  <2>3. \A v \in Users \ {u} : users'[v] = users[v]
    BY <2>1 DEF IInv, TypeOK
  <2>4. req'[p] = req[p] /\ pc'[p] = step
    BY <2>1, <1>1 DEF Continue, IInv, TypeOK
  <2>5. TypeOK'
    <3>1. users' \in [Users -> Rows]
      BY <1>1, <2>1 DEF IInv, TypeOK
    <3>2. QED
      BY <1>1, <2>1, <3>1, ContinueType DEF IInv, TypeOK, session, history, counts
  <2>6. HandlersInv'
    <3>1. Stay(users, users')
      BY <1>3, <2>3 DEF Stay
    <3>2. Relies(users', req'[p], pc'[p])
      BY <2>2, <2>4 DEF Relies
    <3>3. QED
      BY <1>2, <3>1, <3>2, OthersRely DEF IInv
  <2>7. AbsentInv' /\ DecidedInv' /\ SessionNeedsApproval' /\ ResetEndsSessions'
    BY <2>1, <2>2, <2>3 DEF IInv, AbsentInv, DecidedInv, SessionNeedsApproval,
      ResetEndsSessions, Raced, history
  <2>8. LockoutNeedsOverlap'
    <3>1. ActiveAdmins \subseteq ActiveAdmins'
      BY <1>3, <2>3 DEF ActiveAdmins
    <3>2. QED
      BY <2>1, <3>1 DEF IInv, LockoutNeedsOverlap, history
  <2>9. DriverIsOfferable'
    <3> SUFFICES ASSUME NEW v \in Users, users'[v].role = "driver",
                        users'[v].status # "absent", ~users'[v].details
                 PROVE  v \in failed' \/ \E q \in Requests : pc'[q] = "details" /\ req'[q].user = v
      BY DEF DriverIsOfferable
    <3>1. CASE v = u
      BY <3>1, <2>2, <2>4
    <3>2. CASE v # u
      <4>1. v \in failed \/ \E q \in Requests : pc[q] = "details" /\ req[q].user = v
        BY <3>2, <2>3 DEF IInv, DriverIsOfferable
      <4>2. QED
        BY <4>1, <1>1, <1>2, <2>1 DEF history
    <3>3. QED
      BY <3>1, <3>2
  <2>10. QED
    BY <2>5, <2>6, <2>7, <2>8, <2>9 DEF IInv
<1>4. CASE users[u].status # "absent"
  <2>1. /\ users' = users /\ Continue(p, "idle")
        /\ UNCHANGED <<session, trail, history, counts>>
    BY <1>4 DEF Create
  <2>2. TypeOK'
    BY <2>1, ContinueType DEF IInv, TypeOK, session, history, counts
  <2>3. HandlersInv'
    <3>1. Stay(users, users') /\ pc'[p] = "idle"
      BY <2>1 DEF Stay, Continue, IInv, TypeOK
    <3>2. QED
      BY <1>2, <3>1, IdleReliesOnNothing, OthersRely DEF IInv
  <2>4. DriverIsOfferable'
    BY <1>1, <1>2, <2>1, SameDrivers DEF history
  <2>5. QED
    BY <2>1, <2>2, <2>3, <2>4, SameRows DEF IInv, history
<1>5. QED
  BY <1>3, <1>4

LEMMA CreateDetailsIInv ==
  ASSUME IInv, NEW p \in Requests, CreateDetails(p)
  PROVE  IInv'
<1> DEFINE u == req[p].user
<1> USE DEF CreateDetails
<1>1. u \in Users /\ users[u] \in Rows /\ Relies(users, req[p], "details")
  BY DEF IInv, TypeOK, HandlersInv
<1>2. \A q \in Requests \ {p} : req'[q] = req[q] /\ pc'[q] = pc[q]
  BY DEF Continue, IInv, TypeOK
<1>3. req'[p] = req[p] /\ pc'[p] = "status"
  BY DEF Continue, IInv, TypeOK
<1>4. \A v \in Users :
        /\ users'[v].role = users[v].role /\ users'[v].status = users[v].status
        /\ users'[v].refresh = users[v].refresh /\ users'[v].refreshFor = users[v].refreshFor
        /\ users'[v].password = users[v].password
        /\ users'[v].approvedBy = users[v].approvedBy
        /\ users'[v].details = IF v = u THEN TRUE ELSE users[v].details
  BY <1>1 DEF IInv, TypeOK, Rows
<1>5. TypeOK'
  <2>1. users' \in [Users -> Rows]
    BY <1>1 DEF IInv, TypeOK, Rows
  <2>2. QED
    BY <1>1, <2>1, ContinueType DEF IInv, TypeOK, session, history, counts
<1>6. HandlersInv'
  <2>1. Stay(users, users')
    BY <1>4 DEF Stay
  <2>2. Relies(users', req'[p], pc'[p])
    BY <1>1, <1>3, <1>4 DEF Relies
  <2>3. QED
    BY <1>2, <2>1, <2>2, OthersRely DEF IInv
<1>7. AbsentInv' /\ DecidedInv' /\ SessionNeedsApproval' /\ ResetEndsSessions'
  BY <1>4 DEF IInv, AbsentInv, DecidedInv, SessionNeedsApproval, ResetEndsSessions, Raced,
    history
<1>8. LockoutNeedsOverlap'
  <2>1. ActiveAdmins' = ActiveAdmins
    BY <1>4 DEF ActiveAdmins
  <2>2. QED
    BY <2>1 DEF IInv, LockoutNeedsOverlap, history
<1>9. DriverIsOfferable'
  <2> SUFFICES ASSUME NEW v \in Users, users'[v].role = "driver",
                      users'[v].status # "absent", ~users'[v].details
               PROVE  v \in failed' \/ \E q \in Requests : pc'[q] = "details" /\ req'[q].user = v
    BY DEF DriverIsOfferable
  <2>1. v # u
    BY <1>4
  <2>2. v \in failed \/ \E q \in Requests : pc[q] = "details" /\ req[q].user = v
    BY <1>4, <2>1 DEF IInv, DriverIsOfferable
  <2>3. QED
    BY <1>2, <2>1, <2>2 DEF history
<1>10. QED
  BY <1>5, <1>6, <1>7, <1>8, <1>9 DEF IInv

LEMMA SetStatusIInv ==
  ASSUME IInv, NEW p \in Requests, SetStatus(p)
  PROVE  IInv'
<1> DEFINE u      == req[p].user
           role   == req[p].role
           status == IF role = "admin" THEN "approved" ELSE InitialStatus(role)
           step   == IF req[p].kind = "createAdmin" THEN "audit"
                     ELSE IF req[p].kind = "google" /\ status = "approved" THEN "session"
                     ELSE "idle"
<1>1. /\ u \in Users /\ users[u] \in Rows /\ Relies(users, req[p], "status")
      /\ req[p] \in Arguments /\ pc[p] = "status"
  BY DEF SetStatus, IInv, TypeOK, HandlersInv
<1>2. /\ status \in {"approved", "pending"}
      /\ status = "pending" => role # "admin" /\ req[p].row.status = "pending"
      /\ role # "admin" => req[p].row.status = status
      /\ users[u].role = role /\ users[u].status # "absent"
  BY <1>1 DEF Relies, InitialStatus
<1>3. /\ users' = [users EXCEPT ![u].status = status]
      /\ Race(p, u, "status")
      /\ pc' = [pc EXCEPT ![p] = step]
      /\ req' = [req EXCEPT ![p] = IF step = "idle" THEN NoRequest
                                   ELSE [@ EXCEPT !.row = users'[u]]]
      /\ UNCHANGED <<session, trail, failed, counts>>
  BY DEF SetStatus
<1> HIDE DEF status
<1>4. step \in {"audit", "session", "idle"} /\ (step = "session" => status = "approved")
  OBVIOUS
<1> HIDE DEF step
<1>5. \A q \in Requests \ {p} : req'[q] = req[q] /\ pc'[q] = pc[q]
  BY <1>3 DEF IInv, TypeOK
<1>6. \A v \in Users :
        /\ users'[v].role = users[v].role
        /\ users'[v].status = IF v = u THEN status ELSE users[v].status
        /\ users'[v].refresh = users[v].refresh /\ users'[v].refreshFor = users[v].refreshFor
        /\ users'[v].password = users[v].password
        /\ users'[v].approvedBy = users[v].approvedBy
        /\ users'[v].details = users[v].details
  BY <1>1, <1>3 DEF IInv, TypeOK, Rows
<1>7. raced \subseteq raced' /\ (Differs(p, u) => [user |-> u, what |-> "status"] \in raced')
  BY <1>3 DEF Race
<1>8. users' \in [Users -> Rows]
  BY <1>1, <1>2, <1>3 DEF IInv, TypeOK, Rows, Status
<1>9. TypeOK'
  <2>1. req' \in [Requests -> Arguments]
    <3>1. users'[u] \in Rows
      BY <1>1, <1>8
    <3>2. [req[p] EXCEPT !.row = users'[u]] \in Arguments
      BY <1>1, <3>1 DEF Arguments
    <3>3. QED
      BY <1>3, <3>2, NoRequestIsRequest DEF IInv, TypeOK
  <2>2. /\ pc' \in [Requests -> {"idle", "create", "details", "status", "session", "logout",
                                 "reset", "decide", "count", "remove", "audit"}]
        /\ \A q \in Requests : pc'[q] # "idle" => req'[q].user \in Users
    <3>1. step # "idle" => req'[p].user = u
      BY <1>1, <1>3 DEF IInv, TypeOK, Arguments
    <3>2. pc'[p] = step
      BY <1>3 DEF IInv, TypeOK
    <3>3. QED
      BY <1>1, <1>3, <1>4, <1>5, <3>1, <3>2 DEF IInv, TypeOK
  <2>3. raced' \subseteq [user : Users, what : {"status", "session", "count", "spelling"}]
    BY <1>1, <1>3 DEF Race, IInv, TypeOK
  <2>4. QED
    BY <1>3, <1>8, <2>1, <2>2, <2>3 DEF IInv, TypeOK, session, counts
<1>10. HandlersInv'
  <2>1. Stay(users, users')
    BY <1>2, <1>6 DEF Stay
  <2>2. /\ pc'[p] = step
        /\ step # "idle" => req'[p].user = u /\ req'[p].row = users'[u]
    BY <1>1, <1>3 DEF IInv, TypeOK, Arguments
  <2>3. Relies(users', req'[p], pc'[p])
    BY <1>1, <1>2, <1>4, <1>6, <2>2 DEF Relies
  <2>4. QED
    BY <1>5, <2>1, <2>3, OthersRely DEF IInv
<1>11. AbsentInv'
  BY <1>2, <1>6 DEF IInv, AbsentInv
<1>12. DecidedInv'
  <2> SUFFICES ASSUME NEW v \in Users, users'[v].approvedBy # None, users'[v].role # "admin",
                      users'[v].status = "pending"
               PROVE  [user |-> v, what |-> "status"] \in raced'
    BY DEF DecidedInv, Raced
  <2>1. CASE v = u /\ ~Differs(p, u)
    BY <2>1, <1>2, <1>6, <1>7 DEF Differs, IInv, DecidedInv, Raced
  <2>2. CASE v # u
    BY <2>2, <1>6, <1>7 DEF IInv, DecidedInv, Raced
  <2>3. QED
    BY <2>1, <2>2, <1>7
<1>13. SessionNeedsApproval'
  <2> SUFFICES ASSUME NEW v \in Users, users'[v].refresh > 0, users'[v].status # "approved"
               PROVE  Raced(v, {"session", "status"})'
    BY DEF SessionNeedsApproval
  <2>1. CASE v = u /\ Differs(p, u)
    BY <2>1, <1>7 DEF Raced
  <2>2. CASE v = u /\ ~Differs(p, u)
    BY <2>2, <1>2, <1>6, <1>7 DEF Differs, IInv, SessionNeedsApproval, Raced
  <2>3. CASE v # u
    BY <2>3, <1>6, <1>7 DEF IInv, SessionNeedsApproval, Raced
  <2>4. QED
    BY <2>1, <2>2, <2>3
<1>14. ResetEndsSessions'
  BY <1>6, <1>7 DEF IInv, ResetEndsSessions, Raced
<1>15. LockoutNeedsOverlap'
  <2>1. ActiveAdmins \subseteq ActiveAdmins'
    BY <1>2, <1>6 DEF ActiveAdmins
  <2>2. QED
    BY <2>1, <1>7 DEF IInv, LockoutNeedsOverlap
<1>16. DriverIsOfferable'
  BY <1>1, <1>2, <1>3, <1>5, <1>6, SameDrivers
<1>17. QED
  BY <1>9, <1>10, <1>11, <1>12, <1>13, <1>14, <1>15, <1>16 DEF IInv

-----------------------------------------------------------------------------
(* Statements after which a handler ends, or only logs                     *)

\* Rows keep their roles, and none appears or goes.
Keep(rows, later) ==
  \A v \in Users : /\ later[v].role = rows[v].role
                   /\ later[v].details = rows[v].details
                   /\ later[v].status = "absent" <=> rows[v].status = "absent"

LEMMA EndIInv ==
  ASSUME IInv, NEW p \in Requests, NEW step \in {"idle", "audit"}, Continue(p, step),
         pc[p] \notin {"idle", "create", "details"}, Keep(users, users'), failed' = failed
  PROVE  HandlersInv' /\ DriverIsOfferable'
<1>1. \A q \in Requests \ {p} : req'[q] = req[q] /\ pc'[q] = pc[q]
  BY DEF Continue, IInv, TypeOK
<1>2. pc'[p] = step /\ (step = "audit" => req'[p] = req[p])
  BY DEF Continue, IInv, TypeOK
<1>3. req[p].user \in Users /\ Relies(users, req[p], pc[p])
  BY DEF IInv, TypeOK, HandlersInv
<1>4. Stay(users, users')
  BY DEF Keep, Stay
<1>5. Relies(users', req'[p], pc'[p])
  BY <1>2, <1>3 DEF Relies, Keep
<1>6. QED
  BY <1>1, <1>4, <1>5, OthersRely, SameDrivers DEF IInv, Keep

LEMMA OpenSessionIInv ==
  ASSUME IInv, NEW p \in Requests, OpenSession(p)
  PROVE  IInv'
<1> DEFINE u == req[p].user
<1> USE DEF OpenSession
<1>1. /\ u \in Users /\ users[u] \in Rows /\ req[p].row \in Rows
      /\ req[p].row.status = "approved" /\ users[u].status # "absent"
  BY DEF IInv, TypeOK, HandlersInv, Relies, Arguments
<1>2. \A v \in Users :
        /\ users'[v].role = users[v].role /\ users'[v].status = users[v].status
        /\ users'[v].details = users[v].details /\ users'[v].password = users[v].password
        /\ users'[v].approvedBy = users[v].approvedBy
        /\ v = u => users'[v].refreshFor = req[p].row.password
        /\ v # u => users'[v] = users[v]
  BY <1>1 DEF IInv, TypeOK, Rows
<1>3. raced \subseteq raced' /\ (Differs(p, u) => [user |-> u, what |-> "session"] \in raced')
  BY DEF Race
<1>4. TypeOK'
  <2>1. users' \in [Users -> Rows]
    BY <1>1, Lifetimes DEF IInv, TypeOK, Rows
  <2>2. access' \in [Users -> 0 .. AccessTTL]
    BY Lifetimes DEF IInv, TypeOK
  <2>3. raced' \subseteq [user : Users, what : {"status", "session", "count", "spelling"}]
    BY <1>1 DEF Race, IInv, TypeOK
  <2>4. QED
    BY <2>1, <2>2, <2>3, ContinueType DEF IInv, TypeOK, counts
<1>5. HandlersInv' /\ DriverIsOfferable'
  BY <1>2, EndIInv DEF Keep
<1>6. AbsentInv' /\ DecidedInv'
  <2>1. AbsentInv'
    <3> SUFFICES ASSUME NEW v \in Users, users'[v].status = "absent"
                 PROVE  users'[v].approvedBy = None /\ users'[v].refresh = 0
      BY DEF AbsentInv
    <3>1. v # u /\ users'[v] = users[v]
      BY <1>1, <1>2
    <3>2. QED
      BY <3>1 DEF IInv, AbsentInv
  <2>2. DecidedInv'
    BY <1>2, <1>3 DEF IInv, DecidedInv, Raced
  <2>3. QED
    BY <2>1, <2>2
<1>7. SessionNeedsApproval' /\ ResetEndsSessions'
  <2> SUFFICES ASSUME NEW v \in Users, users'[v].refresh > 0
               PROVE  /\ users'[v].status # "approved" => Raced(v, {"session", "status"})'
                      /\ users'[v].refreshFor # users'[v].password => Raced(v, {"session"})'
    BY DEF SessionNeedsApproval, ResetEndsSessions
  <2>1. CASE v # u
    BY <2>1, <1>2, <1>3 DEF IInv, SessionNeedsApproval, ResetEndsSessions, Raced
  <2>2. CASE v = u
    BY <2>2, <1>1, <1>2, <1>3 DEF Differs, Raced
  <2>3. QED
    BY <2>1, <2>2
<1>8. LockoutNeedsOverlap'
  <2>1. ActiveAdmins' = ActiveAdmins
    BY <1>2 DEF ActiveAdmins
  <2>2. QED
    BY <2>1, <1>3 DEF IInv, LockoutNeedsOverlap
<1>9. QED
  BY <1>4, <1>5, <1>6, <1>7, <1>8 DEF IInv

\* A session ends, perhaps with a new password.
LEMMA CloseIInv ==
  ASSUME IInv, NEW p \in Requests, CloseSession(p) \/ SetPassword(p)
  PROVE  IInv'
<1> DEFINE u == req[p].user
<1>1. /\ u \in Users /\ users[u] \in Rows /\ pc[p] \in {"logout", "reset"}
      /\ Continue(p, "idle") /\ UNCHANGED <<session, trail, history, counts>>
  BY DEF CloseSession, SetPassword, IInv, TypeOK
<1>2. users' \in [Users -> Rows]
  BY <1>1, Lifetimes DEF CloseSession, SetPassword, IInv, TypeOK, Rows
<1>3. \A v \in Users :
        /\ users'[v].role = users[v].role /\ users'[v].status = users[v].status
        /\ users'[v].details = users[v].details
        /\ users'[v].approvedBy = users[v].approvedBy
        /\ v = u => users'[v].refresh = 0
        /\ v # u => users'[v] = users[v]
  BY <1>1 DEF CloseSession, SetPassword, IInv, TypeOK, Rows
<1>4. TypeOK'
  BY <1>1, <1>2, ContinueType DEF IInv, TypeOK, session, history, counts
<1>5. HandlersInv' /\ DriverIsOfferable'
  BY <1>1, <1>3, EndIInv DEF Keep, history
<1>6. AbsentInv' /\ DecidedInv' /\ SessionNeedsApproval' /\ ResetEndsSessions'
  BY <1>1, <1>3 DEF IInv, AbsentInv, DecidedInv, SessionNeedsApproval, ResetEndsSessions,
    Raced, history
<1>7. LockoutNeedsOverlap'
  <2>1. ActiveAdmins' = ActiveAdmins
    BY <1>3 DEF ActiveAdmins
  <2>2. QED
    BY <1>1, <2>1 DEF IInv, LockoutNeedsOverlap, history
<1>8. QED
  BY <1>4, <1>5, <1>6, <1>7 DEF IInv

-----------------------------------------------------------------------------
(* Administrators                                                          *)

LEMMA WriteDecisionIInv ==
  ASSUME IInv, NEW p \in Requests, WriteDecision(p)
  PROVE  IInv'
<1> DEFINE u == req[p].user
<1> USE DEF WriteDecision
<1>1. /\ u \in Users /\ users[u] \in Rows /\ req[p] \in Arguments
      /\ users[u].status # "absent" /\ req[p].row.status = "pending"
      /\ req[p].decision \in {"approved", "rejected"}
  BY DEF IInv, TypeOK, HandlersInv, Relies
<1>2. \A v \in Users :
        /\ users'[v].role = users[v].role
        /\ users'[v].details = users[v].details /\ users'[v].password = users[v].password
        /\ users'[v].refresh = users[v].refresh /\ users'[v].refreshFor = users[v].refreshFor
        /\ v = u => users'[v].status = req[p].decision
        /\ v # u => users'[v] = users[v]
  BY <1>1 DEF IInv, TypeOK, Rows
<1>3. raced \subseteq raced' /\ (Differs(p, u) => [user |-> u, what |-> "status"] \in raced')
  BY DEF Race
<1>4. TypeOK'
  <2>1. users' \in [Users -> Rows]
    BY <1>1 DEF IInv, TypeOK, Rows, Arguments, Status
  <2>2. raced' \subseteq [user : Users, what : {"status", "session", "count", "spelling"}]
    BY <1>1 DEF Race, IInv, TypeOK
  <2>3. QED
    BY <1>1, <2>1, <2>2, ContinueType DEF IInv, TypeOK, session, counts
<1>5. HandlersInv' /\ DriverIsOfferable'
  <2>1. Keep(users, users')
    BY <1>1, <1>2 DEF Keep
  <2>2. QED
    BY <2>1, EndIInv
<1>6. AbsentInv' /\ DecidedInv'
  <2>1. AbsentInv'
    <3> SUFFICES ASSUME NEW v \in Users, users'[v].status = "absent"
                 PROVE  users'[v].approvedBy = None /\ users'[v].refresh = 0
      BY DEF AbsentInv
    <3>1. v # u /\ users'[v] = users[v]
      BY <1>1, <1>2
    <3>2. QED
      BY <3>1 DEF IInv, AbsentInv
  <2>2. DecidedInv'
    <3> SUFFICES ASSUME NEW v \in Users, users'[v].approvedBy # None,
                        users'[v].role # "admin", users'[v].status = "pending"
                 PROVE  Raced(v, {"status"})'
      BY DEF DecidedInv
    <3>1. v # u
      BY <1>1, <1>2
    <3>2. Raced(v, {"status"})
      BY <1>2, <3>1 DEF IInv, DecidedInv
    <3>3. QED
      BY <1>3, <3>2 DEF Raced
  <2>3. QED
    BY <2>1, <2>2
<1>7. SessionNeedsApproval'
  <2> SUFFICES ASSUME NEW v \in Users, users'[v].refresh > 0, users'[v].status # "approved"
               PROVE  Raced(v, {"session", "status"})'
    BY DEF SessionNeedsApproval
  <2>1. CASE v = u /\ Differs(p, u)
    BY <2>1, <1>3 DEF Raced
  <2>2. CASE v = u /\ ~Differs(p, u)
    BY <2>2, <1>1, <1>2, <1>3 DEF Differs, IInv, SessionNeedsApproval, Raced
  <2>3. CASE v # u
    BY <2>3, <1>2, <1>3 DEF IInv, SessionNeedsApproval, Raced
  <2>4. QED
    BY <2>1, <2>2, <2>3
<1>8. ResetEndsSessions'
  BY <1>2, <1>3 DEF IInv, ResetEndsSessions, Raced
<1>9. LockoutNeedsOverlap'
  <2>1. CASE Differs(p, u)
    BY <2>1, <1>3 DEF LockoutNeedsOverlap
  <2>2. CASE ~Differs(p, u)
    <3>1. ActiveAdmins \subseteq ActiveAdmins'
      BY <2>2, <1>1, <1>2 DEF Differs, ActiveAdmins
    <3>2. QED
      BY <3>1, <1>3 DEF IInv, LockoutNeedsOverlap
  <2>3. QED
    BY <2>1, <2>2
<1>10. QED
  BY <1>4, <1>5, <1>6, <1>7, <1>8, <1>9 DEF IInv

LEMMA CountAdminsIInv ==
  ASSUME IInv, NEW p \in Requests, CountAdmins(p)
  PROVE  IInv'
<1> DEFINE left == Without(ActiveAdmins, p)
<1> USE DEF history
<1>1. /\ req[p].user \in Users /\ req[p] \in Arguments /\ pc[p] = "count"
      /\ Relies(users, req[p], "count") /\ left \subseteq ActiveAdmins /\ left \subseteq Users
      /\ UNCHANGED <<users, session, trail, history, counts>>
  BY DEF CountAdmins, IInv, TypeOK, HandlersInv, ActiveAdmins, Without
<1>2. CASE left = {}
  <2>1. Continue(p, "idle")
    BY <1>2 DEF CountAdmins
  <2>2. TypeOK'
    BY <1>1, <2>1, ContinueType DEF IInv, TypeOK, session, counts
  <2>3. HandlersInv' /\ DriverIsOfferable'
    BY <1>1, <2>1, EndIInv DEF Keep
  <2>4. QED
    BY <1>1, <2>2, <2>3, SameRows DEF IInv
<1>3. CASE left # {}
  <2>1. pc' = [pc EXCEPT ![p] = "remove"] /\ req' = [req EXCEPT ![p].others = left]
    BY <1>3 DEF CountAdmins
  <2>2. \A q \in Requests \ {p} : req'[q] = req[q] /\ pc'[q] = pc[q]
    BY <2>1 DEF IInv, TypeOK
  <2>3. /\ pc'[p] = "remove" /\ req'[p] \in Arguments /\ req'[p].others = left
        /\ req'[p].user = req[p].user
    BY <1>1, <2>1 DEF IInv, TypeOK, Arguments
  <2>4. TypeOK'
    BY <1>1, <2>1, <2>2, <2>3 DEF IInv, TypeOK, session, counts
  <2>5. HandlersInv'
    <3>1. \A x \in left : users[x].role = "admin" /\ users[x].status # "absent"
      BY <1>1 DEF ActiveAdmins
    <3>2. Relies(users', req'[p], pc'[p])
      BY <1>1, <1>3, <2>3, <3>1 DEF Relies
    <3>3. QED
      BY <1>1, <2>2, <3>2, OthersRely DEF IInv, Stay
  <2>6. DriverIsOfferable'
    BY <1>1, <2>2, SameDrivers
  <2>7. QED
    BY <1>1, <2>4, <2>5, <2>6, SameRows DEF IInv
<1>4. QED
  BY <1>2, <1>3

\* An administrator is removed: those the handler has counted are still there,
\* or it is remembered that one of them was removed.
LEMMA WriteRemovalIInv ==
  ASSUME IInv, NEW p \in Requests, WriteRemoval(p)
  PROVE  IInv'
<1> DEFINE u == req[p].user
<1>1. /\ u \in Users /\ users[u] \in Rows /\ req[p] \in Arguments
      /\ Relies(users, req[p], "remove") /\ req[p].others \subseteq Users
  BY DEF WriteRemoval, IInv, TypeOK, HandlersInv, Arguments
<1>2. \A v \in Users :
        /\ users'[v].role = users[v].role
        /\ users'[v].details = users[v].details
        /\ users'[v].approvedBy = users[v].approvedBy
        /\ v = u => users'[v].refresh = 0 /\ users'[v].status = "rejected"
        /\ v # u => users'[v] = users[v]
  BY <1>1 DEF WriteRemoval, IInv, TypeOK, Rows
<1>3. /\ raced \subseteq raced'
      /\ \A x \in req[p].others :
           /\ users[x].status # "approved" => [user |-> x, what |-> "count"] \in raced'
           /\ x = u => [user |-> x, what |-> "spelling"] \in raced'
  BY DEF WriteRemoval, RaceOfCount
<1>4. TypeOK'
  <2>1. users' \in [Users -> Rows]
    BY <1>1, Lifetimes DEF WriteRemoval, IInv, TypeOK, Rows, Status
  <2>2. raced' \subseteq [user : Users, what : {"status", "session", "count", "spelling"}]
    BY <1>1 DEF WriteRemoval, RaceOfCount, IInv, TypeOK
  <2>3. QED
    BY <1>1, <2>1, <2>2, ContinueType DEF WriteRemoval, IInv, TypeOK, session, counts
<1>5. HandlersInv' /\ DriverIsOfferable'
  <2>1. Keep(users, users')
    BY <1>1, <1>2 DEF Keep, Relies
  <2>2. QED
    BY <2>1, EndIInv DEF WriteRemoval
<1>6. AbsentInv' /\ DecidedInv' /\ SessionNeedsApproval' /\ ResetEndsSessions'
  <2>1. AbsentInv'
    BY <1>1, <1>2 DEF IInv, AbsentInv
  <2>2. DecidedInv'
    BY <1>1, <1>2, <1>3 DEF IInv, DecidedInv, Raced
  <2>3. SessionNeedsApproval' /\ ResetEndsSessions'
    <3> SUFFICES ASSUME NEW v \in Users, users'[v].refresh > 0
                 PROVE  /\ users'[v].status # "approved" => Raced(v, {"session", "status"})'
                        /\ users'[v].refreshFor # users'[v].password => Raced(v, {"session"})'
      BY DEF SessionNeedsApproval, ResetEndsSessions
    <3>1. v # u
      BY <1>1, <1>2
    <3>2. QED
      BY <1>2, <1>3, <3>1 DEF IInv, SessionNeedsApproval, ResetEndsSessions, Raced
  <2>4. QED
    BY <2>1, <2>2, <2>3
<1>7. LockoutNeedsOverlap'
  <2>1. PICK x \in req[p].others : users[x].role = "admin"
    BY <1>1 DEF Relies
  <2>2. CASE x # u /\ users[x].status = "approved"
    BY <1>1, <1>2, <2>1, <2>2 DEF LockoutNeedsOverlap, ActiveAdmins
  <2>3. CASE users[x].status # "approved"
    BY <1>3, <2>1, <2>3 DEF LockoutNeedsOverlap
  <2>4. CASE x = u
    BY <1>3, <2>1, <2>4 DEF LockoutNeedsOverlap
  <2>5. QED
    BY <2>2, <2>3, <2>4
<1>8. QED
  BY <1>4, <1>5, <1>6, <1>7 DEF IInv

LEMMA LogIInv ==
  ASSUME IInv, NEW p \in Requests, Log(p)
  PROVE  IInv'
<1> USE DEF Log, history
<1>1. req[p].user \in Users /\ req[p] \in Arguments
  BY DEF IInv, TypeOK
<1>2. trail' \subseteq Decisions
  BY <1>1 DEF Arguments, Decisions, IInv, TypeOK
<1>3. TypeOK'
  BY <1>1, <1>2, ContinueType DEF IInv, TypeOK, session, counts
<1>4. HandlersInv' /\ DriverIsOfferable'
  BY EndIInv DEF Keep
<1>5. QED
  BY <1>3, <1>4, SameRows DEF IInv

-----------------------------------------------------------------------------
(* Statements of their own, time and failures                              *)

LEMMA BootstrapAdminIInv ==
  ASSUME IInv, NEW u \in Users, BootstrapAdmin(u)
  PROVE  IInv'
<1> USE DEF BootstrapAdmin, history
<1>1. /\ Row("admin", "approved") \in Rows
      /\ users'[u] = Row("admin", "approved") /\ \A v \in Users \ {u} : users'[v] = users[v]
  BY Lifetimes DEF Row, Rows, Roles, Status, IInv, TypeOK
<1>2. /\ users'[u].role = "admin" /\ users'[u].status = "approved"
      /\ users'[u].refresh = 0 /\ users'[u].approvedBy = None
  BY <1>1 DEF Row
<1>3. TypeOK'
  BY <1>1, NatBounds DEF IInv, TypeOK, session
<1>4. HandlersInv'
  <2>1. Stay(users, users')
    BY <1>1 DEF Stay
  <2> SUFFICES ASSUME NEW q \in Requests PROVE Relies(users', req[q], pc[q])
    BY DEF HandlersInv
  <2>2. req[q].others \subseteq Users /\ (pc[q] # "idle" => req[q].user \in Users)
    BY DEF IInv, TypeOK, Arguments
  <2>3. Relies(users, req[q], pc[q])
    BY DEF IInv, HandlersInv
  <2>4. QED
    BY <2>1, <2>2, <2>3, RelianceStays
<1>5. AbsentInv' /\ DecidedInv' /\ SessionNeedsApproval' /\ ResetEndsSessions'
  BY <1>1, <1>2 DEF IInv, AbsentInv, DecidedInv, SessionNeedsApproval, ResetEndsSessions,
    Raced
<1>6. LockoutNeedsOverlap' /\ DriverIsOfferable'
  BY <1>1, <1>2 DEF IInv, LockoutNeedsOverlap, ActiveAdmins, DriverIsOfferable
<1>7. QED
  BY <1>3, <1>4, <1>5, <1>6 DEF IInv

\* Only tokens change.
LEMMA TokensIInv ==
  ASSUME IInv, UNCHANGED <<users, pc, req, trail, history, failures>>,
         access' \in [Users -> 0 .. AccessTTL], reset' \in [Users -> 0 .. ResetTTL],
         started' \in 0 .. MaxHandlers
  PROVE  IInv'
<1> USE DEF history
<1>1. TypeOK'
  BY DEF IInv, TypeOK
<1>2. HandlersInv' /\ DriverIsOfferable'
  BY DEF IInv, HandlersInv, DriverIsOfferable
<1>3. QED
  BY <1>1, <1>2, SameRows DEF IInv

LEMMA TickIInv ==
  ASSUME IInv, Tick
  PROVE  IInv'
<1> USE DEF Tick
<1>1. \A ttl \in Nat : \A n \in 0 .. ttl : Less(n) \in 0 .. ttl /\ (Less(n) > 0 => n > 0)
  BY DEF Less
<1>2. \A v \in Users :
        /\ users'[v] = [users[v] EXCEPT !.refresh = Less(@)]
        /\ users[v] \in Rows
  BY DEF IInv, TypeOK
<1>3. \A v \in Users :
        /\ users'[v].role = users[v].role /\ users'[v].status = users[v].status
        /\ users'[v].details = users[v].details /\ users'[v].password = users[v].password
        /\ users'[v].approvedBy = users[v].approvedBy
        /\ users'[v].refreshFor = users[v].refreshFor
        /\ users'[v].refresh = Less(users[v].refresh)
        /\ users[v].refresh \in 0 .. RefreshTTL
  BY <1>2 DEF Rows
<1>4. \A v \in Users : users'[v].refresh > 0 => users[v].refresh > 0
  BY <1>1, <1>3, Lifetimes
<1>5. TypeOK'
  <2>1. users' \in [Users -> Rows]
    <3>1. \A v \in Users : Less(users[v].refresh) \in 0 .. RefreshTTL
      BY <1>1, <1>3, Lifetimes
    <3>2. \A v \in Users : [users[v] EXCEPT !.refresh = Less(@)] \in Rows
      BY <1>2, <3>1 DEF Rows
    <3>3. QED
      BY <3>2
  <2>2. access' \in [Users -> 0 .. AccessTTL] /\ reset' \in [Users -> 0 .. ResetTTL]
    BY <1>1, Lifetimes DEF IInv, TypeOK
  <2>3. QED
    BY <2>1, <2>2 DEF IInv, TypeOK, counts
<1>6. HandlersInv'
  <2>1. Stay(users, users')
    BY <1>3 DEF Stay
  <2> SUFFICES ASSUME NEW q \in Requests PROVE Relies(users', req[q], pc[q])
    BY DEF HandlersInv
  <2>2. req[q].others \subseteq Users /\ (pc[q] # "idle" => req[q].user \in Users)
    BY DEF IInv, TypeOK, Arguments
  <2>3. Relies(users, req[q], pc[q])
    BY DEF IInv, HandlersInv
  <2>4. QED
    BY <2>1, <2>2, <2>3, RelianceStays
<1>7. AbsentInv' /\ DecidedInv'
  <2>1. AbsentInv'
    BY <1>3 DEF IInv, AbsentInv, Less
  <2>2. DecidedInv'
    BY <1>3 DEF IInv, DecidedInv, Raced
  <2>3. QED
    BY <2>1, <2>2
<1>8. SessionNeedsApproval' /\ ResetEndsSessions'
  BY <1>3, <1>4 DEF IInv, SessionNeedsApproval, ResetEndsSessions, Raced
<1>9. LockoutNeedsOverlap'
  <2>1. ActiveAdmins' = ActiveAdmins
    BY <1>3 DEF ActiveAdmins
  <2>2. QED
    BY <2>1 DEF IInv, LockoutNeedsOverlap
<1>10. DriverIsOfferable'
  BY <1>3 DEF IInv, DriverIsOfferable
<1>11. QED
  BY <1>5, <1>6, <1>7, <1>8, <1>9, <1>10 DEF IInv

LEMMA FailIInv ==
  ASSUME IInv, NEW p \in Requests, Fail(p)
  PROVE  IInv'
<1> USE DEF Fail
<1>1. req[p].user \in Users /\ pc'[p] = "idle"
  BY DEF IInv, TypeOK, Continue
<1>2. \A q \in Requests \ {p} : req'[q] = req[q] /\ pc'[q] = pc[q]
  BY DEF Continue, IInv, TypeOK
<1>3. TypeOK'
  <2>1. failures' \in 0 .. MaxFailures
    BY NatBounds DEF IInv, TypeOK
  <2>2. QED
    BY <1>1, <2>1, ContinueType DEF IInv, TypeOK, session
<1>4. HandlersInv'
  BY <1>1, <1>2, OthersRely, IdleReliesOnNothing DEF IInv, Stay
<1>5. DriverIsOfferable'
  BY <1>1, <1>2 DEF IInv, DriverIsOfferable
<1>6. QED
  BY <1>3, <1>4, <1>5, SameRows DEF IInv

-----------------------------------------------------------------------------
(* All steps                                                               *)

LEMMA InitIInv == Init => IInv
<1> SUFFICES ASSUME Init PROVE IInv
  OBVIOUS
<1>1. \A u \in Users :
        IF u \in Admins
        THEN /\ users[u].role = "admin" /\ users[u].status = "approved"
             /\ users[u].password = 0 /\ users[u].refreshFor = 0
             /\ users[u].approvedBy = None
        ELSE users[u] = NoRow
  BY DEF Init, Row
<1>2. TypeOK
  <2>1. users \in [Users -> Rows]
    <3>1. Row("admin", "approved") \in Rows
      BY Lifetimes DEF Row, Rows, Roles, Status
    <3>2. [Row("admin", "approved") EXCEPT !.refresh = RefreshTTL] \in Rows
      BY <3>1, Lifetimes DEF Rows
    <3>3. QED
      BY <3>2, NoRowIsRow DEF Init
  <2>2. QED
    BY <2>1, Lifetimes, NatBounds, NoRequestIsRequest DEF Init, TypeOK
<1>3. HandlersInv
  BY IdleReliesOnNothing DEF Init, HandlersInv
<1>4. AbsentInv /\ DecidedInv
  BY <1>1, NoRowIsRow DEF AbsentInv, DecidedInv
<1>5. SessionNeedsApproval /\ ResetEndsSessions
  BY <1>1, NoRowIsRow DEF SessionNeedsApproval, ResetEndsSessions
<1>6. LockoutNeedsOverlap
  BY <1>1, SomebodyIsAdmin DEF LockoutNeedsOverlap, ActiveAdmins, Users
<1>7. DriverIsOfferable
  BY <1>1, NoRowIsRow DEF DriverIsOfferable
<1>8. QED
  BY <1>2, <1>3, <1>4, <1>5, <1>6, <1>7 DEF IInv

LEMMA HandleIInv ==
  ASSUME IInv, NEW p \in Requests, Handle(p)
  PROVE  IInv'
BY CreateIInv, CreateDetailsIInv, SetStatusIInv, OpenSessionIInv, CloseIInv,
  WriteDecisionIInv, CountAdminsIInv, WriteRemovalIInv, LogIInv DEF Handle

\* The first step of each handler.
LEMMA BeginIInv ==
  ASSUME IInv, NEW p \in Requests, NEW u \in Users, NEW a \in Users,
         NEW d \in {"approved", "rejected"}, NEW exact \in BOOLEAN,
         \/ Register(p, u) \/ GoogleSignUp(p, u) \/ ScriptAdmin(p, u) \/ CreateAdmin(p, u, a)
         \/ SeedDevAdmin(p)
         \/ Login(p, u) \/ GoogleLogin(p, u) \/ Logout(p, u) \/ ResetPassword(p, u)
         \/ Decide(p, u, a, d) \/ RemoveAdmin(p, u, a, exact)
  PROVE  IInv'
<1>1. \A v \in Users : users[v] \in Rows /\ users[v].refresh \in 0 .. RefreshTTL
  BY DEF IInv, TypeOK, Rows
<1>2. CASE Register(p, u) \/ GoogleSignUp(p, u)
  <2>1. PICK role \in SignUpRoles, kind \in {"register", "google"} :
          SignUp(p, u, role, kind, None)
    BY <1>2 DEF Register, GoogleSignUp
  <2>2. QED
    BY <2>1, SignUpIInv DEF Roles, Kinds
<1>3. CASE ScriptAdmin(p, u) \/ CreateAdmin(p, u, a)
  BY <1>3, SignUpIInv DEF ScriptAdmin, CreateAdmin, Roles, Kinds
<1>4. CASE SeedDevAdmin(p)
  BY <1>4, SignUpIInv DEF SeedDevAdmin, Roles, Kinds, Users
<1>5. CASE Login(p, u) \/ GoogleLogin(p, u)
  <2> DEFINE r == [NoRequest EXCEPT !.kind = "login", !.user = u, !.row = users[u]]
  <2>1. /\ users[u].status = "approved" /\ Start(p, r, "session")
        /\ UNCHANGED <<users, session, trail, history, failures>>
    BY <1>5 DEF Login, GoogleLogin
  <2>2. r \in Arguments /\ r.user = u /\ r.row = users[u]
    BY <1>1, NoRequestIsRequest DEF Arguments, Kinds
  <2> HIDE DEF r
  <2>3. QED
    BY <2>1, <2>2, ReadIInv
<1>6. CASE Logout(p, u)
  <2> DEFINE r == [NoRequest EXCEPT !.kind = "logout", !.user = u, !.row = users[u]]
  <2>1. /\ users[u].refresh > 0 /\ Start(p, r, "logout")
        /\ UNCHANGED <<users, session, trail, history, failures>>
    BY <1>6 DEF Logout
  <2>2. r \in Arguments /\ r.user = u /\ r.row = users[u]
    BY <1>1, NoRequestIsRequest DEF Arguments, Kinds
  <2> HIDE DEF r
  <2>3. users[u].status # "absent"
    BY <2>1, <1>1 DEF IInv, AbsentInv
  <2>4. QED
    BY <2>1, <2>2, <2>3, ReadIInv
<1>7. CASE ResetPassword(p, u)
  <2> DEFINE r == [NoRequest EXCEPT !.kind = "reset", !.user = u, !.row = users[u]]
  <2>1. /\ users[u].status # "absent" /\ Start(p, r, "reset")
        /\ UNCHANGED <<users, session, trail, history, failures>>
    BY <1>7 DEF ResetPassword
  <2>2. r \in Arguments /\ r.user = u /\ r.row = users[u]
    BY <1>1, NoRequestIsRequest DEF Arguments, Kinds
  <2> HIDE DEF r
  <2>3. QED
    BY <2>1, <2>2, ReadIInv
<1>8. CASE Decide(p, u, a, d)
  <2> DEFINE r == [NoRequest EXCEPT !.kind = "decide", !.user = u, !.by = a, !.row = users[u],
                                    !.decision = d]
  <2>1. /\ users[u].status = "pending" /\ Start(p, r, "decide")
        /\ UNCHANGED <<users, session, trail, history, failures>>
    BY <1>8 DEF Decide
  <2>2. r \in Arguments /\ r.user = u /\ r.row = users[u] /\ r.decision = d
    BY <1>1, NoRequestIsRequest DEF Arguments, Kinds
  <2> HIDE DEF r
  <2>3. QED
    BY <2>1, <2>2, ReadIInv
<1>9. CASE RemoveAdmin(p, u, a, exact)
  <2> DEFINE r == [NoRequest EXCEPT !.kind = "remove", !.user = u, !.by = a, !.row = users[u],
                                    !.exact = exact]
  <2>1. /\ users[u].role = "admin" /\ users[u].status # "absent" /\ Start(p, r, "count")
        /\ UNCHANGED <<users, session, trail, history, failures>>
    BY <1>9 DEF RemoveAdmin
  <2>2. r \in Arguments /\ r.user = u /\ r.row = users[u]
    BY <1>1, NoRequestIsRequest DEF Arguments, Kinds
  <2> HIDE DEF r
  <2>3. QED
    BY <2>1, <2>2, ReadIInv
<1>10. QED
  BY <1>2, <1>3, <1>4, <1>5, <1>6, <1>7, <1>8, <1>9

LEMMA NextIInv == IInv /\ [Next]_vars => IInv'
<1> SUFFICES ASSUME IInv, [Next]_vars PROVE IInv'
  OBVIOUS
<1>1. CASE UNCHANGED vars
  <2>1. UNCHANGED <<users, pc, req, trail, history, failures, access, reset, started>>
    BY <1>1 DEF vars, session, counts
  <2>2. QED
    BY <2>1, TokensIInv DEF IInv, TypeOK
<1>2. ASSUME NEW p \in Requests, NEW u \in Others \cup Admins,
             \/ Register(p, u) \/ GoogleSignUp(p, u) \/ ScriptAdmin(p, u)
             \/ Login(p, u) \/ GoogleLogin(p, u) \/ Logout(p, u) \/ ResetPassword(p, u)
             \/ \E a \in Users : CreateAdmin(p, u, a)
             \/ \E a \in Users, exact \in BOOLEAN : RemoveAdmin(p, u, a, exact)
             \/ \E a \in Users, d \in {"approved", "rejected"} : Decide(p, u, a, d)
      PROVE  IInv'
  <2>1. u \in Users
    BY DEF Users
  <2>2. QED
    BY <1>2, <2>1, BeginIInv
<1>3. ASSUME NEW p \in Requests, SeedDevAdmin(p) PROVE IInv'
  <2>1. DevAdmin \in Users
    BY DEF Users
  <2>2. QED
    BY <1>3, <2>1, BeginIInv
<1>4. ASSUME NEW p \in Requests, Handle(p) PROVE IInv'
  BY <1>4, HandleIInv
<1>5. ASSUME NEW p \in Requests, Fail(p) PROVE IInv'
  BY <1>5, FailIInv
<1>6. ASSUME NEW u \in Users, Refresh(u) \/ ForgotPassword(u) PROVE IInv'
  <2>1. /\ access' \in [Users -> 0 .. AccessTTL] /\ reset' \in [Users -> 0 .. ResetTTL]
        /\ started' \in 0 .. MaxHandlers
    BY <1>6, Lifetimes, NatBounds DEF Refresh, ForgotPassword, IInv, TypeOK
  <2>2. QED
    BY <1>6, <2>1, TokensIInv DEF Refresh, ForgotPassword
<1>7. ASSUME NEW u \in Users, BootstrapAdmin(u) PROVE IInv'
  BY <1>7, BootstrapAdminIInv
<1>8. CASE Tick
  BY <1>8, TickIInv
<1>9. QED
  BY <1>1, <1>2, <1>3, <1>4, <1>5, <1>6, <1>7, <1>8 DEF Next

-----------------------------------------------------------------------------
(* Theorems                                                                *)

\* The inductive invariant holds in all behaviours of the accounts.
THEOREM Invariance == Spec => []IInv
<1>1. QED
  BY InitIInv, NextIInv, PTL DEF Spec

\* All variables keep their types.
THEOREM TypeCorrect == Spec => []TypeOK
<1>1. IInv => TypeOK
  BY DEF IInv
<1>2. QED
  BY <1>1, Invariance, PTL

\* A stored refresh token belongs to an approved account, unless a login or the
\* end of a sign-up overlapped with what took the approval away.
THEOREM SessionIsApproved == Spec => []SessionNeedsApproval
<1>1. IInv => SessionNeedsApproval
  BY DEF IInv
<1>2. QED
  BY <1>1, Invariance, PTL

\* A stored refresh token was given for the present password, unless the login
\* overlapped with the reset.
THEOREM ResetIsFinal == Spec => []ResetEndsSessions
<1>1. IInv => ResetEndsSessions
  BY DEF IInv
<1>2. QED
  BY <1>1, Invariance, PTL

\* Some administrator is left, unless removals overlapped or a status was
\* overwritten.
THEOREM AdminIsLeft == Spec => []LockoutNeedsOverlap
<1>1. IInv => LockoutNeedsOverlap
  BY DEF IInv
<1>2. QED
  BY <1>1, Invariance, PTL

\* Every driver has the details the dispatch looks for, or his sign-up is under
\* way or failed.
THEOREM DriversAreOfferable == Spec => []DriverIsOfferable
<1>1. IInv => DriverIsOfferable
  BY DEF IInv
<1>2. QED
  BY <1>1, Invariance, PTL

Final(u) ==
  (users[u].approvedBy # None /\ users[u].role # "admin" /\ users'[u].status # users[u].status)
    => Raced(u, {"status"})'

\* A step that changes a status is a sign-up's, which finds no row or the one
\* it has made, a decision's, about an account that was pending, or a removal's,
\* of an administrator.
LEMMA StepIsFinal ==
  ASSUME IInv, [Next]_vars, NEW u \in Users
  PROVE  Final(u)
<1> SUFFICES ASSUME users[u].approvedBy # None, users[u].role # "admin",
                    users'[u].status # users[u].status
             PROVE  [user |-> u, what |-> "status"] \in raced'
  BY DEF Final, Raced
<1>1. users[u].status # "absent"
  BY DEF IInv, AbsentInv
<1>2. users \in [Users -> Rows]
  BY DEF IInv, TypeOK
<1>3. PICK p \in Requests : Handle(p)
  <2>1. users' # users
    OBVIOUS
  <2>2. ~Tick
    BY <1>2 DEF Tick, Rows
  <2>3. ~BootstrapAdmin(u) /\ \A v \in Users : ~BootstrapAdmin(v)
    BY <1>1, <1>2 DEF BootstrapAdmin
  <2>4. \A p \in Requests, v \in Others \cup Admins :
          /\ ~Register(p, v) /\ ~GoogleSignUp(p, v) /\ ~ScriptAdmin(p, v)
          /\ \A a \in Users : ~CreateAdmin(p, v, a)
    BY <2>1 DEF Register, GoogleSignUp, ScriptAdmin, CreateAdmin, SignUp
  <2>5. \A p \in Requests, v \in Others \cup Admins :
          ~Login(p, v) /\ ~GoogleLogin(p, v) /\ ~Logout(p, v) /\ ~ResetPassword(p, v)
    BY <2>1 DEF Login, GoogleLogin, Logout, ResetPassword
  <2>6. \A p \in Requests, v \in Others \cup Admins, a \in Users :
          /\ \A exact \in BOOLEAN : ~RemoveAdmin(p, v, a, exact)
          /\ \A d \in {"approved", "rejected"} : ~Decide(p, v, a, d)
    BY <2>1 DEF RemoveAdmin, Decide
  <2>7. /\ \A p \in Requests : ~SeedDevAdmin(p) /\ ~Fail(p)
        /\ \A v \in Users : ~Refresh(v) /\ ~ForgotPassword(v)
    BY <2>1 DEF SeedDevAdmin, SignUp, Fail, Refresh, ForgotPassword
  <2>8. Next
    BY <2>1 DEF vars
  <2>9. QED
    BY <2>2, <2>3, <2>4, <2>5, <2>6, <2>7, <2>8 DEF Next
<1>4. SetStatus(p) \/ WriteDecision(p) \/ WriteRemoval(p)
  <2>1. ~Create(p)
    BY <1>1, <1>2 DEF Create
  <2>2. ~CreateDetails(p) /\ ~OpenSession(p) /\ ~CloseSession(p) /\ ~SetPassword(p)
    BY <1>2 DEF CreateDetails, OpenSession, CloseSession, SetPassword, Rows
  <2>3. ~CountAdmins(p) /\ ~Log(p)
    BY DEF CountAdmins, Log
  <2>4. QED
    BY <1>3, <2>1, <2>2, <2>3 DEF Handle
<1>5. req[p].user = u
  BY <1>2, <1>4 DEF SetStatus, WriteDecision, WriteRemoval
<1>6. Relies(users, req[p], pc[p])
  BY DEF IInv, HandlersInv
<1>7. CASE SetStatus(p)
  <2>1. /\ req[p].role # "admin"
        /\ users' = [users EXCEPT ![u].status = req[p].row.status]
        /\ Race(p, u, "status")
    BY <1>5, <1>6, <1>7 DEF SetStatus, Relies
  <2>2. Differs(p, u)
    BY <1>2, <2>1 DEF Differs
  <2>3. QED
    BY <2>1, <2>2 DEF Race
<1>8. CASE WriteDecision(p)
  <2>1. req[p].row.status = "pending" /\ Race(p, u, "status")
    BY <1>5, <1>6, <1>8 DEF WriteDecision, Relies
  <2>2. CASE users[u].status = "pending"
    BY <2>1, <2>2 DEF IInv, DecidedInv, Raced, Race
  <2>3. CASE users[u].status # "pending"
    BY <2>1, <2>3 DEF Race, Differs
  <2>4. QED
    BY <2>2, <2>3
<1>9. CASE WriteRemoval(p)
  BY <1>5, <1>6, <1>9 DEF WriteRemoval, Relies
<1>10. QED
  BY <1>4, <1>7, <1>8, <1>9

\* The status of a farmer or driver about whom an administrator has decided is
\* written again only by a handler that had read the account before.
THEOREM DecisionsAreFinal == Spec => DecisionIsFinal
<1>1. IInv /\ [Next]_vars => \A u \in Users : Final(u)
  BY StepIsFinal
<1>2. (\A u \in Users : Final(u)) =>
        [\A u \in Users :
           (users[u].approvedBy # None /\ users[u].role # "admin"
              /\ users'[u].status # users[u].status) => Raced(u, {"status"})']_vars
  BY DEF Final
<1>3. QED
  BY <1>1, <1>2, Invariance, PTL DEF Spec, DecisionIsFinal
=============================================================================
