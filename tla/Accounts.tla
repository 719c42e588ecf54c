------------------------------ MODULE Accounts ------------------------------
(***************************************************************************)
(* Accounts, their approval by administrators, and sessions.  A handler    *)
(* reads a row of users, checks it, and writes columns of it in a later    *)
(* statement of its own; there is no transaction, and the server may stop, *)
(* or a statement fail, between any two of them.                           *)
(*                                                                         *)
(* A user stands for one e-mail address and one phone number (the schemas  *)
(* normalise both).  An access token names a user and a role and is        *)
(* checked against nothing but the time; a refresh token must also be the  *)
(* one stored in the row.  Lifetimes are counted in ticks that are left.   *)
(* The database finds a row by its id however the path spells it, with     *)
(* capitals or without; handlers that compare strings do not.              *)
(* A Google sign-in is verified by Supabase, which is not modelled.        *)
(***************************************************************************)
EXTENDS Naturals

CONSTANTS
  Requests,       \* handlers that run at the same time
  Admins,         \* users that are active administrators at the start, signed in
  DevAdmin,       \* the administrator seedDevAdmin makes
  Others,         \* users without an account at the start
  None,           \* no user
  SignUpRoles,    \* the roles people sign up with, within farmer, buyer, driver
  AccessTTL,      \* ticks an access token lives, 15 minutes in the code
  RefreshTTL,     \* ticks a refresh token lives, 7 days in the code
  ResetTTL,       \* ticks a reset token lives, 15 minutes in the code
  MaxPassword,    \* bound: the number of the last password
  MaxHandlers,    \* bound: handlers started
  MaxFailures     \* bound: handlers that fail

ASSUME UsersDiffer == None \notin Admins \cup Others \cup {DevAdmin} /\ Admins \cap Others = {}
ASSUME SomebodyIsAdmin == Admins # {}  \* the seed or the script has been run
ASSUME Lifetimes == AccessTTL \in Nat /\ RefreshTTL \in Nat /\ ResetTTL \in Nat
ASSUME NatBounds == MaxPassword \in Nat /\ MaxHandlers \in Nat /\ MaxFailures \in Nat

VARIABLES
  users,    \* rows of users, with the row of driver_details
  access,   \* ticks left to the youngest access token of a user
  reset,    \* ticks left to the youngest reset token of a user
  pc,       \* the statement a handler has come to
  req,      \* the arguments and local variables of a handler
  trail,    \* decisions in the audit trail
  raced,    \* history: users whose row changed between a read and the write it led to,
            \* and whether a status, a session or the count of administrators relied on it;
            \* and those who were counted as remaining under another spelling of their id
  failed,   \* history: users a handler was left unfinished for
  started,  \* handlers started
  failures  \* handlers that failed

session == <<access, reset>>
counts  == <<started, failures>>
history == <<raced, failed>>
vars    == <<users, session, pc, req, trail, history, counts>>

Users  == Admins \cup Others \cup {DevAdmin}
Status == {"absent", "pending", "approved", "rejected"}

\* account_status of a new row: only buyers need no administrator.
InitialStatus(role) == IF role = "buyer" THEN "approved" ELSE "pending"

Row(role, status) ==
  [role |-> role, status |-> status, password |-> 0, refresh |-> 0, refreshFor |-> 0,
   details |-> FALSE, approvedBy |-> None]

NoRow == Row("buyer", "absent")

NoRequest == [kind |-> "none", user |-> None, by |-> None, role |-> "buyer",
              row |-> NoRow, others |-> {}, exact |-> TRUE, decision |-> "pending"]

Init ==
  /\ users   = [u \in Users |-> IF u \in Admins
                 THEN [Row("admin", "approved") EXCEPT !.refresh = RefreshTTL] ELSE NoRow]
  /\ access  = [u \in Users |-> IF u \in Admins THEN AccessTTL ELSE 0]
  /\ reset   = [u \in Users |-> 0]
  /\ pc      = [p \in Requests |-> "idle"]
  /\ req     = [p \in Requests |-> NoRequest]
  /\ trail   = {}
  /\ raced   = {}
  /\ failed  = {}
  /\ started = 0
  /\ failures = 0

-----------------------------------------------------------------------------
(* Handlers, rows and tokens                                               *)

Start(p, r, step) ==
  /\ pc[p] = "idle" /\ started < MaxHandlers
  /\ req' = [req EXCEPT ![p] = r]
  /\ pc' = [pc EXCEPT ![p] = step]
  /\ started' = started + 1

Continue(p, step) ==
  /\ pc' = [pc EXCEPT ![p] = step]
  /\ req' = [req EXCEPT ![p] = IF step = "idle" THEN NoRequest ELSE @]

\* authenticate and authorize('admin'): the token decides, not the row.
ActsAsAdmin(a) == users[a].role = "admin" /\ access[a] > 0

\* update(): the columns are written whatever the row has become since it was
\* read; a change of the columns the handler relied on is remembered.
Differs(p, u) == users[u].status # req[p].row.status \/ users[u].password # req[p].row.password

Race(p, u, what) ==
  raced' = IF Differs(p, u) THEN raced \cup {[user |-> u, what |-> what]} ELSE raced

ActiveAdmins == {a \in Users : users[a].role = "admin" /\ users[a].status = "approved"}

-----------------------------------------------------------------------------
(* AuthService.register, googleAuth, AdminService.createAdmin, which the   *)
(* script create-admin.ts calls without an administrator, and seedDevAdmin *)

SignUp(p, u, role, kind, by) ==
  /\ users[u].status = "absent"
  /\ Start(p, [NoRequest EXCEPT !.kind = kind, !.user = u, !.by = by, !.role = role,
                                !.row = Row(role, InitialStatus(role))], "create")
  /\ UNCHANGED <<users, session, trail, history, failures>>

Register(p, u)       == \E role \in SignUpRoles : SignUp(p, u, role, "register", None)
GoogleSignUp(p, u)   == \E role \in SignUpRoles : SignUp(p, u, role, "google", None)
CreateAdmin(p, u, a) == ActsAsAdmin(a) /\ SignUp(p, u, "admin", "createAdmin", a)
SeedDevAdmin(p)      == SignUp(p, DevAdmin, "admin", "seed", None)
ScriptAdmin(p, u)    == SignUp(p, u, "admin", "createAdmin", None)

\* The seed of the catalogue makes its administrator in one statement, already
\* approved, if there is none with the phone number it is given.
BootstrapAdmin(u) ==
  /\ users[u].status = "absent" /\ started < MaxHandlers
  /\ users' = [users EXCEPT ![u] = Row("admin", "approved")]
  /\ started' = started + 1
  /\ UNCHANGED <<session, pc, req, trail, history, failures>>

\* users.create: the unique phone number refuses the second of two sign-ups.
Create(p) ==
  LET u == req[p].user
  IN  /\ pc[p] = "create"
      /\ IF users[u].status = "absent"
         THEN /\ users' = [users EXCEPT ![u] = req[p].row]
              /\ Continue(p, IF req[p].role = "driver" THEN "details" ELSE "status")
         ELSE Continue(p, "idle") /\ UNCHANGED users
      /\ UNCHANGED <<session, trail, history, counts>>

\* Mutation: only the registration form makes a row of driver_details.
CreateDetailsOfForm(p) ==
  /\ pc[p] = "details"
  /\ users' = [users EXCEPT ![req[p].user].details = (req[p].kind = "register")]
  /\ Continue(p, "status")
  /\ UNCHANGED <<session, trail, history, counts>>

CreateDetails(p) ==
  /\ pc[p] = "details"
  /\ users' = [users EXCEPT ![req[p].user].details = TRUE]
  /\ Continue(p, "status")
  /\ UNCHANGED <<session, trail, history, counts>>

\* The update of the status that follows every creation.  A Google sign-up
\* goes on to a session if it returns an active account.
SetStatus(p) ==
  LET u      == req[p].user
      status == IF req[p].role = "admin" THEN "approved" ELSE InitialStatus(req[p].role)
  IN  /\ pc[p] = "status"
      /\ users' = [users EXCEPT ![u].status = status]
      /\ Race(p, u, "status")
      /\ LET step == IF req[p].kind = "createAdmin" THEN "audit"
                     ELSE IF req[p].kind = "google" /\ status = "approved" THEN "session"
                     ELSE "idle"
         IN  /\ pc' = [pc EXCEPT ![p] = step]
             /\ req' = [req EXCEPT ![p] =
                    IF step = "idle" THEN NoRequest ELSE [@ EXCEPT !.row = users'[u]]]
      /\ UNCHANGED <<session, trail, failed, counts>>

-----------------------------------------------------------------------------
(* Sessions: login, googleAuth, refresh, logout, and passwords             *)

\* login with the right password, and googleAuth of an account that exists.
Login(p, u) ==
  /\ users[u].status = "approved"
  /\ Start(p, [NoRequest EXCEPT !.kind = "login", !.user = u, !.row = users[u]], "session")
  /\ UNCHANGED <<users, session, trail, history, failures>>

\* googleAuth finds the account by its e-mail address or its phone number, and
\* fills in the name and the address it lacks, which are left out.
GoogleLogin(p, u) == Login(p, u)

OpenSession(p) ==
  LET u == req[p].user
  IN  /\ pc[p] = "session"
      /\ users' = [users EXCEPT ![u].refresh = RefreshTTL, ![u].refreshFor = req[p].row.password]
      /\ access' = [access EXCEPT ![u] = AccessTTL]
      /\ Race(p, u, "session")
      /\ Continue(p, "idle")
      /\ UNCHANGED <<reset, trail, failed, counts>>

\* refresh: the stored token gets a new access token; the status is not read.
Refresh(u) ==
  /\ users[u].refresh > 0 /\ started < MaxHandlers
  /\ access' = [access EXCEPT ![u] = AccessTTL]
  /\ started' = started + 1
  /\ UNCHANGED <<users, reset, pc, req, trail, history, failures>>

Logout(p, u) ==
  /\ users[u].refresh > 0
  /\ Start(p, [NoRequest EXCEPT !.kind = "logout", !.user = u, !.row = users[u]], "logout")
  /\ UNCHANGED <<users, session, trail, history, failures>>

CloseSession(p) ==
  /\ pc[p] = "logout"
  /\ users' = [users EXCEPT ![req[p].user].refresh = 0]
  /\ Continue(p, "idle")
  /\ UNCHANGED <<session, trail, history, counts>>

\* forgotPassword: the token is mailed, or the failure of the mail swallowed.
ForgotPassword(u) ==
  /\ users[u].status # "absent" /\ started < MaxHandlers
  /\ reset' \in {reset, [reset EXCEPT ![u] = ResetTTL]}
  /\ started' = started + 1
  /\ UNCHANGED <<users, access, pc, req, trail, history, failures>>

\* resetPassword: the token stays good until it expires.
ResetPassword(p, u) ==
  /\ users[u].status # "absent" /\ reset[u] > 0 /\ users[u].password < MaxPassword
  /\ Start(p, [NoRequest EXCEPT !.kind = "reset", !.user = u, !.row = users[u]], "reset")
  /\ UNCHANGED <<users, session, trail, history, failures>>

\* Mutation: the stored refresh token outlives the password.
SetPasswordOnly(p) ==
  /\ pc[p] = "reset"
  /\ users' = [users EXCEPT ![req[p].user].password = @ + 1]
  /\ Continue(p, "idle")
  /\ UNCHANGED <<session, trail, history, counts>>

SetPassword(p) ==
  /\ pc[p] = "reset"
  /\ users' = [users EXCEPT ![req[p].user].password = @ + 1,
                            ![req[p].user].refresh = 0]
  /\ Continue(p, "idle")
  /\ UNCHANGED <<session, trail, history, counts>>

-----------------------------------------------------------------------------
(* AdminService: approveUser, rejectUser, removeAdmin                      *)

\* Mutation: an account that is not pending can be decided about again.
DecideAnew(p, u, a, decision) ==
  /\ ActsAsAdmin(a) /\ users[u].status # "absent"
  /\ Start(p, [NoRequest EXCEPT !.kind = "decide", !.user = u, !.by = a, !.row = users[u],
                                !.decision = decision], "decide")
  /\ UNCHANGED <<users, session, trail, history, failures>>

\* assertPending
Decide(p, u, a, decision) ==
  /\ ActsAsAdmin(a) /\ users[u].status = "pending"
  /\ Start(p, [NoRequest EXCEPT !.kind = "decide", !.user = u, !.by = a, !.row = users[u],
                                !.decision = decision], "decide")
  /\ UNCHANGED <<users, session, trail, history, failures>>

WriteDecision(p) ==
  LET u == req[p].user
  IN  /\ pc[p] = "decide"
      /\ users' = [users EXCEPT ![u].status = req[p].decision, ![u].approvedBy = req[p].by]
      /\ Race(p, u, "status")
      /\ Continue(p, "audit")
      /\ UNCHANGED <<session, trail, failed, counts>>

\* The id of the path, spelt as it is stored (exact) or in capitals, is compared
\* as a string with the id of the administrator who asks.
RemoveAdmin(p, u, a, exact) ==
  /\ ActsAsAdmin(a) /\ ~(exact /\ u = a)
  /\ users[u].role = "admin" /\ users[u].status # "absent"
  /\ Start(p, [NoRequest EXCEPT !.kind = "remove", !.user = u, !.by = a, !.row = users[u],
                                !.exact = exact], "count")
  /\ UNCHANGED <<users, session, trail, history, failures>>

\* The administrator of the path is left out where the strings are the same.
Without(set, p) == IF req[p].exact THEN set \ {req[p].user} ELSE set

\* Mutation: administrators who were removed or never approved count as well.
CountAnyAdmins(p) ==
  LET left == Without({a \in Users : users[a].role = "admin" /\ users[a].status # "absent"}, p)
  IN  /\ pc[p] = "count"
      /\ IF left = {} THEN Continue(p, "idle")
         ELSE /\ pc' = [pc EXCEPT ![p] = "remove"]
              /\ req' = [req EXCEPT ![p].others = Without(ActiveAdmins, p)]
      /\ UNCHANGED <<users, session, trail, history, counts>>

CountAdmins(p) ==
  LET left == Without(ActiveAdmins, p)
  IN  /\ pc[p] = "count"
      /\ IF left = {} THEN Continue(p, "idle")
         ELSE /\ pc' = [pc EXCEPT ![p] = "remove"]
              /\ req' = [req EXCEPT ![p].others = left]
      /\ UNCHANGED <<users, session, trail, history, counts>>

\* The removal of an administrator another removal has counted as remaining,
\* or of one who was counted as remaining himself.
RaceOfCount(p) ==
  raced' = raced
    \cup [user : {x \in req[p].others : users[x].status # "approved"}, what : {"count"}]
    \cup [user : {req[p].user} \cap req[p].others, what : {"spelling"}]

\* Mutation: the session of the administrator who is removed stays open.
WriteRemovalOnly(p) ==
  LET u == req[p].user
  IN  /\ pc[p] = "remove"
      /\ users' = [users EXCEPT ![u].status = "rejected"]
      /\ RaceOfCount(p)
      /\ Continue(p, "audit")
      /\ UNCHANGED <<session, trail, failed, counts>>

WriteRemoval(p) ==
  LET u == req[p].user
  IN  /\ pc[p] = "remove"
      /\ users' = [users EXCEPT ![u].status = "rejected", ![u].refresh = 0]
      /\ RaceOfCount(p)
      /\ Continue(p, "audit")
      /\ UNCHANGED <<session, trail, failed, counts>>

\* auditService.log, then the notification of a decision.
Log(p) ==
  /\ pc[p] = "audit"
  /\ trail' = trail \cup
       {[kind |-> req[p].kind, user |-> req[p].user, decision |-> req[p].decision]}
  /\ Continue(p, "idle")
  /\ UNCHANGED <<users, session, history, counts>>

-----------------------------------------------------------------------------
(* Time and failures                                                       *)

\* Mutation: a token that has expired comes back to life.
LessOrMore(n) == IF n = 0 THEN RefreshTTL + 1 ELSE n - 1

Less(n) == IF n = 0 THEN 0 ELSE n - 1

Tick ==
  /\ access' = [u \in Users |-> Less(access[u])]
  /\ reset' = [u \in Users |-> Less(reset[u])]
  /\ users' = [u \in Users |-> [users[u] EXCEPT !.refresh = Less(@)]]
  /\ UNCHANGED <<pc, req, trail, raced, failed, counts>>

Fail(p) ==
  /\ pc[p] # "idle" /\ failures < MaxFailures
  /\ failures' = failures + 1
  /\ failed' = failed \cup {req[p].user}
  /\ Continue(p, "idle")
  /\ UNCHANGED <<users, session, trail, raced, started>>

Handle(p) ==
  \/ Create(p) \/ CreateDetails(p) \/ SetStatus(p)
  \/ OpenSession(p) \/ CloseSession(p) \/ SetPassword(p)
  \/ WriteDecision(p) \/ CountAdmins(p) \/ WriteRemoval(p) \/ Log(p)

Next ==
  \/ \E p \in Requests, u \in Others \cup Admins :
       \/ Register(p, u) \/ GoogleSignUp(p, u) \/ ScriptAdmin(p, u)
       \/ Login(p, u) \/ GoogleLogin(p, u) \/ Logout(p, u) \/ ResetPassword(p, u)
       \/ \E a \in Users : CreateAdmin(p, u, a)
       \/ \E a \in Users, exact \in BOOLEAN : RemoveAdmin(p, u, a, exact)
       \/ \E a \in Users, d \in {"approved", "rejected"} : Decide(p, u, a, d)
  \/ \E p \in Requests : SeedDevAdmin(p) \/ Handle(p) \/ Fail(p)
  \/ \E u \in Users : Refresh(u) \/ ForgotPassword(u) \/ BootstrapAdmin(u)
  \/ Tick

Spec == Init /\ [][Next]_vars

-----------------------------------------------------------------------------
(* Properties                                                              *)

Raced(u, kinds) == \E what \in kinds : [user |-> u, what |-> what] \in raced

Roles == SignUpRoles \cup {"admin", "buyer"}
Rows  == [role : Roles, status : Status, password : Nat, refresh : 0 .. RefreshTTL,
          refreshFor : Nat, details : BOOLEAN, approvedBy : Users \cup {None}]

Kinds == {"none", "register", "google", "createAdmin", "seed",
          "login", "logout", "reset", "decide", "remove"}
Arguments ==
  [kind : Kinds, user : Users \cup {None}, by : Users \cup {None}, role : Roles,
   row : Rows, others : SUBSET Users, exact : BOOLEAN,
   decision : {"pending", "approved", "rejected"}]

Decisions == [kind : Kinds, user : Users, decision : {"pending", "approved", "rejected"}]

\* The types of all variables.
TypeOK ==
  /\ users \in [Users -> Rows]
  /\ access \in [Users -> 0 .. AccessTTL]
  /\ reset \in [Users -> 0 .. ResetTTL]
  /\ pc \in [Requests -> {"idle", "create", "details", "status", "session", "logout",
                          "reset", "decide", "count", "remove", "audit"}]
  /\ req \in [Requests -> Arguments]
  /\ \A p \in Requests : pc[p] # "idle" => req[p].user \in Users
  /\ trail \subseteq Decisions
  /\ raced \subseteq [user : Users, what : {"status", "session", "count", "spelling"}]
  /\ failed \subseteq Users
  /\ started \in 0 .. MaxHandlers /\ failures \in 0 .. MaxFailures

\* A refresh token is stored only for an approved account ("REJECTED already
\* blocks login", removeAdmin), unless a login had read the row before it was
\* removed or rejected and wrote it afterwards: refresh does not look again.
SessionNeedsApproval ==
  \A u \in Users :
    (users[u].refresh > 0 /\ users[u].status # "approved") => Raced(u, {"session", "status"})

\* A stored refresh token was given for the present password: a reset ends the
\* sessions of the old one, except that of a login which it overlapped.
ResetEndsSessions ==
  \A u \in Users :
    (users[u].refresh > 0 /\ users[u].refreshFor # users[u].password) => Raced(u, {"session"})

\* "Cannot remove the last remaining admin": nobody is left only if two removals
\* overlapped, each counting the other's administrator, if a decision was
\* overwritten, or if the id was spelt so that the one removed counted himself.
LockoutNeedsOverlap ==
  ActiveAdmins = {} => \E r \in raced : r.what \in {"count", "status", "spelling"}

\* A decision about a farmer or driver stays: only a handler that had read the
\* pending account before may write its status again.
DecisionIsFinal ==
  [][\A u \in Users :
       (users[u].approvedBy # None /\ users[u].role # "admin"
          /\ users'[u].status # users[u].status) => Raced(u, {"status"})']_vars

\* A driver has a row of driver_details, without which the dispatch never finds
\* him, unless his sign-up is still under way or failed; it cannot be repeated.
DriverIsOfferable ==
  \A u \in Users :
    (users[u].role = "driver" /\ users[u].status # "absent" /\ ~users[u].details)
      => \/ u \in failed
         \/ \E p \in Requests : pc[p] = "details" /\ req[p].user = u
=============================================================================
