------------------------------ MODULE AccountAdmin ------------------------------
(***************************************************************************)
(* The accounts of the server and the administrators who change them:      *)
(* the user tab of AdminDialog.vue, the routes of users.py, user_admin.py  *)
(* and the guarded transaction of store.py.                                *)
(*                                                                         *)
(* Each operator has the dialog open in a browser.  A request is admitted  *)
(* and checked in one thread call and written in a later transaction;      *)
(* those of other operators run between.  A list is taken at some moment   *)
(* between its request and its answer, so its arrival is one action.       *)
(* Passwords, names' syntax, API keys, the audit and recordings tabs and   *)
(* the end of an account's terminals are left out.                         *)
(***************************************************************************)
EXTENDS Naturals, FiniteSets, Functions

CONSTANTS
  Usernames,         \* names that accounts can have
  Operators,     \* accounts whose owners have the dialog open, administrators
  MaxAdminCalls, \* bound: requests at once
  MaxAdminTurns  \* bound: what the operators begin

ASSUME AccountAdminConstants ==
  /\ Operators \subseteq Usernames /\ Operators # {}
  /\ IsFiniteSet(Usernames)
  /\ MaxAdminCalls \in Nat /\ MaxAdminTurns \in Nat

VARIABLES
  accounts,      \* rows of the table users, by name
  pendingTotp,   \* _pending_totp: the secret of each enrolment that has begun
  userRows,      \* the list on each operator's page
  loadingUsers,  \* operators whose list is on its way
  totpSetup,     \* the QR code on each operator's page
  adminCalls,    \* requests, from the click to the answer
  scanned,       \* secrets some authenticator holds
  secretsMade,
  adminTurns     \* bound: what the operators began so far

adminVars == <<accounts, pendingTotp, userRows, loadingUsers, totpSetup, adminCalls,
                  scanned, secretsMade, adminTurns>>

NoSecret == 0
NoSetup == [user |-> "", secret |-> NoSecret]
Account == [role : {"admin", "user"}, disabled : BOOLEAN, totp : Nat]
IsTable(t) == DOMAIN t \subseteq Usernames /\ t \in [DOMAIN t -> Account]

Ops == {"create admin", "create user", "remove", "role admin", "role user",
        "disable", "restore", "totp begin", "totp confirm", "totp off"}
Stages == {"dialog", "sent", "checked", "written", "answered", "refused"}
\* `secret` is the one a code was made from, then the one the server checked it
\* against; `turn` tells two equal requests apart.
AdminCalls == [turn : Nat, by : Operators, op : Ops, user : Usernames, secret : Nat,
               stage : Stages]

serverVars == <<accounts, pendingTotp, secretsMade>>
dialogVars == <<userRows, loadingUsers, totpSetup, scanned>>

-----------------------------------------------------------------------------
(* The dialog.                                                             *)

Stage(c, stage) == (adminCalls \ {c}) \cup {[c EXCEPT !.stage = stage]}
Move(c, stage) == adminCalls' = Stage(c, stage)

Asks(o, op, u, secret, stage) ==
  /\ Cardinality(adminCalls) < MaxAdminCalls /\ adminTurns < MaxAdminTurns
  /\ adminTurns' = adminTurns + 1
  /\ adminCalls' = adminCalls \cup
       {[turn |-> adminTurns, by |-> o, op |-> op, user |-> u, secret |-> secret,
         stage |-> stage]}
  /\ UNCHANGED <<serverVars, dialogVars>>

createUser(o) ==
  \E u \in Usernames, op \in {"create admin", "create user"} : Asks(o, op, u, NoSecret, "sent")

toggleRole(o) ==
  \E u \in DOMAIN userRows[o] :
    Asks(o, IF userRows[o][u].role = "admin" THEN "role user" ELSE "role admin",
         u, NoSecret, "sent")

toggleDisabled(o) ==
  \E u \in DOMAIN userRows[o] :
    Asks(o, IF userRows[o][u].disabled THEN "restore" ELSE "disable", u, NoSecret, "sent")

\* The button of one's own row is disabled.
removeUser(o) ==
  \E u \in DOMAIN userRows[o] \ {o} : Asks(o, "remove", u, NoSecret, "dialog")

\* The row says whether the button begins or ends the second factor.
setupTotp(o) ==
  \E u \in DOMAIN userRows[o] :
    IF userRows[o][u].totp # NoSecret THEN Asks(o, "totp off", u, NoSecret, "dialog")
                                      ELSE Asks(o, "totp begin", u, NoSecret, "sent")

\* The dialogs that ask before a removal: answered with yes or no.
Decided(c) ==
  /\ c.stage = "dialog"
  /\ Move(c, "sent") \/ adminCalls' = adminCalls \ {c}
  /\ UNCHANGED <<serverVars, dialogVars, adminTurns>>

\* The owner of the account scans the QR code that is shown.
Scans(o) ==
  /\ totpSetup[o] # NoSetup /\ totpSetup[o].secret \notin scanned
  /\ scanned' = scanned \cup {totpSetup[o].secret}
  /\ UNCHANGED <<serverVars, userRows, loadingUsers, totpSetup, adminCalls, adminTurns>>

\* A code is made from a secret that was scanned, or is a slip: NoSecret.
confirmTotp(o) ==
  /\ totpSetup[o] # NoSetup
  /\ \E secret \in scanned \cup {NoSecret} :
       Asks(o, "totp confirm", totpSetup[o].user, secret, "sent")

cancelTotp(o) ==
  /\ totpSetup[o] # NoSetup
  /\ totpSetup' = [totpSetup EXCEPT ![o] = NoSetup]
  /\ UNCHANGED <<serverVars, userRows, loadingUsers, adminCalls, scanned, adminTurns>>

-----------------------------------------------------------------------------
(* The server.                                                             *)

IsAdmin(u) == u \in DOMAIN accounts /\ accounts[u].role = "admin" /\ ~accounts[u].disabled
admin_count == Cardinality({u \in DOMAIN accounts : IsAdmin(u)})
Removes(c) == c.op \in {"remove", "role user", "disable"}

\* _guard_last_admin counts for any account with the role, disabled or not.
_guard_last_admin(c) ==
  Removes(c) /\ accounts[c.user].role = "admin" => admin_count > 1

Allowed(c) ==
  CASE c.op \in {"create admin", "create user"} -> c.user \notin DOMAIN accounts
    [] c.op = "totp off" -> TRUE
    [] c.op = "totp confirm" ->
         c.user \in DOMAIN pendingTotp /\ pendingTotp[c.user] = c.secret
    [] OTHER -> /\ c.user \in DOMAIN accounts
                /\ c.op \in {"remove", "disable"} => c.by # c.user
                /\ _guard_last_admin(c)

Without(f, u) == Restrict(f, DOMAIN f \ {u})

\* require_admin and the first look at the row.  Ending the second factor drops
\* an enrolment that has only begun.
Checked(c) ==
  /\ c.stage = "sent"
  /\ Move(c, IF IsAdmin(c.by) /\ Allowed(c) THEN "checked" ELSE "refused")
  /\ pendingTotp' = IF IsAdmin(c.by) /\ c.op = "totp off"
                    THEN Without(pendingTotp, c.user) ELSE pendingTotp
  /\ UNCHANGED <<accounts, secretsMade, dialogVars, adminTurns>>

\* LastAdminError, left to the count that was made before.
LastAdminUncounted(c) == FALSE

\* The transaction counts again.
LastAdmin(c) == Removes(c) /\ IsAdmin(c.user) /\ admin_count <= 1

Row(role) == [role |-> role, disabled |-> FALSE, totp |-> NoSecret]
With(u, row) == [v \in DOMAIN accounts \cup {u} |-> IF v = u THEN row ELSE accounts[v]]
Changed(op, row) ==
  CASE op = "role admin" -> [row EXCEPT !.role = "admin"]
    [] op = "role user" -> [row EXCEPT !.role = "user"]
    [] op = "disable" -> [row EXCEPT !.disabled = TRUE]
    [] op = "restore" -> [row EXCEPT !.disabled = FALSE]
    [] op = "totp off" -> [row EXCEPT !.totp = NoSecret]
\* An update changes the row of the account, if there still is one.
Updated(c) ==
  CASE c.op = "create admin" -> With(c.user, Row("admin"))
    [] c.op = "create user" -> With(c.user, Row("user"))
    [] c.op = "remove" -> Without(accounts, c.user)
    [] OTHER -> [u \in DOMAIN accounts |-> IF u = c.user THEN Changed(c.op, accounts[u])
                                           ELSE accounts[u]]

\* A name that is taken by now (IntegrityError), the last administrator, or an
\* account that is gone when its second factor ends.
Conflicts(c) ==
  \/ c.op \in {"create admin", "create user"} /\ c.user \in DOMAIN accounts
  \/ LastAdmin(c)
  \/ c.op = "totp off" /\ c.user \notin DOMAIN accounts

RowWritten(c) ==
  /\ c.stage = "checked" /\ c.op \notin {"totp begin", "totp confirm"}
  /\ IF Conflicts(c) THEN Move(c, "refused") /\ UNCHANGED accounts
                     ELSE Move(c, "answered") /\ accounts' = Updated(c)
  /\ UNCHANGED <<pendingTotp, secretsMade, dialogVars, adminTurns>>

\* The row has the new secret at once.
enable_totpAtOnce(c) ==
  /\ c.stage = "checked" /\ c.op = "totp begin"
  /\ secretsMade' = secretsMade + 1
  /\ accounts' = IF c.user \in DOMAIN accounts
                 THEN [accounts EXCEPT ![c.user].totp = secretsMade'] ELSE accounts
  /\ adminCalls' = (adminCalls \ {c}) \cup
                     {[c EXCEPT !.stage = "answered", !.secret = secretsMade']}
  /\ UNCHANGED <<pendingTotp, dialogVars, adminTurns>>

\* enable_totp: a new secret, in the place of one that waits already.
enable_totp(c) ==
  /\ c.stage = "checked" /\ c.op = "totp begin"
  /\ secretsMade' = secretsMade + 1
  /\ pendingTotp' = [v \in DOMAIN pendingTotp \cup {c.user} |->
                       IF v = c.user THEN secretsMade' ELSE pendingTotp[v]]
  /\ adminCalls' = (adminCalls \ {c}) \cup
                     {[c EXCEPT !.stage = "answered", !.secret = secretsMade']}
  /\ UNCHANGED <<accounts, dialogVars, adminTurns>>

\* confirm_totp: the secret that the code was checked against goes to the row,
\* whatever waits by now.
confirm_totp(c) ==
  /\ c.stage = "checked" /\ c.op = "totp confirm"
  /\ Move(c, "written")
  /\ accounts' = IF c.user \in DOMAIN accounts
                 THEN [accounts EXCEPT ![c.user].totp = c.secret] ELSE accounts
  /\ UNCHANGED <<pendingTotp, secretsMade, dialogVars, adminTurns>>

\* The enrolment that waits by now is dropped, whosever it is.
PendingPopped(c) ==
  /\ c.stage = "written"
  /\ Move(c, "answered")
  /\ pendingTotp' = Without(pendingTotp, c.user)
  /\ UNCHANGED <<accounts, secretsMade, dialogVars, adminTurns>>

-----------------------------------------------------------------------------
(* Answers.                                                                *)

\* The QR code on the page is replaced, whosever it is; so it is closed by the
\* answer to a confirmation.  Every other success loads the list again.
Answered(c) ==
  /\ c.stage = "answered"
  /\ adminCalls' = adminCalls \ {c}
  /\ totpSetup' =
       CASE c.op = "totp begin" ->
              [totpSetup EXCEPT ![c.by] = [user |-> c.user, secret |-> c.secret]]
         [] c.op = "totp confirm" -> [totpSetup EXCEPT ![c.by] = NoSetup]
         [] OTHER -> totpSetup
  /\ loadingUsers' = IF c.op = "totp begin" THEN loadingUsers ELSE loadingUsers \cup {c.by}
  /\ UNCHANGED <<serverVars, userRows, scanned, adminTurns>>

\* An error, or an answer that was lost: a notice, and the QR code stays.
Failed(c) ==
  /\ c.stage \in {"answered", "refused"}
  /\ adminCalls' = adminCalls \ {c}
  /\ UNCHANGED <<serverVars, dialogVars, adminTurns>>

\* list_users, for those who still are administrators.
UsersLoaded(o) ==
  /\ o \in loadingUsers
  /\ loadingUsers' = loadingUsers \ {o}
  /\ userRows' = IF IsAdmin(o) THEN [userRows EXCEPT ![o] = accounts] ELSE userRows
  /\ UNCHANGED <<serverVars, totpSetup, adminCalls, scanned, adminTurns>>

-----------------------------------------------------------------------------

AccountInit ==
  /\ accounts = [o \in Operators |-> Row("admin")]
  /\ pendingTotp = Restrict(accounts, {})
  /\ userRows = [o \in Operators |-> accounts]
  /\ loadingUsers = {} /\ totpSetup = [o \in Operators |-> NoSetup]
  /\ adminCalls = {} /\ scanned = {} /\ secretsMade = 0 /\ adminTurns = 0

AccountNext ==
  \/ \E o \in Operators :
       \/ createUser(o) \/ toggleRole(o) \/ toggleDisabled(o) \/ removeUser(o)
       \/ setupTotp(o) \/ Scans(o) \/ confirmTotp(o) \/ cancelTotp(o) \/ UsersLoaded(o)
  \/ \E c \in adminCalls :
       \/ Decided(c) \/ Checked(c) \/ RowWritten(c) \/ enable_totp(c) \/ confirm_totp(c)
       \/ PendingPopped(c) \/ Answered(c) \/ Failed(c)

AccountSpec == AccountInit /\ [][AccountNext]_adminVars

-----------------------------------------------------------------------------

\* The variables have their types.
AccountTypeOK ==
  /\ IsTable(accounts)
  /\ DOMAIN pendingTotp \subseteq Usernames
  /\ \A u \in DOMAIN pendingTotp : pendingTotp[u] \in 1 .. secretsMade
  /\ DOMAIN userRows = Operators /\ (\A o \in Operators : IsTable(userRows[o]))
  /\ loadingUsers \subseteq Operators
  /\ totpSetup \in [Operators -> [user : Usernames \cup {""}, secret : Nat]]
  /\ adminCalls \subseteq AdminCalls /\ scanned \subseteq 1 .. secretsMade
  /\ secretsMade \in Nat /\ adminTurns \in 0 .. MaxAdminTurns

\* However the operators demote, disable and remove one another at the same
\* time, somebody is left who can administer the server (LastAdminError in
\* store.py: "one mutation and its last-admin check in one write transaction").
AnAdminRemains == \E u \in DOMAIN accounts : IsAdmin(u)

\* The second factor of an account is one that somebody's authenticator holds:
\* an enrolment that was closed, replaced or answered late never locks the
\* account out (_pending_totp in users.py).
EnrolmentScanned == \A u \in DOMAIN accounts : accounts[u].totp \in scanned \cup {NoSecret}
=============================================================================
