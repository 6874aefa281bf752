------------------------- MODULE AdministrationProofs -------------------------
(* What the accounts and the configuration file keep, for any number of    *)
(* administrators at once.  The transaction counts the administrators      *)
(* again, so one is left; a code is made from a secret that was scanned,   *)
(* and that secret is what the row gets, so no account is locked out.      *)
EXTENDS AccountAdmin, Configuration, FiniteSetTheorems, TLAPS

-----------------------------------------------------------------------------
(* Accounts.                                                               *)

\* Every secret on its way was made by the server, and a code that is not a
\* slip comes from a scanned one.
SecretsMade ==
  /\ \A o \in Operators :
       totpSetup[o] = NoSetup \/
         (totpSetup[o].user \in Usernames /\ totpSetup[o].secret \in 1 .. secretsMade)
  /\ \A c \in adminCalls :
       /\ c.secret \in 0 .. secretsMade
       /\ c.op = "totp begin" /\ c.stage = "answered" => c.secret \in 1 .. secretsMade
       /\ c.op = "totp confirm" => c.secret \in scanned \cup {NoSecret}

\* What each stage of a call may still be.
StagesOK ==
  \A c \in adminCalls : c.stage = "written" => c.op = "totp confirm"

AccountIInv == AccountTypeOK /\ SecretsMade /\ StagesOK /\ EnrolmentScanned /\ AnAdminRemains

\* What a step that moves one call on keeps of the calls.
LEMMA MovedCall ==
  ASSUME AccountIInv, NEW c \in adminCalls, NEW stage \in Stages, Move(c, stage)
  PROVE  adminCalls' \subseteq AdminCalls
  BY DEF AccountIInv, AccountTypeOK, AdminCalls, Move, Stage

\* A row with one field changed is a row.
LEMMA RowChanged ==
  ASSUME NEW r \in Account,
         NEW op \in {"role admin", "role user", "disable", "restore", "totp off"}
  PROVE  Changed(op, r) \in Account /\ Changed(op, r).totp \in {r.totp, NoSecret}
<1>1. \A role \in {"admin", "user"} :
        [r EXCEPT !.role = role] \in Account /\ [r EXCEPT !.role = role].totp = r.totp
  BY DEF Account
<1>2. \A d \in BOOLEAN :
        [r EXCEPT !.disabled = d] \in Account /\ [r EXCEPT !.disabled = d].totp = r.totp
  BY DEF Account
<1>3. [r EXCEPT !.totp = NoSecret] \in Account /\ [r EXCEPT !.totp = NoSecret].totp = NoSecret
  BY DEF Account, NoSecret
<1> QED
  BY <1>1, <1>2, <1>3 DEF Changed

\* The transaction: a row that is written leaves a table, every secret scanned.
LEMMA RowsWritten ==
  ASSUME AccountIInv, NEW c \in adminCalls, c.stage = "checked",
         c.op \notin {"totp begin", "totp confirm"}, ~Conflicts(c)
  PROVE  /\ IsTable(Updated(c))
         /\ \A u \in DOMAIN Updated(c) : Updated(c)[u].totp \in scanned \cup {NoSecret}
<1>1. c.op \in Ops /\ c.user \in Usernames
  BY DEF AccountIInv, AccountTypeOK, AdminCalls
<1>2. /\ DOMAIN accounts \subseteq Usernames
      /\ accounts \in [DOMAIN accounts -> Account]
      /\ \A u \in DOMAIN accounts : accounts[u].totp \in scanned \cup {NoSecret}
  BY DEF AccountIInv, AccountTypeOK, IsTable, EnrolmentScanned
<1>3. CASE c.op \in {"create admin", "create user"}
  <2>1. PICK role \in {"admin", "user"} : Updated(c) = With(c.user, Row(role))
    <3>1. CASE c.op = "create admin"
      BY <3>1 DEF Updated
    <3>2. CASE c.op = "create user"
      BY <3>2 DEF Updated
    <3> QED
      BY <1>3, <3>1, <3>2
  <2>2. Row(role) \in Account /\ Row(role).totp = NoSecret
    BY DEF Row, Account, NoSecret
  <2>3. /\ DOMAIN Updated(c) = DOMAIN accounts \cup {c.user}
        /\ Updated(c) \in [DOMAIN Updated(c) -> Account]
        /\ \A u \in DOMAIN Updated(c) : Updated(c)[u] \in {Row(role), accounts[u]}
        /\ \A u \in DOMAIN Updated(c) : u \in DOMAIN accounts \/ Updated(c)[u] = Row(role)
    BY <1>1, <1>2, <2>1, <2>2 DEF With
  <2> QED
    BY <1>1, <1>2, <2>2, <2>3 DEF IsTable
<1>4. CASE c.op = "remove"
  <2>1. Updated(c) = [u \in DOMAIN accounts \ {c.user} |-> accounts[u]]
    BY <1>4 DEF Updated, Without, Restrict
  <2> QED
    BY <1>2, <2>1 DEF IsTable
<1>5. CASE c.op \notin {"create admin", "create user", "remove"}
  <2>1. Updated(c) = [u \in DOMAIN accounts |-> IF u = c.user THEN Changed(c.op, accounts[u])
                                                ELSE accounts[u]]
    BY <1>5 DEF Updated
  <2>2. c.op \in {"role admin", "role user", "disable", "restore", "totp off"}
    BY <1>1, <1>5 DEF Ops
  <2>3. \A u \in DOMAIN accounts :
          /\ Changed(c.op, accounts[u]) \in Account
          /\ Changed(c.op, accounts[u]).totp \in scanned \cup {NoSecret}
    BY <1>2, <2>2, RowChanged
  <2> QED
    BY <1>2, <2>1, <2>3 DEF IsTable
<1> QED
  BY <1>3, <1>4, <1>5

\* Two administrators are counted only where there is another one.
LEMMA AnotherAdmin ==
  ASSUME AccountIInv, NEW u \in DOMAIN accounts, ~(admin_count <= 1)
  PROVE  \E v \in DOMAIN accounts \ {u} : IsAdmin(v)
<1> DEFINE A == {v \in DOMAIN accounts : IsAdmin(v)}
<1>1. IsFiniteSet(A)
  <2>1. A \subseteq Usernames
    BY DEF AccountIInv, AccountTypeOK, IsTable
  <2> QED
    BY <2>1, FS_Subset, AccountAdminConstants
<1>2. Cardinality(A) \in Nat /\ Cardinality(A) > 1
  BY <1>1, FS_CardinalityType DEF admin_count
<1>3. SUFFICES ASSUME A \subseteq {u}
               PROVE  FALSE
  OBVIOUS
<1>4. IsFiniteSet({u}) /\ Cardinality({u}) = 1
  BY FS_Singleton
<1>5. Cardinality(A) <= Cardinality({u})
  BY <1>3, <1>4, FS_Subset
<1> QED
  BY <1>2, <1>4, <1>5

\* Whatever is written, somebody is left.
LEMMA AdminKept ==
  ASSUME AccountIInv, NEW c \in adminCalls, c.stage = "checked",
         c.op \notin {"totp begin", "totp confirm"}, ~Conflicts(c),
         accounts' = Updated(c)
  PROVE  AnAdminRemains'
<1>1. c.op \in Ops /\ c.user \in Usernames
  BY DEF AccountIInv, AccountTypeOK, AdminCalls
<1>2. PICK a \in DOMAIN accounts : IsAdmin(a) /\ (c.user = a => ~Removes(c))
  <2>1. CASE Removes(c) /\ c.user \in DOMAIN accounts /\ IsAdmin(c.user)
    BY <2>1, AnotherAdmin DEF Conflicts, LastAdmin
  <2>2. CASE ~(Removes(c) /\ c.user \in DOMAIN accounts /\ IsAdmin(c.user))
    BY <2>2 DEF AccountIInv, AnAdminRemains
  <2> QED
    BY <2>1, <2>2
<1>3. a \in DOMAIN Updated(c) /\ Updated(c)[a].role = "admin" /\ ~Updated(c)[a].disabled
  <2> USE <1>1, <1>2 DEF Ops, IsAdmin, Removes, Updated, Conflicts, AccountIInv, AccountTypeOK,
                         IsTable, Account
  <2>1. CASE c.op \in {"create admin", "create user"}
    BY <2>1 DEF With
  <2>2. CASE c.op = "remove"
    BY <2>2 DEF Without, Restrict
  <2>3. CASE c.op \in {"role admin", "role user"}
    BY <2>3 DEF Changed
  <2>4. CASE c.op \in {"disable", "restore", "totp off"}
    BY <2>4 DEF Changed
  <2> QED
    BY <2>1, <2>2, <2>3, <2>4
<1> QED
  BY <1>3 DEF AnAdminRemains, IsAdmin

-----------------------------------------------------------------------------

LEMMA AccountInitInv == AccountInit => AccountIInv
<1> SUFFICES ASSUME AccountInit
             PROVE  AccountIInv
  OBVIOUS
<1>1. IsTable(accounts) /\ DOMAIN accounts = Operators
  BY AccountAdminConstants DEF AccountInit, Row, NoSecret, IsTable, Account
<1>2. /\ \A u \in DOMAIN accounts : accounts[u].totp = NoSecret
      /\ \A u \in DOMAIN accounts : IsAdmin(u)
  BY DEF AccountInit, Row, IsAdmin
<1>3. /\ userRows = [o \in Operators |-> accounts] /\ totpSetup = [o \in Operators |-> NoSetup]
      /\ loadingUsers = {} /\ adminCalls = {} /\ scanned = {} /\ secretsMade = 0
      /\ adminTurns = 0
  BY DEF AccountInit
<1>4. AccountTypeOK
  <2>1. DOMAIN pendingTotp = {}
    BY Zenon DEF AccountInit, Restrict
  <2>2. totpSetup \in [Operators -> [user : Usernames \cup {""}, secret : Nat]]
    BY <1>3 DEF NoSetup, NoSecret
  <2>3. adminTurns \in 0 .. MaxAdminTurns /\ secretsMade \in Nat
    BY <1>3, AccountAdminConstants
  <2>4. DOMAIN userRows = Operators /\ \A o \in Operators : IsTable(userRows[o])
    BY <1>1, <1>3
  <2> QED
    BY <1>1, <1>3, <2>1, <2>2, <2>3, <2>4, Zenon DEF AccountTypeOK
<1>5. SecretsMade /\ StagesOK /\ EnrolmentScanned
  BY <1>2, <1>3 DEF SecretsMade, StagesOK, EnrolmentScanned
<1>6. AnAdminRemains
  BY <1>1, <1>2, AccountAdminConstants DEF AnAdminRemains
<1> QED
  BY <1>4, <1>5, <1>6 DEF AccountIInv

\* What an operator begins adds one call and a turn.
LEMMA AskedInv ==
  ASSUME AccountIInv, NEW o \in Operators, NEW op \in Ops, NEW u \in Usernames,
         NEW secret, secret = NoSecret \/ secret \in scanned, NEW stage \in {"dialog", "sent"},
         Asks(o, op, u, secret, stage)
  PROVE  AccountIInv'
<1> USE DEF NoSecret
<1> DEFINE d == [turn |-> adminTurns, by |-> o, op |-> op, user |-> u, secret |-> secret,
                 stage |-> stage]
<1>0. /\ adminTurns \in 0 .. MaxAdminTurns /\ secretsMade \in Nat
      /\ scanned \subseteq 1 .. secretsMade
  BY Zenon DEF AccountIInv, AccountTypeOK
<1>1. /\ adminCalls' = adminCalls \cup {d}
      /\ adminTurns' = adminTurns + 1 /\ adminTurns < MaxAdminTurns
      /\ UNCHANGED <<accounts, pendingTotp, secretsMade, userRows, loadingUsers, totpSetup,
                     scanned>>
  BY DEF Asks, serverVars, dialogVars
<1>2. secret \in 0 .. secretsMade /\ secret \in Nat /\ adminTurns \in Nat
  <2>1. CASE secret = NoSecret
    BY <1>0, <2>1, AccountAdminConstants
  <2>2. CASE secret \in scanned
    <3>1. secret \in 1 .. secretsMade
      BY <1>0, <2>2
    <3> QED
      BY <1>0, <3>1, AccountAdminConstants
  <2> QED
    BY <2>1, <2>2
<1>3. /\ d.turn = adminTurns /\ d.by = o /\ d.op = op /\ d.user = u /\ d.secret = secret
      /\ d.stage \in {"dialog", "sent"}
  OBVIOUS
<1>4. d \in AdminCalls
  BY <1>2, Zenon DEF AdminCalls, Stages
<1> HIDE DEF d
<1>5. AccountTypeOK'
  <2>1. adminTurns' \in 0 .. MaxAdminTurns
    BY <1>0, <1>1, AccountAdminConstants
  <2>2. adminCalls' \subseteq AdminCalls
    BY <1>1, <1>4 DEF AccountIInv, AccountTypeOK
  <2> QED
    BY <1>1, <2>1, <2>2 DEF AccountIInv, AccountTypeOK, IsTable
<1>6. SecretsMade' /\ StagesOK'
  BY <1>1, <1>2, <1>3 DEF AccountIInv, SecretsMade, StagesOK
<1>7. EnrolmentScanned' /\ AnAdminRemains'
  BY <1>1 DEF AccountIInv, EnrolmentScanned, AnAdminRemains, IsAdmin
<1> QED
  BY <1>5, <1>6, <1>7 DEF AccountIInv

\* What moves or drops one call keeps what is known of the others.
LEMMA CallsInv ==
  ASSUME AccountIInv, NEW c \in adminCalls, NEW stage \in Stages \ {"written"},
         stage = "answered" => c.op # "totp begin" \/ c.stage = "answered",
         adminCalls' = adminCalls \ {c} \/ Move(c, stage),
         scanned' = scanned, secretsMade' = secretsMade
  PROVE  /\ adminCalls' \subseteq AdminCalls /\ StagesOK'
         /\ \A d \in adminCalls' :
              /\ d.secret \in 0 .. secretsMade
              /\ d.op = "totp begin" /\ d.stage = "answered" => d.secret \in 1 .. secretsMade
              /\ d.op = "totp confirm" => d.secret \in scanned \cup {NoSecret}
<1> USE DEF NoSecret
<1> DEFINE e == [c EXCEPT !.stage = stage]
<1>1. adminCalls' \subseteq adminCalls \cup {e}
  BY DEF Move, Stage
<1>2. c \in AdminCalls
  BY DEF AccountIInv, AccountTypeOK
<1>3. /\ e \in AdminCalls /\ e.op = c.op /\ e.secret = c.secret /\ e.stage = stage
  BY <1>2 DEF AdminCalls
<1> HIDE DEF e
<1> QED
  BY <1>1, <1>3 DEF AccountIInv, AccountTypeOK, SecretsMade, StagesOK

LEMMA AccountNextInv == AccountIInv /\ [AccountNext]_adminVars => AccountIInv'
<1> SUFFICES ASSUME AccountIInv, [AccountNext]_adminVars
             PROVE  AccountIInv'
  OBVIOUS
<1>0. /\ DOMAIN userRows = Operators
      /\ (\A o \in Operators : DOMAIN userRows[o] \subseteq Usernames)
      /\ adminCalls \subseteq AdminCalls
  BY DEF AccountIInv, AccountTypeOK, IsTable
<1>1. ASSUME NEW o \in Operators,
             \/ createUser(o) \/ toggleRole(o) \/ toggleDisabled(o)
             \/ removeUser(o) \/ setupTotp(o)
      PROVE  AccountIInv'
  <2>1. PICK op \in Ops, u \in Usernames, stage \in {"dialog", "sent"} :
          Asks(o, op, u, NoSecret, stage)
    BY <1>0, <1>1, Zenon DEF createUser, toggleRole, toggleDisabled, removeUser, setupTotp, Ops
  <2> QED
    BY <2>1, AskedInv
<1>2. ASSUME NEW o \in Operators, confirmTotp(o)
      PROVE  AccountIInv'
  <2>1. PICK secret : /\ secret = NoSecret \/ secret \in scanned
                      /\ Asks(o, "totp confirm", totpSetup[o].user, secret, "sent")
    BY <1>2 DEF confirmTotp
  <2>2. totpSetup[o].user \in Usernames
    BY <1>2 DEF confirmTotp, AccountIInv, SecretsMade
  <2> QED
    BY <2>1, <2>2, AskedInv DEF Ops
<1>3. ASSUME NEW o \in Operators, Scans(o)
      PROVE  AccountIInv'
  <2> USE <1>3 DEF Scans, serverVars
  <2>1. totpSetup[o].secret \in 1 .. secretsMade
    BY DEF AccountIInv, SecretsMade
  <2>2. AccountTypeOK'
    <3>1. scanned' \subseteq 1 .. secretsMade
      BY <2>1 DEF AccountIInv, AccountTypeOK
    <3> QED
      BY <3>1 DEF AccountIInv, AccountTypeOK, IsTable
  <2>3. SecretsMade' /\ StagesOK'
    BY DEF AccountIInv, SecretsMade, StagesOK
  <2>4. EnrolmentScanned' /\ AnAdminRemains'
    BY DEF AccountIInv, EnrolmentScanned, AnAdminRemains, IsAdmin
  <2> QED
    BY <2>2, <2>3, <2>4 DEF AccountIInv
<1>4. ASSUME NEW o \in Operators, cancelTotp(o)
      PROVE  AccountIInv'
  <2> USE <1>4 DEF cancelTotp, serverVars
  <2>1. totpSetup' \in [Operators -> [user : Usernames \cup {""}, secret : Nat]]
    BY DEF AccountIInv, AccountTypeOK, NoSetup, NoSecret
  <2>2. AccountTypeOK'
    BY <2>1 DEF AccountIInv, AccountTypeOK, IsTable
  <2>3. \A p \in Operators : totpSetup'[p] \in {totpSetup[p], NoSetup}
    BY DEF AccountIInv, AccountTypeOK
  <2>4. SecretsMade' /\ StagesOK'
    BY <2>3 DEF AccountIInv, SecretsMade, StagesOK
  <2>5. EnrolmentScanned' /\ AnAdminRemains'
    BY DEF AccountIInv, EnrolmentScanned, AnAdminRemains, IsAdmin
  <2> QED
    BY <2>2, <2>4, <2>5 DEF AccountIInv
<1>5. ASSUME NEW o \in Operators, UsersLoaded(o)
      PROVE  AccountIInv'
  <2> USE <1>5 DEF UsersLoaded, serverVars
  <2>1. /\ DOMAIN userRows' = Operators
        /\ \A p \in Operators : userRows'[p] \in {userRows[p], accounts}
    BY <1>0
  <2>2. AccountTypeOK'
    BY <2>1 DEF AccountIInv, AccountTypeOK, IsTable
  <2>3. SecretsMade' /\ StagesOK'
    BY DEF AccountIInv, SecretsMade, StagesOK
  <2>4. EnrolmentScanned' /\ AnAdminRemains'
    BY DEF AccountIInv, EnrolmentScanned, AnAdminRemains, IsAdmin
  <2> QED
    BY <2>2, <2>3, <2>4 DEF AccountIInv
<1>6. ASSUME NEW c \in adminCalls, Decided(c) \/ Failed(c)
      PROVE  AccountIInv'
  <2>1. /\ adminCalls' = adminCalls \ {c} \/ Move(c, "sent")
        /\ UNCHANGED <<accounts, pendingTotp, secretsMade, userRows, loadingUsers,
                       totpSetup,
                       scanned, adminTurns>>
    BY <1>6 DEF Decided, Failed, serverVars, dialogVars
  <2>2. /\ adminCalls' \subseteq AdminCalls /\ StagesOK'
        /\ \A d \in adminCalls' :
              /\ d.secret \in 0 .. secretsMade
              /\ d.op = "totp begin" /\ d.stage = "answered" => d.secret \in 1 .. secretsMade
              /\ d.op = "totp confirm" => d.secret \in scanned \cup {NoSecret}
    BY <2>1, CallsInv DEF Stages
  <2>3. AccountTypeOK'
    BY <2>1, <2>2 DEF AccountIInv, AccountTypeOK, IsTable
  <2>4. SecretsMade'
    BY <2>1, <2>2 DEF AccountIInv, SecretsMade
  <2>5. EnrolmentScanned' /\ AnAdminRemains'
    BY <2>1 DEF AccountIInv, EnrolmentScanned, AnAdminRemains, IsAdmin
  <2> QED
    BY <2>2, <2>3, <2>4, <2>5 DEF AccountIInv
<1>7. ASSUME NEW c \in adminCalls, Checked(c)
      PROVE  AccountIInv'
  <2>1. /\ Move(c, "checked") \/ Move(c, "refused")
        /\ \A u \in DOMAIN pendingTotp' :
             u \in DOMAIN pendingTotp /\ pendingTotp'[u] = pendingTotp[u]
        /\ UNCHANGED <<accounts, secretsMade, userRows, loadingUsers, totpSetup, scanned,
                       adminTurns>>
    BY <1>7 DEF Checked, dialogVars, Without, Restrict
  <2>2. /\ adminCalls' \subseteq AdminCalls /\ StagesOK'
        /\ \A d \in adminCalls' :
              /\ d.secret \in 0 .. secretsMade
              /\ d.op = "totp begin" /\ d.stage = "answered" => d.secret \in 1 .. secretsMade
              /\ d.op = "totp confirm" => d.secret \in scanned \cup {NoSecret}
    BY <2>1, CallsInv DEF Stages
  <2>3. AccountTypeOK'
    BY <2>1, <2>2 DEF AccountIInv, AccountTypeOK, IsTable
  <2>4. SecretsMade'
    BY <2>1, <2>2 DEF AccountIInv, SecretsMade
  <2>5. EnrolmentScanned' /\ AnAdminRemains'
    BY <2>1 DEF AccountIInv, EnrolmentScanned, AnAdminRemains, IsAdmin
  <2> QED
    BY <2>2, <2>3, <2>4, <2>5 DEF AccountIInv
<1>8. ASSUME NEW c \in adminCalls, RowWritten(c)
      PROVE  AccountIInv'
  <2>1. /\ c.stage = "checked" /\ c.op \notin {"totp begin", "totp confirm"}
        /\ \/ Conflicts(c) /\ Move(c, "refused") /\ accounts' = accounts
           \/ ~Conflicts(c) /\ Move(c, "answered") /\ accounts' = Updated(c)
        /\ UNCHANGED <<pendingTotp, secretsMade, userRows, loadingUsers, totpSetup, scanned,
                       adminTurns>>
    BY <1>8 DEF RowWritten, dialogVars
  <2>2. /\ adminCalls' \subseteq AdminCalls /\ StagesOK'
        /\ \A d \in adminCalls' :
              /\ d.secret \in 0 .. secretsMade
              /\ d.op = "totp begin" /\ d.stage = "answered" => d.secret \in 1 .. secretsMade
              /\ d.op = "totp confirm" => d.secret \in scanned \cup {NoSecret}
    BY <2>1, CallsInv DEF Stages
  <2>3. /\ IsTable(accounts')
        /\ \A u \in DOMAIN accounts' : accounts'[u].totp \in scanned \cup {NoSecret}
    <3>1. CASE accounts' = accounts
      BY <3>1 DEF AccountIInv, AccountTypeOK, EnrolmentScanned
    <3>2. CASE ~Conflicts(c) /\ accounts' = Updated(c)
      BY <2>1, <3>2, RowsWritten
    <3> QED
      BY <2>1, <3>1, <3>2
  <2>4. AccountTypeOK'
    BY <2>1, <2>2, <2>3 DEF AccountIInv, AccountTypeOK, IsTable
  <2>5. SecretsMade' /\ EnrolmentScanned'
    BY <2>1, <2>2, <2>3 DEF AccountIInv, SecretsMade, EnrolmentScanned
  <2>6. AnAdminRemains'
    <3>1. CASE accounts' = accounts
      BY <3>1 DEF AccountIInv, AnAdminRemains, IsAdmin
    <3>2. CASE ~Conflicts(c) /\ accounts' = Updated(c)
      BY <2>1, <3>2, AdminKept
    <3> QED
      BY <2>1, <3>1, <3>2
  <2> QED
    BY <2>2, <2>4, <2>5, <2>6 DEF AccountIInv
<1>9. ASSUME NEW c \in adminCalls, confirm_totp(c)
      PROVE  AccountIInv'
  <2>1. /\ c.stage = "checked" /\ c.op = "totp confirm" /\ Move(c, "written")
        /\ accounts' = IF c.user \in DOMAIN accounts
                       THEN [accounts EXCEPT ![c.user].totp = c.secret] ELSE accounts
        /\ UNCHANGED <<pendingTotp, secretsMade, userRows, loadingUsers, totpSetup, scanned,
                       adminTurns>>
    BY <1>9 DEF confirm_totp, dialogVars
  <2> DEFINE e == [c EXCEPT !.stage = "written"]
  <2>2. /\ e \in AdminCalls /\ e.op = c.op /\ e.secret = c.secret /\ e.stage = "written"
        /\ c.secret \in Nat /\ c.secret \in scanned \cup {NoSecret}
        /\ c.secret \in 0 .. secretsMade
    BY <1>0, <2>1 DEF AdminCalls, Stages, AccountIInv, SecretsMade
  <2>3. adminCalls' \subseteq adminCalls \cup {e}
    BY <2>1 DEF Move, Stage
  <2> HIDE DEF e
  <2>4. /\ IsTable(accounts')
        /\ \A u \in DOMAIN accounts' : accounts'[u].totp \in scanned \cup {NoSecret}
        /\ DOMAIN accounts' = DOMAIN accounts
        /\ \A u \in DOMAIN accounts : /\ accounts'[u].role = accounts[u].role
                                      /\ accounts'[u].disabled = accounts[u].disabled
    <3>1. /\ DOMAIN accounts \subseteq Usernames /\ accounts \in [DOMAIN accounts -> Account]
          /\ \A u \in DOMAIN accounts : accounts[u].totp \in scanned \cup {NoSecret}
      BY DEF AccountIInv, AccountTypeOK, IsTable, EnrolmentScanned
    <3>2. CASE c.user \notin DOMAIN accounts
      BY <2>1, <3>1, <3>2 DEF IsTable
    <3>3. CASE c.user \in DOMAIN accounts
      <4> DEFINE r == [accounts[c.user] EXCEPT !.totp = c.secret]
      <4>1. /\ r \in Account /\ r.totp = c.secret /\ r.role = accounts[c.user].role
            /\ r.disabled = accounts[c.user].disabled
        BY <2>2, <3>1, <3>3 DEF Account
      <4>2. accounts' = [accounts EXCEPT ![c.user] = r]
        BY <2>1, <3>3
      <4> HIDE DEF r
      <4> QED
        BY <2>2, <3>1, <3>3, <4>1, <4>2 DEF IsTable
    <3> QED
      BY <3>2, <3>3
  <2>5. AccountTypeOK'
    BY <1>0, <2>1, <2>2, <2>3, <2>4 DEF AccountIInv, AccountTypeOK, IsTable
  <2>6. SecretsMade' /\ StagesOK' /\ EnrolmentScanned'
    BY <2>1, <2>2, <2>3, <2>4 DEF AccountIInv, SecretsMade, StagesOK, EnrolmentScanned
  <2>7. AnAdminRemains'
    BY <2>4 DEF AccountIInv, AnAdminRemains, IsAdmin
  <2> QED
    BY <2>5, <2>6, <2>7 DEF AccountIInv
<1>10. ASSUME NEW c \in adminCalls, enable_totp(c)
       PROVE  AccountIInv'
  <2> DEFINE e == [c EXCEPT !.stage = "answered", !.secret = secretsMade + 1]
  <2>1. /\ c.op = "totp begin" /\ secretsMade' = secretsMade + 1
        /\ adminCalls' \subseteq adminCalls \cup {e}
        /\ DOMAIN pendingTotp' = DOMAIN pendingTotp \cup {c.user}
        /\ \A u \in DOMAIN pendingTotp' : \/ pendingTotp'[u] = secretsMade + 1
                                          \/ u \in DOMAIN pendingTotp /\ pendingTotp'[u] = pendingTotp[u]
        /\ UNCHANGED <<accounts, userRows, loadingUsers, totpSetup, scanned, adminTurns>>
    BY <1>10 DEF enable_totp, dialogVars
  <2>2. /\ secretsMade \in Nat /\ secretsMade' \in Nat /\ secretsMade' \in 1 .. secretsMade'
        /\ 1 .. secretsMade \subseteq 1 .. secretsMade'
        /\ 0 .. secretsMade \subseteq 0 .. secretsMade'
        /\ secretsMade' \in 0 .. secretsMade'
    <3>1. secretsMade \in Nat
      BY Zenon DEF AccountIInv, AccountTypeOK
    <3>2. secretsMade' = secretsMade + 1
      BY <2>1
    <3> QED
      BY <3>1, <3>2
  <2>3. /\ e \in AdminCalls /\ e.op = "totp begin" /\ e.secret = secretsMade'
        /\ e.stage = "answered" /\ c.user \in Usernames
    BY <1>0, <2>1, <2>2 DEF AdminCalls, Stages
  <2> HIDE DEF e
  <2>4. AccountTypeOK'
    BY <1>0, <2>1, <2>2, <2>3 DEF AccountIInv, AccountTypeOK, IsTable
  <2>5. SecretsMade'
    <3>1. e.secret \in 1 .. secretsMade' /\ e.secret \in 0 .. secretsMade'
      BY <2>2, <2>3, Zenon
    <3> QED
      BY <2>1, <2>2, <2>3, <3>1 DEF AccountIInv, SecretsMade
  <2>6. StagesOK' /\ EnrolmentScanned' /\ AnAdminRemains'
    BY <2>1, <2>3 DEF AccountIInv, StagesOK, EnrolmentScanned, AnAdminRemains, IsAdmin
  <2> QED
    BY <2>4, <2>5, <2>6 DEF AccountIInv
<1>11. ASSUME NEW c \in adminCalls, PendingPopped(c)
       PROVE  AccountIInv'
  <2>1. /\ c.stage = "written" /\ Move(c, "answered")
        /\ \A u \in DOMAIN pendingTotp' :
             u \in DOMAIN pendingTotp /\ pendingTotp'[u] = pendingTotp[u]
        /\ UNCHANGED <<accounts, secretsMade, userRows, loadingUsers, totpSetup, scanned,
                       adminTurns>>
    BY <1>11 DEF PendingPopped, dialogVars, Without, Restrict
  <2>2. /\ adminCalls' \subseteq AdminCalls /\ StagesOK'
        /\ \A d \in adminCalls' :
              /\ d.secret \in 0 .. secretsMade
              /\ d.op = "totp begin" /\ d.stage = "answered" => d.secret \in 1 .. secretsMade
              /\ d.op = "totp confirm" => d.secret \in scanned \cup {NoSecret}
    <3>1. c.op = "totp confirm"
      BY <2>1 DEF AccountIInv, StagesOK
    <3> QED
      BY <2>1, <3>1, CallsInv DEF Stages
  <2>3. AccountTypeOK'
    BY <2>1, <2>2 DEF AccountIInv, AccountTypeOK, IsTable
  <2>4. SecretsMade'
    BY <2>1, <2>2 DEF AccountIInv, SecretsMade
  <2>5. EnrolmentScanned' /\ AnAdminRemains'
    BY <2>1 DEF AccountIInv, EnrolmentScanned, AnAdminRemains, IsAdmin
  <2> QED
    BY <2>2, <2>3, <2>4, <2>5 DEF AccountIInv
<1>12. ASSUME NEW c \in adminCalls, Answered(c)
       PROVE  AccountIInv'
  <2> DEFINE shown == [user |-> c.user, secret |-> c.secret]
  <2>1. /\ c.stage = "answered" /\ adminCalls' = adminCalls \ {c}
        /\ \/ totpSetup' = [totpSetup EXCEPT ![c.by] = shown] /\ c.op = "totp begin"
           \/ totpSetup' = [totpSetup EXCEPT ![c.by] = NoSetup]
           \/ totpSetup' = totpSetup
        /\ loadingUsers' \subseteq loadingUsers \cup {c.by}
        /\ UNCHANGED <<accounts, pendingTotp, secretsMade, userRows, scanned, adminTurns>>
    BY <1>12 DEF Answered, serverVars
  <2>2. /\ c.by \in Operators /\ c.user \in Usernames
        /\ c.op = "totp begin" => c.secret \in 1 .. secretsMade
    BY <1>0, <2>1 DEF AdminCalls, AccountIInv, SecretsMade
  <2>3. /\ totpSetup' \in [Operators -> [user : Usernames \cup {""}, secret : Nat]]
        /\ \A o \in Operators :
             \/ totpSetup'[o] \in {totpSetup[o], NoSetup}
             \/ totpSetup'[o].user \in Usernames /\ totpSetup'[o].secret \in 1 .. secretsMade
    <3>1. /\ totpSetup \in [Operators -> [user : Usernames \cup {""}, secret : Nat]]
          /\ secretsMade \in Nat
      BY DEF AccountIInv, AccountTypeOK
    <3>2. CASE totpSetup' = [totpSetup EXCEPT ![c.by] = shown] /\ c.op = "totp begin"
      <4>1. /\ shown \in [user : Usernames \cup {""}, secret : Nat]
            /\ shown.user \in Usernames /\ shown.secret \in 1 .. secretsMade
        <5>1. c.secret \in 1 .. secretsMade
          BY <2>2, <3>2
        <5>2. c.secret \in Nat
          BY <1>0 DEF AdminCalls
        <5> QED
          BY <2>2, <5>1, <5>2, Zenon
      <4> HIDE DEF shown
      <4> QED
        BY <2>2, <3>1, <3>2, <4>1
    <3>3. CASE totpSetup' = [totpSetup EXCEPT ![c.by] = NoSetup]
      BY <3>1, <3>3 DEF NoSetup, NoSecret
    <3>4. CASE totpSetup' = totpSetup
      BY <3>1, <3>4
    <3> QED
      BY <2>1, <3>2, <3>3, <3>4
  <2>4. AccountTypeOK'
    BY <2>1, <2>2, <2>3 DEF AccountIInv, AccountTypeOK, IsTable
  <2>5. SecretsMade' /\ StagesOK'
    BY <2>1, <2>3 DEF AccountIInv, SecretsMade, StagesOK
  <2>6. EnrolmentScanned' /\ AnAdminRemains'
    BY <2>1 DEF AccountIInv, EnrolmentScanned, AnAdminRemains, IsAdmin
  <2> QED
    BY <2>4, <2>5, <2>6 DEF AccountIInv
<1>13. CASE UNCHANGED adminVars
  <2>1. UNCHANGED <<accounts, pendingTotp, userRows, loadingUsers, totpSetup, adminCalls,
                    scanned, secretsMade, adminTurns>>
    BY <1>13 DEF adminVars
  <2>2. AccountTypeOK'
    BY <2>1 DEF AccountIInv, AccountTypeOK, IsTable
  <2>3. SecretsMade' /\ StagesOK' /\ EnrolmentScanned' /\ AnAdminRemains'
    BY <2>1 DEF AccountIInv, SecretsMade, StagesOK, EnrolmentScanned, AnAdminRemains, IsAdmin
  <2> QED
    BY <2>2, <2>3 DEF AccountIInv
<1> QED
  BY <1>1, <1>2, <1>3, <1>4, <1>5, <1>6, <1>7, <1>8, <1>9, <1>10, <1>11, <1>12, <1>13
     DEF AccountNext

\* The accounts, the calls and what the pages show have their types.
THEOREM AccountTypes == AccountSpec => []AccountTypeOK
<1>1. AccountIInv => AccountTypeOK
  BY DEF AccountIInv
<1> QED
  BY <1>1, AccountInitInv, AccountNextInv, PTL DEF AccountSpec

\* However many administrators demote, disable and remove one another at once,
\* one is left (LastAdminError in store.py).
THEOREM AnAdminAlwaysRemains == AccountSpec => []AnAdminRemains
<1>1. AccountIInv => AnAdminRemains
  BY DEF AccountIInv
<1> QED
  BY <1>1, AccountInitInv, AccountNextInv, PTL DEF AccountSpec

\* No account ever waits for a code of a secret that nobody scanned
\* (_pending_totp in users.py).
THEOREM EnrolmentAlwaysScanned == AccountSpec => []EnrolmentScanned
<1>1. AccountIInv => EnrolmentScanned
  BY DEF AccountIInv
<1> QED
  BY <1>1, AccountInitInv, AccountNextInv, PTL DEF AccountSpec

-----------------------------------------------------------------------------
(* The configuration file.                                                 *)

Inputs == Values \cup {Wrong}
Items == UNION {[K -> Inputs] : K \in SUBSET Keys}
Loaded == {NotLoaded} \cup [Keys -> Values]
Gets == [by : Editors, how : {"load", "save"}, values : Loaded]
PutStages == {"sent", "read", "edited", "written", "applying", "answered"}
PutRequests == [by : Editors, items : Items, stage : PutStages, text : Document, failed : BOOLEAN]

\* A text that was edited loads.
EditedLoads == \A p \in puts : p.stage = "edited" => ~p.text.broken

ConfigIInv ==
  /\ ConfigTypeOK /\ EditedLoads
  /\ gets \subseteq Gets /\ puts \subseteq PutRequests
  /\ DOMAIN schema = Editors /\ DOMAIN drafts = Editors
  /\ \A o \in Editors : schema[o] = NotLoaded \/ drafts[o] \in [Keys -> Inputs]

LEMMA ConfigInitInv == ConfigInit => ConfigIInv
<1> SUFFICES ASSUME ConfigInit
             PROVE  ConfigIInv
  OBVIOUS
<1>1. file \in Document /\ settings \in [Keys -> Values]
  BY ConfigurationConstants DEF ConfigInit, Document, Effective
<1>2. /\ handEdits \in 0 .. MaxHandEdits /\ version \in Nat /\ clock \in 0 .. version
      /\ configTurns \in 0 .. MaxConfigTurns
  BY ConfigurationConstants DEF ConfigInit
<1> QED
  BY <1>1, <1>2 DEF ConfigInit, ConfigIInv, ConfigTypeOK, EditedLoads

\* What a request writes is a document.
LEMMA EditedText ==
  ASSUME ConfigIInv, NEW p \in puts, ~Refuses(p)
  PROVE  Edited(p) \in Document /\ ~Edited(p).broken
<1>1. p.items \in Items /\ p.text \in Document
  BY DEF ConfigIInv, PutRequests
<1>2. PICK K \in SUBSET Keys : p.items \in [K -> Inputs]
  BY <1>1 DEF Items
<1>3. \A k \in K : p.items[k] \in Values
  BY <1>2 DEF Refuses, Range, Inputs
<1> QED
  BY <1>1, <1>2, <1>3 DEF Edited, Document, Refuses

\* What a request writes over itself.
LEMMA MovedRequest ==
  ASSUME ConfigIInv, NEW p \in puts, NEW q \in PutRequests, Moves(p, q),
         q.stage = "edited" => ~q.text.broken
  PROVE  puts' \subseteq PutRequests /\ EditedLoads'
  BY DEF ConfigIInv, Moves, EditedLoads

\* A step that leaves the dialogs, the settings and the file alone.
LEMMA RequestsInv ==
  ASSUME ConfigIInv, puts' \subseteq PutRequests, EditedLoads',
         UNCHANGED <<diskFile, settings, configDialogVars>>,
         configTurns' \in 0 .. MaxConfigTurns
  PROVE  ConfigIInv'
<1>1. UNCHANGED <<file, handEdits, clock, version, settings, schema, drafts, loading,
                  saving,
                  gets>>
  BY DEF diskFile, configDialogVars
<1>2. \A p \in puts' : p.by \in Editors /\ p.text \in Document /\ DOMAIN p.items \subseteq Keys
  BY DEF PutRequests, Items
<1> QED
  BY <1>1, <1>2 DEF ConfigIInv, ConfigTypeOK

\* A step of a dialog.
LEMMA DialogInv ==
  ASSUME ConfigIInv, puts' \subseteq PutRequests, EditedLoads', UNCHANGED <<diskFile,
                                                                         settings>>,
         DOMAIN schema' = Editors, DOMAIN drafts' = Editors,
         \A o \in Editors : /\ schema'[o] \in Loaded
                            /\ drafts'[o] = NotLoaded \/ drafts'[o] \in [Keys -> Inputs]
                            /\ schema'[o] = NotLoaded \/ drafts'[o] \in [Keys -> Inputs],
         loading' \in [Editors -> BOOLEAN], saving' \in [Editors -> BOOLEAN],
         gets' \subseteq Gets, configTurns' \in 0 .. MaxConfigTurns
  PROVE  ConfigIInv'
<1>1. UNCHANGED <<file, handEdits, clock, version, settings>>
  BY DEF diskFile
<1>2. \A p \in puts' : p.by \in Editors /\ p.text \in Document /\ DOMAIN p.items \subseteq Keys
  BY DEF PutRequests, Items
<1>3. \A o \in Editors : schema'[o] = NotLoaded \/ schema'[o] \in [Keys -> Values]
  BY DEF Loaded
<1> QED
  BY <1>1, <1>2, <1>3 DEF ConfigIInv, ConfigTypeOK, Inputs

LEMMA ConfigTyped ==
  ASSUME ConfigIInv
  PROVE  /\ \A o \in Editors :
              /\ schema[o] \in Loaded
              /\ drafts[o] = NotLoaded \/ drafts[o] \in [Keys -> Inputs]
              /\ schema[o] = NotLoaded \/ drafts[o] \in [Keys -> Inputs]
         /\ DOMAIN schema = Editors /\ DOMAIN drafts = Editors
         /\ loading \in [Editors -> BOOLEAN] /\ saving \in [Editors -> BOOLEAN]
         /\ gets \subseteq Gets /\ puts \subseteq PutRequests /\ EditedLoads
         /\ configTurns \in 0 .. MaxConfigTurns /\ file \in Document
         /\ settings \in [Keys -> Values] /\ settings \in Loaded
         /\ ConfigTurn => configTurns' \in 0 .. MaxConfigTurns
<1>1. configTurns \in 0 .. MaxConfigTurns
  BY DEF ConfigIInv, ConfigTypeOK
<1>2. ConfigTurn => configTurns' \in 0 .. MaxConfigTurns
  BY <1>1, ConfigurationConstants DEF ConfigTurn
<1> QED
  BY <1>1, <1>2 DEF ConfigIInv, ConfigTypeOK, Loaded, Inputs

LEMMA ConfigNextInv == ConfigIInv /\ [ConfigNext]_configVars => ConfigIInv'
<1> SUFFICES ASSUME ConfigIInv, [ConfigNext]_configVars
             PROVE  ConfigIInv'
  OBVIOUS
<1> USE ConfigTyped
<1>1. ASSUME NEW o \in Editors, loadSchema(o)
      PROVE  ConfigIInv'
  <2>1. Get(o, "load") \in Gets
    <3>1. NotLoaded \in Loaded
      BY DEF Loaded
    <3> QED
      BY <3>1, Zenon DEF Get, Gets
  <2>2. /\ gets' \subseteq Gets /\ loading' \in [Editors -> BOOLEAN]
        /\ configTurns' \in 0 .. MaxConfigTurns
        /\ UNCHANGED <<diskFile, settings, schema, drafts, saving, puts>>
    BY <1>1, <2>1 DEF loadSchema
  <2> QED
    BY <2>2, DialogInv DEF EditedLoads
<1>2. ASSUME NEW o \in Editors, TypeValue(o)
      PROVE  ConfigIInv'
  <2>1. PICK k \in Keys, v \in Inputs : drafts' = [drafts EXCEPT ![o][k] = v]
    BY <1>2 DEF TypeValue, Inputs
  <2>2. /\ DOMAIN drafts' = Editors
        /\ \A q \in Editors : drafts'[q] = drafts[q] \/ drafts'[q] \in [Keys -> Inputs]
    <3>1. schema[o] # NotLoaded
      BY <1>2 DEF TypeValue
    <3>2. PICK f \in [Keys -> Inputs] : drafts[o] = f
      BY <3>1
    <3>3. [f EXCEPT ![k] = v] \in [Keys -> Inputs]
      BY <3>2
    <3>4. drafts' = [drafts EXCEPT ![o] = [f EXCEPT ![k] = v]]
      BY <2>1, <3>2
    <3> QED
      BY <3>3, <3>4
  <2>3. /\ configTurns' \in 0 .. MaxConfigTurns
        /\ UNCHANGED <<diskFile, settings, schema, loading, saving, gets, puts>>
    BY <1>2, <2>1 DEF TypeValue
  <2> QED
    BY <2>2, <2>3, DialogInv DEF EditedLoads
<1>3. ASSUME NEW o \in Editors, saveConfig(o)
      PROVE  ConfigIInv'
  <2> DEFINE K == {k \in Keys : drafts[o][k] # schema[o][k]}
             q == Change(o, Restrict(drafts[o], K))
  <2>1. Restrict(drafts[o], K) \in Items
    <3>1. PICK f \in [Keys -> Inputs] : drafts[o] = f
      BY <1>3 DEF saveConfig
    <3>2. K \subseteq Keys
      OBVIOUS
    <3> HIDE DEF K
    <3>3. Restrict(f, K) \in [K -> Inputs]
      BY <3>2 DEF Restrict
    <3> QED
      BY <3>1, <3>2, <3>3 DEF Items
  <2>2. q \in PutRequests /\ q.stage = "sent"
    <3> HIDE DEF K
    <3> QED
      BY <2>1 DEF Change, PutRequests, PutStages
  <2>3. /\ puts' = puts \cup {q} /\ saving' \in [Editors -> BOOLEAN]
        /\ configTurns' \in 0 .. MaxConfigTurns
        /\ UNCHANGED <<diskFile, settings, schema, drafts, loading, gets>>
    BY <1>3 DEF saveConfig
  <2> HIDE DEF q
  <2> QED
    BY <2>2, <2>3, DialogInv DEF EditedLoads
<1>4. ASSUME NEW o \in Editors, reloadConfig(o)
      PROVE  ConfigIInv'
  <2> DEFINE q == [Change(o, ReloadOnly) EXCEPT !.stage = "written"]
  <2>1. ReloadOnly \in Items
    <3>1. NotLoaded \in [{} -> Inputs]
      BY DEF NotLoaded
    <3> QED
      BY <3>1 DEF ReloadOnly, Items
  <2>2. q \in PutRequests /\ q.stage = "written"
    BY <2>1 DEF Change, PutRequests, PutStages
  <2>3. /\ puts' = puts \cup {q} /\ configTurns' \in 0 .. MaxConfigTurns
        /\ UNCHANGED <<diskFile, settings, configDialogVars>>
    BY <1>4 DEF reloadConfig
  <2> HIDE DEF q
  <2> QED
    BY <2>2, <2>3, RequestsInv DEF EditedLoads
<1>5. ASSUME NEW g \in gets, SchemaServed(g)
      PROVE  ConfigIInv'
  <2>1. [g EXCEPT !.values = settings] \in Gets
    BY DEF Gets
  <2> QED
    BY <1>5, <2>1, DialogInv DEF SchemaServed, EditedLoads
<1>6. ASSUME NEW g \in gets, SchemaArrives(g)
      PROVE  ConfigIInv'
  <2>1. g.by \in Editors /\ g.values \in [Keys -> Values] /\ g.values \in [Keys -> Inputs]
    <3>1. g.by \in Editors /\ g.values \in [Keys -> Values]
      BY <1>6 DEF SchemaArrives, Gets, Loaded
    <3> QED
      BY <3>1 DEF Inputs
  <2>2. /\ DOMAIN schema' = Editors /\ DOMAIN drafts' = Editors
        /\ \A o \in Editors : \/ schema'[o] = schema[o] /\ drafts'[o] = drafts[o]
                              \/ schema'[o] = g.values /\ drafts'[o] = g.values
    BY <1>6, <2>1 DEF SchemaArrives
  <2>3. /\ gets' \subseteq Gets /\ loading' \in [Editors -> BOOLEAN]
        /\ saving' \in [Editors -> BOOLEAN]
        /\ UNCHANGED <<diskFile, settings, puts, configTurns>>
    BY <1>6, <2>1 DEF SchemaArrives
  <2>4. \A o \in Editors : /\ schema'[o] \in Loaded
                           /\ drafts'[o] = NotLoaded \/ drafts'[o] \in [Keys -> Inputs]
                           /\ schema'[o] = NotLoaded \/ drafts'[o] \in [Keys -> Inputs]
    BY <2>1, <2>2 DEF Loaded
  <2> QED
    BY <2>2, <2>3, <2>4, DialogInv DEF EditedLoads
<1>7. ASSUME NEW g \in gets, SchemaFails(g)
      PROVE  ConfigIInv'
  <2>1. /\ gets' \subseteq Gets /\ loading' \in [Editors -> BOOLEAN]
        /\ saving' \in [Editors -> BOOLEAN]
        /\ UNCHANGED <<diskFile, settings, schema, drafts, puts, configTurns>>
    BY <1>7 DEF SchemaFails
  <2> QED
    BY <2>1, DialogInv DEF EditedLoads
<1>8. ASSUME NEW p \in puts, ReadsText(p) \/ WriteFails(p) \/ ReadsSettings(p)
      PROVE  ConfigIInv'
  <2>1. PICK q \in PutRequests : Moves(p, q) /\ q.stage # "edited"
    <3>1. CASE ReadsText(p)
      <4>1. [p EXCEPT !.stage = "read", !.text = file] \in PutRequests
        BY DEF PutRequests, PutStages
      <4> QED
        BY <3>1, <4>1 DEF ReadsText, PutRequests
    <3>2. \A t \in {p.text, file} :
            /\ [p EXCEPT !.stage = "answered", !.failed = TRUE] \in PutRequests
            /\ [p EXCEPT !.stage = "applying", !.text = file] \in PutRequests
      BY DEF PutRequests, PutStages
    <3>3. CASE WriteFails(p)
      BY <3>2, <3>3 DEF WriteFails, PutRequests
    <3>4. CASE ReadsSettings(p)
      BY <3>2, <3>4 DEF ReadsSettings, PutRequests
    <3> QED
      BY <1>8, <3>1, <3>3, <3>4
  <2>2. puts' \subseteq PutRequests /\ EditedLoads'
    BY <2>1, MovedRequest
  <2>3. UNCHANGED <<diskFile, settings, configDialogVars, configTurns>>
    BY <1>8 DEF ReadsText, WriteFails, ReadsSettings
  <2> QED
    BY <2>2, <2>3, RequestsInv
<1>9. ASSUME NEW p \in puts, apply_key(p)
      PROVE  ConfigIInv'
  <2>1. PICK q \in PutRequests : Moves(p, q) /\ (q.stage = "edited" => ~q.text.broken)
    <3>1. CASE Refuses(p)
      <4>1. [p EXCEPT !.stage = "answered", !.failed = TRUE] \in PutRequests
        BY DEF PutRequests, PutStages
      <4> QED
        BY <1>9, <3>1, <4>1 DEF apply_key, PutRequests
    <3>2. CASE ~Refuses(p)
      <4> DEFINE t == Edited(p)
                 q == [p EXCEPT !.stage = "edited", !.text = t]
      <4>1. t \in Document /\ ~t.broken
        BY <3>2, EditedText
      <4>2. Moves(p, q)
        BY <1>9, <3>2 DEF apply_key
      <4> HIDE DEF t
      <4>3. q \in PutRequests /\ q.text = t
        BY <4>1 DEF PutRequests, PutStages
      <4> QED
        BY <4>1, <4>2, <4>3
    <3> QED
      BY <3>1, <3>2
  <2>2. puts' \subseteq PutRequests /\ EditedLoads'
    BY <2>1, MovedRequest
  <2> QED
    BY <1>9, <2>2, RequestsInv DEF apply_key
<1>10. ASSUME NEW p \in puts, write_text_atomic(p)
       PROVE  ConfigIInv'
  <2> DEFINE q == [p EXCEPT !.stage = "written"]
  <2>1. q \in PutRequests /\ q.stage = "written" /\ p.text \in Document
    BY DEF PutRequests, PutStages
  <2>2. puts' \subseteq PutRequests /\ EditedLoads'
    BY <1>10, <2>1, MovedRequest DEF write_text_atomic
  <2>3. \A r \in puts' :
          r.by \in Editors /\ r.text \in Document /\ DOMAIN r.items \subseteq Keys
    BY <2>2 DEF PutRequests, Items
  <2>4. version' \in Nat /\ clock' \in 0 .. version'
    BY <1>10 DEF write_text_atomic, ConfigIInv, ConfigTypeOK
  <2>5. /\ file' \in Document
        /\ UNCHANGED <<handEdits, settings, schema, drafts, loading, saving, gets,
                       configTurns>>
    BY <1>10, <2>1 DEF write_text_atomic, configDialogVars
  <2> QED
    BY <2>2, <2>3, <2>4, <2>5 DEF ConfigIInv, ConfigTypeOK
<1>11. ASSUME NEW p \in puts, reload_settings_file(p)
       PROVE  ConfigIInv'
  <2> DEFINE q == [p EXCEPT !.stage = "answered"]
  <2>1. q \in PutRequests /\ q.stage = "answered" /\ p.text \in Document
    BY DEF PutRequests, PutStages
  <2>2. puts' \subseteq PutRequests /\ EditedLoads'
    BY <1>11, <2>1, MovedRequest DEF reload_settings_file
  <2>3. \A r \in puts' :
          r.by \in Editors /\ r.text \in Document /\ DOMAIN r.items \subseteq Keys
    BY <2>2 DEF PutRequests, Items
  <2>4. settings' \in [Keys -> Values]
    BY <1>11, <2>1, ConfigurationConstants DEF reload_settings_file, Effective, Document
  <2>5. UNCHANGED <<file, handEdits, clock, version, schema, drafts, loading, saving, gets,
                    configTurns>>
    BY <1>11 DEF reload_settings_file, diskFile, configDialogVars
  <2> QED
    BY <2>2, <2>3, <2>4, <2>5 DEF ConfigIInv, ConfigTypeOK
<1>12. ASSUME NEW p \in puts, PutAnswered(p) \/ PutFails(p)
       PROVE  ConfigIInv'
  <2>1. puts' \subseteq PutRequests /\ EditedLoads' /\ p.by \in Editors
    BY <1>12 DEF PutAnswered, PutFails, EditedLoads, PutRequests
  <2>2. \A how \in {"load", "save"} : Get(p.by, how) \in Gets
    <3>1. NotLoaded \in Loaded
      BY DEF Loaded
    <3> QED
      BY <2>1, <3>1 DEF Get, Gets
  <2>3. gets' \subseteq Gets
    <3>1. CASE PutAnswered(p)
      <4>1. gets' \subseteq gets \cup {Get(p.by, "load"), Get(p.by, "save")}
        BY <3>1 DEF PutAnswered
      <4> QED
        BY <2>2, <4>1
    <3>2. CASE PutFails(p)
      BY <3>2 DEF PutFails
    <3> QED
      BY <1>12, <3>1, <3>2
  <2>4. /\ loading' \in [Editors -> BOOLEAN] /\ saving' \in [Editors -> BOOLEAN]
        /\ UNCHANGED <<diskFile, settings, schema, drafts, configTurns>>
    BY <1>12, Zenon DEF PutAnswered, PutFails
  <2> QED
    BY <2>1, <2>3, <2>4, DialogInv
<1>13. CASE MaintenanceReload
  <2>1. settings' \in [Keys -> Values]
    BY <1>13, ConfigurationConstants DEF MaintenanceReload, Effective, Document
  <2>2. clock' \in 0 .. version'
    BY <1>13 DEF MaintenanceReload, ConfigIInv, ConfigTypeOK
  <2>3. UNCHANGED <<file, handEdits, version, schema, drafts, loading, saving, gets, puts,
                    configTurns>>
    BY <1>13 DEF MaintenanceReload, configDialogVars
  <2> QED
    BY <2>1, <2>2, <2>3 DEF ConfigIInv, ConfigTypeOK, EditedLoads
<1>14. CASE EditedByHand
  <2>1. file' \in Document
    BY <1>14 DEF EditedByHand, Document
  <2>2. handEdits' \in 0 .. MaxHandEdits /\ version' \in Nat /\ clock' \in 0 .. version'
    BY <1>14, ConfigurationConstants DEF EditedByHand, ConfigIInv, ConfigTypeOK
  <2>3. UNCHANGED <<settings, schema, drafts, loading, saving, gets, puts, configTurns>>
    BY <1>14 DEF EditedByHand, configDialogVars
  <2> QED
    BY <2>1, <2>2, <2>3 DEF ConfigIInv, ConfigTypeOK, EditedLoads
<1>15. CASE UNCHANGED configVars
  <2>1. UNCHANGED <<file, handEdits, clock, version, settings, schema, drafts, loading,
                    saving,
                    gets, puts, configTurns>>
    BY <1>15 DEF configVars, diskFile, configDialogVars
  <2> QED
    BY <2>1 DEF ConfigIInv, ConfigTypeOK, EditedLoads
<1> QED
  BY <1>1, <1>2, <1>3, <1>4, <1>5, <1>6, <1>7, <1>8, <1>9, <1>10, <1>11, <1>12, <1>13, <1>14,
     <1>15 DEF ConfigNext

\* The file, the settings, the dialogs and the requests have their types.
THEOREM ConfigTypes == ConfigSpec => []ConfigTypeOK
<1>1. ConfigIInv => ConfigTypeOK
  BY DEF ConfigIInv
<1> QED
  BY <1>1, ConfigInitInv, ConfigNextInv, PTL DEF ConfigSpec

\* Only a hand breaks the file: what the server writes loads, though others
\* write between its reading and its writing (config_edit.py).
THEOREM PublishedAlwaysLoads == ConfigSpec => PublishedLoads
<1>1. ASSUME ConfigIInv, [ConfigNext]_configVars, version' # version, handEdits' = handEdits
      PROVE  ~file'.broken
  <2>1. ~EditedByHand /\ ~MaintenanceReload /\ ~UNCHANGED configVars
    <3>1. handEdits \in Nat
      BY <1>1, ConfigurationConstants DEF ConfigIInv, ConfigTypeOK
    <3> QED
      BY <1>1, <3>1 DEF EditedByHand, MaintenanceReload, configVars, diskFile
  <2>2. ASSUME NEW o \in Editors,
               loadSchema(o) \/ TypeValue(o) \/ saveConfig(o) \/ reloadConfig(o)
        PROVE  FALSE
    BY <1>1, <2>2 DEF loadSchema, TypeValue, saveConfig, reloadConfig, diskFile
  <2>3. ASSUME NEW g \in gets, SchemaServed(g) \/ SchemaArrives(g) \/ SchemaFails(g)
        PROVE  FALSE
    BY <1>1, <2>3 DEF SchemaServed, SchemaArrives, SchemaFails, diskFile
  <2>4. ASSUME NEW p \in puts,
               \/ ReadsText(p) \/ apply_key(p) \/ WriteFails(p) \/ ReadsSettings(p)
               \/ reload_settings_file(p) \/ PutAnswered(p) \/ PutFails(p)
        PROVE  FALSE
    BY <1>1, <2>4 DEF ReadsText, apply_key, WriteFails, ReadsSettings, reload_settings_file,
                      PutAnswered, PutFails, diskFile
  <2>5. PICK p \in puts : write_text_atomic(p)
    BY <1>1, <2>1, <2>2, <2>3, <2>4 DEF ConfigNext
  <2> QED
    BY <1>1, <2>5 DEF write_text_atomic, ConfigIInv, EditedLoads
<1>2. ConfigIInv /\ [ConfigNext]_configVars =>
        [version' # version /\ handEdits' = handEdits => ~file'.broken]_configVars
  BY <1>1
<1> QED
  BY <1>2, ConfigInitInv, ConfigNextInv, PTL DEF ConfigSpec, PublishedLoads
=============================================================================
