------------------------------- MODULE PageProofs -------------------------------
(***************************************************************************)
(* Parts of the page: the list of terminals, for any accounts and any      *)
(* number of answers and events on their way; the file panel, for any      *)
(* directory and any number of uploads and questions; the shortcuts.  And  *)
(* the page itself, which runs each of its parts, those of WorkspaceProofs *)
(* and AdministrationProofs too.                                           *)
(***************************************************************************)
EXTENDS MCBrowser, WorkspaceProofs, AdministrationProofs

-----------------------------------------------------------------------------
(***************************************************************************)
(* The list.  Until an identity is abandoned, one asked for in the current *)
(* generation carries the credential of who is signed in, or one that the  *)
(* server will refuse: a sign-out starts a generation, only nobody signs   *)
(* in, and a call begun before a sign-out refreshes with a dead credential.*)
(***************************************************************************)
Seen(who) == IF who = Nobody THEN {} ELSE VisibleTo[who]
Answers == {Waiting, Denied} \cup SUBSET Shells
Entries == [epoch : Nat, by : Holders, answer : Answers]

\* What is known of a list on its way: h is who is honoured, who is signed in.
Owned(r, who, h) ==
  (who # Nobody /\ r.by = who) \/ (r.by \notin h /\ r.answer \in {Waiting, Denied})

\* The refreshes that may be on their way in generation g; `left` if an identity
\* was abandoned.
RefreshesOf(g, who, h, left) ==
  {r \in Entries : r.epoch <= g /\ (r.epoch = g => left \/ Owned(r, who, h))}
Queues == {q \in Seq(Events) : Len(q) <= MaxEvents}
OpenFor(who) == [state : {"open"}, as : {who}, queue : Queues, full : BOOLEAN]

AccountsOK ==
  /\ user \in Holders /\ asking \in Holders /\ cookie \in Holders
  /\ restored \in BOOLEAN /\ honoured \subseteq Accounts /\ turns \in 0 .. MaxTurns
  /\ abandoned \in BOOLEAN
  /\ ~restored => user = Nobody /\ asking = Nobody /\ calls = {}
  /\ asking # Nobody => user = Nobody
  /\ user # Nobody => cookie = user
  /\ user = Nobody /\ cookie \in honoured /\ ~abandoned => calls = {}
ListedOK ==
  /\ served \subseteq Shells /\ live \subseteq Shells /\ listedFor \in Holders
  /\ lapsed \in BOOLEAN
  /\ ~abandoned => (live # {} => user # Nobody /\ listedFor = user)
RefreshesOK ==
  /\ generation \in Nat /\ refreshTimer \in BOOLEAN
  /\ refreshes \in Seq(RefreshesOf(generation, user, honoured, abandoned))
  /\ refreshTimer => user # Nobody
StreamOK ==
  \/ stream = NoStream
  \/ user # Nobody /\ stream = [state |-> "connecting"]
  \/ user # Nobody /\ stream \in OpenFor(user)
OnlineOK == online \subseteq Seen(user)

ListIInv == AccountsOK /\ ListedOK /\ RefreshesOK /\ StreamOK /\ OnlineOK

LEMMA ListInitInv == SessionListInit => ListIInv
<1> SUFFICES ASSUME SessionListInit
             PROVE  ListIInv
  OBVIOUS
<1>1. AccountsOK
  <2>1. turns \in 0 .. MaxTurns
    BY SessionListConstants DEF SessionListInit
  <2>2. /\ cookie \in Holders /\ honoured = {cookie} \ {Nobody}
        /\ user = Nobody /\ asking = Nobody
    BY DEF SessionListInit
  <2>3. honoured \subseteq Accounts
    BY <2>2 DEF Holders
  <2> QED
    BY <2>1, <2>2, <2>3 DEF SessionListInit, AccountsOK, Holders
<1>2. ListedOK
  BY DEF SessionListInit, ListedOK, Holders
<1>3. RefreshesOK
  BY EmptySeq DEF SessionListInit, RefreshesOK
<1>4. StreamOK /\ OnlineOK
  BY DEF SessionListInit, StreamOK, OnlineOK
<1> QED
  BY <1>1, <1>2, <1>3, <1>4 DEF ListIInv

-----------------------------------------------------------------------------
(* Who is signed in.                                                       *)

LEMMA AccountsInv == ListIInv /\ [SessionListNext]_sessionVars => AccountsOK'
<1> SUFFICES ASSUME ListIInv, [SessionListNext]_sessionVars
             PROVE  AccountsOK'
  OBVIOUS
<1>0. AccountsOK
  BY DEF ListIInv
<1>1. UNCHANGED <<authVars, turns>> /\ calls' \subseteq calls => AccountsOK'
  BY <1>0 DEF AccountsOK, authVars
<1>2. turns < MaxTurns /\ turns' = turns + 1 => turns' \in 0 .. MaxTurns
  BY <1>0, SessionListConstants DEF AccountsOK
<1>3. CASE restore
  BY <1>0, <1>3, NobodyIsNoAccount DEF restore, AccountsOK, Holders
<1>4. ASSUME NEW name \in Accounts, submit(name)
      PROVE  AccountsOK'
  BY <1>0, <1>4 DEF submit, AccountsOK, Holders
<1>5. ASSUME NEW who \in Accounts, CredentialEnds(who)
      PROVE  AccountsOK'
  BY <1>0, <1>2, <1>5 DEF CredentialEnds, Turn, AccountsOK
<1>6. CASE LoginAccepted
  BY <1>0, <1>6, NobodyIsNoAccount DEF LoginAccepted, Identified, AccountsOK, Holders
<1>7. CASE LoginRefused
  BY <1>0, <1>7 DEF LoginRefused, AccountsOK, Holders
<1>8. CASE logout
  BY <1>0, <1>2, <1>8 DEF logout, Turn, AccountsOK, authVars
\* An identity goes: nothing is called for any more, or it was abandoned.
<1>9. ASSUME Unidentified, UNCHANGED <<restored, asking, turns>>, calls' \subseteq calls,
             cookie' \in {cookie, Nobody}, honoured' \subseteq honoured
      PROVE  AccountsOK'
  <2>1. user' = Nobody /\ cookie' \in Holders /\ Nobody \notin honoured
    BY <1>0, <1>9, NobodyIsNoAccount DEF Unidentified, AccountsOK, Holders
  <2>2. abandoned' = (abandoned \/ (user # Nobody /\ cookie' \in honoured'))
    BY <1>9 DEF Unidentified
  <2>3. user' = Nobody /\ cookie' \in honoured' /\ ~abandoned' => calls' = {}
    <3> SUFFICES ASSUME cookie' \in honoured', ~abandoned'
                 PROVE  calls' = {}
      OBVIOUS
    <3>1. user = Nobody /\ ~abandoned /\ cookie \in honoured
      BY <1>9, <2>1, <2>2
    <3> QED
      BY <1>0, <1>9, <3>1 DEF AccountsOK
  <2>4. abandoned' \in BOOLEAN
    BY <2>2
  <2> QED
    BY <1>0, <1>9, <2>1, <2>3, <2>4 DEF AccountsOK, Holders
<1>10. CASE LogoutAnswered \/ expireSession \/ CallDenied
  BY <1>9, <1>10 DEF LogoutAnswered, expireSession, CallDenied
<1>11. ASSUME NEW i \in DOMAIN refreshes, ListDenied(i)
       PROVE  AccountsOK'
  BY <1>9, <1>11 DEF ListDenied
<1>12. ASSUME NEW i \in DOMAIN refreshes, ListServed(i) \/ ListArrives(i) \/ ListFails(i)
       PROVE  AccountsOK'
  <2>1. UNCHANGED <<authVars, turns, calls>>
    BY <1>12, Zenon DEF ListServed, ListArrives, ListFails
  <2> QED
    BY <1>1, <2>1
<1>13. CASE TimerFires \/ StreamOpens \/ OverflowEnds \/ handle \/ CallAnswered
  <2>1. UNCHANGED <<authVars, turns>>
    BY <1>13, Zenon DEF TimerFires, StreamOpens, OverflowEnds, handle, CallAnswered
  <2>2. calls' \subseteq calls
    BY <1>13 DEF TimerFires, StreamOpens, OverflowEnds, handle, CallAnswered
  <2> QED
    BY <1>1, <2>1, <2>2
<1>14. CASE StreamBreaks \/ CallBegins
  BY <1>0, <1>2, <1>14 DEF StreamBreaks, CallBegins, Turn, AccountsOK, authVars
<1>15. ASSUME NEW s \in Shells, ServerChanges(s)
       PROVE  AccountsOK'
  BY <1>0, <1>2, <1>15 DEF ServerChanges, Turn, AccountsOK, authVars
<1>16. CASE UNCHANGED sessionVars
  BY <1>1, <1>16 DEF sessionVars
<1> QED
  BY <1>3, <1>4, <1>5, <1>6, <1>7, <1>8, <1>10, <1>11, <1>12, <1>13, <1>14, <1>15, <1>16
     DEF SessionListNext

-----------------------------------------------------------------------------
(* Refreshes and the stream.                                               *)

LEMMA SeqMonotone ==
  ASSUME NEW S, NEW T, S \subseteq T, NEW q \in Seq(S)
  PROVE  q \in Seq(T)
<1>1. Len(q) \in Nat /\ q = [i \in 1 .. Len(q) |-> q[i]] /\ \A i \in 1 .. Len(q) : q[i] \in S
  BY ElementOfSeq, LenProperties
<1> QED
  BY <1>1, IsASeq

Asking(who, h, left) == RefreshesOf(generation, who, h, left)
Mine == Asking(user, honoured, abandoned)

LEMMA MineListed == RefreshesOK => refreshes \in Seq(Mine)
BY DEF RefreshesOK, Mine, Asking

\* More may be on its way once somebody signs in, a credential ends, or an
\* identity is abandoned.
LEMMA AskingGrows ==
  ASSUME NEW who, NEW h, NEW left, NEW who2, NEW h2, NEW left2,
         left => left2, who = who2 \/ who = Nobody,
         \A x \in h2 : x \in h \/ (x = who2 /\ who2 # Nobody)
  PROVE  Asking(who, h, left) \subseteq Asking(who2, h2, left2)
BY DEF Asking, RefreshesOf, Owned

LEMMA AskedType ==
  ASSUME generation \in Nat, NEW holder \in Holders, NEW who, NEW h, NEW left,
         left \/ (who # Nobody /\ holder = who) \/ holder \notin h
  PROVE  Asked(holder) \in Asking(who, h, left)
<1> DEFINE r == [epoch |-> generation, by |-> holder, answer |-> Waiting]
<1>1. r \in Entries
  BY DEF Entries, Answers
<1>2. r.epoch = generation /\ r.by = holder /\ r.answer = Waiting
  OBVIOUS
<1>3. r = Asked(holder)
  BY DEF Asked
<1> HIDE DEF r
<1> QED
  BY <1>1, <1>2, <1>3 DEF Asking, RefreshesOf, Owned

\* refreshAs, by one who is signed in or whose credential is refused.
LEMMA Refreshing ==
  ASSUME generation \in Nat, NEW holder \in Holders, NEW who, NEW h, NEW left,
         refreshes \in Seq(Asking(who, h, left)),
         left \/ (who # Nobody /\ holder = who) \/ holder \notin h, refreshAs(holder)
  PROVE  refreshes' \in Seq(Asking(who, h, left))
<1> DEFINE r == Asked(holder)
           S == Asking(who, h, left)
<1>1. r \in S /\ refreshes' = Append(refreshes, r) /\ refreshes \in Seq(S)
  BY AskedType DEF refreshAs
<1> HIDE DEF r, S
<1>2. refreshes' \in Seq(S)
  BY <1>1, AppendProperties
<1> QED
  BY <1>2 DEF S

\* Who is signed in holds its own cookie; with nobody there, it is refused.
LEMMA OwnRefresh ==
  ASSUME ListIInv, refresh, user # Nobody \/ calls # {}
  PROVE  refreshes' \in Seq(Mine)
<1>1. cookie \in Holders /\ generation \in Nat
  BY DEF ListIInv, AccountsOK, RefreshesOK
<1>2. abandoned \/ (user # Nobody /\ cookie = user) \/ cookie \notin honoured
  BY DEF ListIInv, AccountsOK
<1>3. refreshes \in Seq(Mine)
  BY MineListed DEF ListIInv
<1> QED
  BY <1>1, <1>2, <1>3, Refreshing DEF refresh, Mine

LEMMA RefreshTaken ==
  ASSUME ListIInv, NEW i \in DOMAIN refreshes
  PROVE  refreshes[i] \in Mine /\ RemoveAt(refreshes, i) \in Seq(Mine)
<1> DEFINE n == Len(refreshes)
<1>1. refreshes \in Seq(Mine) /\ n \in Nat /\ i \in 1 .. n
  BY MineListed, LenProperties DEF ListIInv
<1>2. \A k \in 1 .. n : refreshes[k] \in Mine
  BY <1>1, ElementOfSeq
<1>3. SubSeq(refreshes, 1, i - 1) \in Seq(Mine) /\ SubSeq(refreshes, i + 1, n) \in Seq(Mine)
  BY <1>1, <1>2, SubSeqProperties
<1>4. RemoveAt(refreshes, i) \in Seq(Mine)
  BY <1>3, ConcatProperties DEF RemoveAt
<1> QED
  BY <1>1, <1>2, <1>4

\* Nobody is signed in any more: what the page held goes with the account.
LEMMA UnidentifiedInv ==
  ASSUME ListIInv, Unidentified, UNCHANGED <<served, listedFor, lapsed>>,
         honoured' \subseteq honoured, refreshes' \in Seq(Mine)
  PROVE  ListedOK' /\ RefreshesOK' /\ StreamOK' /\ OnlineOK'
<1>0. generation \in Nat /\ user' = Nobody
  BY DEF ListIInv, RefreshesOK, Unidentified
<1>1. CASE user = Nobody
  <2>1. UNCHANGED <<user, generation, stream, refreshTimer, live, online>>
        /\ abandoned' = abandoned
    BY <1>0, <1>1 DEF Unidentified, ListIInv, AccountsOK
  <2>2. Mine \subseteq Asking(user, honoured', abandoned')
    BY <2>1, AskingGrows DEF Mine
  <2>3. refreshes' \in Seq(Asking(user, honoured', abandoned'))
    BY <2>2, SeqMonotone
  <2> QED
    BY <2>1, <2>3 DEF ListIInv, ListedOK, RefreshesOK, StreamOK, OnlineOK, Asking
<1>2. CASE user # Nobody
  <2>1. /\ generation' = generation + 1 /\ stream' = NoStream /\ refreshTimer' = FALSE
        /\ live' = {} /\ online' = {}
    BY <1>2 DEF Unidentified, reset
  <2> DEFINE g == generation + 1
             T == RefreshesOf(g, Nobody, honoured', abandoned')
  <2>2. Mine \subseteq T
    BY <1>0 DEF Mine, Asking, RefreshesOf, Entries
  <2>3. refreshes' \in Seq(T)
    <3> HIDE DEF T
    <3> QED
      BY <2>2, SeqMonotone
  <2>4. RefreshesOK'
    <3>1. generation' = g /\ g \in Nat
      BY <1>0, <2>1
    <3> HIDE DEF g
    <3> QED
      BY <1>0, <2>1, <2>3, <3>1 DEF RefreshesOK
  <2>5. StreamOK' /\ OnlineOK'
    BY <2>1 DEF StreamOK, OnlineOK
  <2>6. ListedOK'
    BY <2>1 DEF ListIInv, ListedOK
  <2> QED
    BY <2>4, <2>5, <2>6
<1> QED
  BY <1>1, <1>2

\* Signing out, expiring and being refused are such steps.
LEMMA IdentityGoes ==
  ASSUME ListIInv, \/ LogoutAnswered \/ expireSession \/ CallDenied
                   \/ \E i \in DOMAIN refreshes : ListDenied(i)
  PROVE  ListedOK' /\ RefreshesOK' /\ StreamOK' /\ OnlineOK'
<1>1. refreshes \in Seq(Mine)
  BY MineListed DEF ListIInv
<1>2. CASE LogoutAnswered \/ expireSession \/ CallDenied
  BY <1>1, <1>2, UnidentifiedInv DEF LogoutAnswered, expireSession, CallDenied
<1>3. ASSUME NEW i \in DOMAIN refreshes, ListDenied(i)
      PROVE  ListedOK' /\ RefreshesOK' /\ StreamOK' /\ OnlineOK'
  BY <1>3, RefreshTaken, UnidentifiedInv DEF ListDenied
<1> QED
  BY <1>2, <1>3

\* An open stream is that of who is signed in.
LEMMA OpenStream ==
  ASSUME ListIInv, stream.state = "open"
  PROVE  user \in Accounts /\ user # Nobody /\ stream \in OpenFor(user) /\ stream.as = user
<1>1. stream # NoStream /\ stream # [state |-> "connecting"]
  BY DEF NoStream
<1>2. user # Nobody /\ stream \in OpenFor(user)
  BY <1>1 DEF ListIInv, StreamOK
<1> QED
  BY <1>2 DEF OpenFor, ListIInv, AccountsOK, Holders

\* What an event that is handled does.
LEMMA HandleCases ==
  ASSUME ListIInv, handle
  PROVE  /\ user # Nobody /\ stream \in OpenFor(user)
         /\ stream' = [stream EXCEPT !.queue = Tail(stream.queue)]
         /\ live' \subseteq live /\ refreshTimer' \in BOOLEAN
         /\ \/ online' \subseteq online
            \/ \E sh \in VisibleTo[user] : online' = online \cup {sh}
<1>0. user # Nobody /\ stream \in OpenFor(user) /\ stream.as = user /\ refreshTimer \in BOOLEAN
  BY OpenStream DEF handle, ListIInv, RefreshesOK
<1>1. stream.queue # <<>> /\ stream.queue \in Seq(Events)
  BY <1>0 DEF OpenFor, Queues, handle
<1> DEFINE e == Head(stream.queue)
<1>2. e \in Events /\ e.event # "overflow"
  BY <1>1, HeadTailProperties DEF handle
<1>3. e.event \in {"presence", "session_created", "session_ended"}
  BY <1>2 DEF Events
<1>4. CASE e.shell \notin VisibleTo[stream.as]
  BY <1>0, <1>4 DEF handle
<1>5. CASE e.shell \in VisibleTo[stream.as] /\ e.event = "presence"
  BY <1>0, <1>5 DEF handle, apply
<1>6. CASE e.shell \in VisibleTo[stream.as] /\ e.event = "session_created"
  BY <1>0, <1>6 DEF handle
<1>7. CASE e.shell \in VisibleTo[stream.as] /\ e.event = "session_ended"
  BY <1>0, <1>7 DEF handle, forget
<1> QED
  BY <1>3, <1>4, <1>5, <1>6, <1>7

LEMMA RefreshesInv == ListIInv /\ [SessionListNext]_sessionVars => RefreshesOK'
<1> SUFFICES ASSUME ListIInv, [SessionListNext]_sessionVars
             PROVE  RefreshesOK'
  OBVIOUS
<1>0. RefreshesOK /\ AccountsOK /\ generation \in Nat /\ refreshes \in Seq(Mine)
  BY MineListed DEF ListIInv, RefreshesOK
<1>1. UNCHANGED <<authVars, generation, refreshes, refreshTimer>> => RefreshesOK'
  BY <1>0 DEF RefreshesOK, authVars
<1>2. /\ UNCHANGED <<authVars, generation>> /\ refreshes' \in Seq(Mine)
      /\ refreshTimer' \in BOOLEAN /\ (refreshTimer' => refreshTimer \/ user # Nobody)
      => RefreshesOK'
  BY <1>0 DEF RefreshesOK, Mine, Asking, authVars
<1>3. CASE restore
  <2>1. CASE UNCHANGED <<user, refreshes>>
    BY <1>0, <1>3, <2>1 DEF restore, RefreshesOK
  <2>2. CASE ~UNCHANGED <<user, refreshes>>
    <3> DEFINE r == Asked(cookie)
               S == Asking(cookie, honoured, abandoned)
    <3>1. /\ user' = cookie /\ refreshes' = refreshes \o <<r, r>> /\ cookie \in honoured
          /\ UNCHANGED <<generation, refreshTimer, honoured, abandoned>>
          /\ user = Nobody /\ cookie \in Holders /\ cookie # Nobody
      BY <1>0, <1>3, <2>2, NobodyIsNoAccount DEF restore, AccountsOK
    <3>2. r \in S
      BY <1>0, <3>1, AskedType
    <3>3. Mine \subseteq S
      BY <3>1, AskingGrows DEF Mine
    <3>4. refreshes \in Seq(S)
      BY <1>0, <3>3, SeqMonotone
    <3> HIDE DEF r, S
    <3>5. refreshes' \in Seq(S)
      BY <3>1, <3>2, <3>4
    <3> QED
      BY <1>0, <3>1, <3>5 DEF RefreshesOK, S, Asking
  <2> QED
    BY <2>1, <2>2
<1>4. CASE LoginAccepted
  <2> DEFINE S == Asking(asking, honoured', abandoned)
  <2>1. /\ user' = asking /\ user = Nobody /\ asking \in Holders /\ asking # Nobody
        /\ refreshAs(asking) /\ honoured' = honoured \cup {asking}
        /\ UNCHANGED <<generation, refreshTimer, abandoned>>
    BY <1>0, <1>4 DEF LoginAccepted, Identified, AccountsOK
  <2>2. Mine \subseteq S
    BY <2>1, AskingGrows DEF Mine
  <2>3. refreshes \in Seq(S)
    BY <1>0, <2>2, SeqMonotone
  <2>4. refreshes' \in Seq(S)
    BY <1>0, <2>1, <2>3, Refreshing
  <2> QED
    BY <1>0, <2>1, <2>4 DEF RefreshesOK, Asking
<1>5. CASE LogoutAnswered \/ expireSession \/ CallDenied
  BY <1>5, IdentityGoes
<1>6. CASE TimerFires
  <2>1. /\ user # Nobody /\ refresh /\ refreshTimer' = FALSE
        /\ UNCHANGED <<authVars, generation>>
    BY <1>0, <1>6 DEF TimerFires, RefreshesOK
  <2> QED
    BY <1>2, <2>1, OwnRefresh
<1>7. CASE CallAnswered
  <2>1. calls # {} /\ refresh /\ UNCHANGED <<authVars, generation, refreshTimer>>
    BY <1>7 DEF CallAnswered
  <2> QED
    BY <1>0, <1>2, <2>1, OwnRefresh DEF RefreshesOK
<1>8. ASSUME NEW i \in DOMAIN refreshes, ListServed(i)
      PROVE  RefreshesOK'
  <2> DEFINE who == refreshes[i].by
             a == IF who \in honoured THEN served \cap VisibleTo[who] ELSE Denied
             r == [refreshes[i] EXCEPT !.answer = a]
  <2>1. refreshes[i] \in Mine
    BY RefreshTaken
  <2>2. a \in Answers /\ (who \notin honoured => a = Denied)
    BY DEF Answers, ListIInv, ListedOK
  <2>3. refreshes' = [refreshes EXCEPT ![i] = r]
    BY <1>8 DEF ListServed
  <2> HIDE DEF a
  <2>4. r \in Mine
    BY <2>1, <2>2 DEF Mine, Asking, RefreshesOf, Owned, Entries
  <2> HIDE DEF r
  <2>5. i \in 1 .. Len(refreshes)
    BY <1>0, LenProperties
  <2>6. refreshes' \in Seq(Mine)
    BY <1>0, <2>3, <2>4, <2>5, ExceptSeq
  <2>7. UNCHANGED <<authVars, generation, refreshTimer>>
    BY <1>8 DEF ListServed
  <2> QED
    BY <1>0, <1>2, <2>6, <2>7 DEF RefreshesOK
<1>9. ASSUME NEW i \in DOMAIN refreshes, ListArrives(i) \/ ListFails(i)
      PROVE  RefreshesOK'
  <2>1. refreshes' = RemoveAt(refreshes, i) /\ UNCHANGED <<authVars, generation, refreshTimer>>
    BY <1>9, Zenon DEF ListArrives, ListFails
  <2> QED
    BY <1>0, <1>2, <2>1, RefreshTaken DEF RefreshesOK
<1>10. ASSUME NEW i \in DOMAIN refreshes, ListDenied(i)
       PROVE  RefreshesOK'
  BY <1>10, IdentityGoes
<1>11. CASE logout \/ StreamBreaks \/ CallBegins
  BY <1>1, <1>11 DEF logout, StreamBreaks, CallBegins, rosterVars, authVars
<1>12. CASE LoginRefused
  BY <1>0, <1>12 DEF LoginRefused, rosterVars, RefreshesOK
<1>13. ASSUME NEW name \in Accounts, submit(name)
       PROVE  RefreshesOK'
  BY <1>0, <1>13 DEF submit, rosterVars, RefreshesOK
<1>14. ASSUME NEW name \in Accounts, CredentialEnds(name)
       PROVE  RefreshesOK'
  <2>1. /\ honoured' \subseteq honoured
        /\ UNCHANGED <<user, abandoned, generation, refreshTimer, refreshes>>
    BY <1>14 DEF CredentialEnds, rosterVars
  <2>2. Mine \subseteq Asking(user, honoured', abandoned)
    BY <2>1, AskingGrows DEF Mine
  <2>3. refreshes \in Seq(Asking(user, honoured', abandoned))
    BY <1>0, <2>2, SeqMonotone
  <2> QED
    BY <1>0, <2>1, <2>3 DEF RefreshesOK, Asking
<1>15. CASE StreamOpens \/ OverflowEnds \/ handle
  <2>1. UNCHANGED <<authVars, generation, refreshes>>
    BY <1>15, Zenon DEF StreamOpens, OverflowEnds, handle
  <2>2. user # Nobody
    <3>1. stream.state \in {"connecting", "open"}
      BY <1>15 DEF StreamOpens, OverflowEnds, handle
    <3>2. NoStream.state = "none"
      BY DEF NoStream
    <3>3. stream # NoStream
      BY <3>1, <3>2
    <3> QED
      BY <3>3 DEF ListIInv, StreamOK
  <2>3. refreshTimer' \in BOOLEAN
    BY <1>15, HandleCases DEF StreamOpens, OverflowEnds
  <2> QED
    BY <1>0, <1>2, <2>1, <2>2, <2>3
<1>16. ASSUME NEW s \in Shells, ServerChanges(s)
       PROVE  RefreshesOK'
  BY <1>1, <1>16 DEF ServerChanges
<1>17. CASE UNCHANGED sessionVars
  BY <1>1, <1>17 DEF sessionVars, rosterVars
<1> QED
  BY <1>3, <1>4, <1>5, <1>6, <1>7, <1>8, <1>9, <1>10, <1>11, <1>12, <1>13, <1>14, <1>15,
     <1>16, <1>17 DEF SessionListNext

LEMMA PublishedInv ==
  ASSUME ListIInv, NEW event \in {"session_created", "session_ended", "presence"},
         NEW sh \in Shells, Published(event, sh), user' = user
  PROVE  StreamOK'
<1>0. StreamOK
  BY DEF ListIInv
<1>1. CASE stream.state # "open" \/ stream.full
  BY <1>0, <1>1 DEF Published, StreamOK
<1>2. CASE stream.state = "open" /\ ~stream.full
  <2> DEFINE e == [event |-> event, shell |-> sh]
             o == [event |-> "overflow"]
             q == stream.queue
  <2>1. user # Nobody /\ stream \in OpenFor(user)
    BY <1>2, OpenStream
  <2>2. q \in Seq(Events) /\ Len(q) <= MaxEvents /\ Len(q) \in Nat
    BY <2>1, LenProperties DEF OpenFor, Queues
  <2>3. e \in Events /\ o \in Events
    BY DEF Events
  <2> HIDE DEF e, o
  <2>4. CASE Len(q) < MaxEvents
    <3> DEFINE next == Append(q, e)
    <3>1. next \in Queues
      BY <2>2, <2>3, <2>4, AppendProperties, SessionListConstants DEF Queues
    <3>2. stream' = [stream EXCEPT !.queue = next]
      BY <1>2, <2>4 DEF Published, e
    <3> HIDE DEF next
    <3>3. stream' \in OpenFor(user)
      BY <2>1, <3>1, <3>2 DEF OpenFor
    <3> QED
      BY <2>1, <3>3 DEF StreamOK
  <2>5. CASE ~(Len(q) < MaxEvents)
    <3> DEFINE next == Append(Tail(q), o)
    <3>1. Len(q) >= 1 /\ q # <<>>
      BY <2>2, <2>5, SessionListConstants, EmptySeq
    <3>2. Tail(q) \in Seq(Events) /\ Len(Tail(q)) = Len(q) - 1
      BY <2>2, <3>1, HeadTailProperties
    <3>3. next \in Seq(Events) /\ Len(next) = Len(Tail(q)) + 1
      BY <2>3, <3>2, AppendProperties
    <3>4. next \in Queues
      BY <2>2, <3>2, <3>3 DEF Queues
    <3>5. stream' = [stream EXCEPT !.queue = next, !.full = TRUE]
      BY <1>2, <2>5 DEF Published, o
    <3> HIDE DEF next
    <3>6. stream' \in OpenFor(user)
      BY <2>1, <3>4, <3>5 DEF OpenFor
    <3> QED
      BY <2>1, <3>6 DEF StreamOK
  <2> QED
    BY <2>4, <2>5
<1> QED
  BY <1>1, <1>2

LEMMA StreamInv == ListIInv /\ [SessionListNext]_sessionVars => StreamOK'
<1> SUFFICES ASSUME ListIInv, [SessionListNext]_sessionVars
             PROVE  StreamOK'
  OBVIOUS
<1>0. StreamOK /\ AccountsOK /\ RefreshesOK
  BY DEF ListIInv
<1>1. UNCHANGED <<user, stream>> => StreamOK'
  BY <1>0 DEF StreamOK
<1>2. user = Nobody => stream = NoStream
  BY <1>0 DEF StreamOK
<1>3. CASE restore
  <2>1. CASE UNCHANGED <<user, stream>>
    BY <1>1, <2>1
  <2>2. CASE ~UNCHANGED <<user, stream>>
    <3>1. user = Nobody /\ user' = cookie /\ cookie \in Accounts /\ startEvents
      BY <1>0, <1>3, <2>2 DEF restore, AccountsOK
    <3>2. user' # Nobody /\ stream' = [state |-> "connecting"]
      BY <1>2, <3>1, NobodyIsNoAccount DEF startEvents
    <3> QED
      BY <3>2 DEF StreamOK
  <2> QED
    BY <2>1, <2>2
<1>4. CASE LoginAccepted
  <2>1. user = Nobody /\ user' = asking /\ asking # Nobody /\ startEvents
    BY <1>0, <1>4 DEF LoginAccepted, Identified, AccountsOK
  <2>2. stream' = [state |-> "connecting"]
    BY <1>2, <2>1 DEF startEvents
  <2> QED
    BY <2>1, <2>2 DEF StreamOK
<1>5. CASE LogoutAnswered \/ expireSession \/ CallDenied
  BY <1>5, IdentityGoes
<1>6. ASSUME NEW i \in DOMAIN refreshes, ListDenied(i)
      PROVE  StreamOK'
  BY <1>6, IdentityGoes
<1>7. CASE StreamOpens
  <2>1. user # Nobody /\ cookie = user /\ user' = user
    BY <1>0, <1>7 DEF StreamOpens, StreamOK, AccountsOK, NoStream, authVars
  <2>2. <<>> \in Queues
    BY EmptySeq, SessionListConstants DEF Queues
  <2>3. stream' = [state |-> "open", as |-> user, queue |-> <<>>, full |-> FALSE]
    BY <1>7, <2>1 DEF StreamOpens
  <2>4. stream' \in OpenFor(user)
    BY <2>2, <2>3 DEF OpenFor
  <2> QED
    BY <2>1, <2>4 DEF StreamOK
<1>8. CASE StreamBreaks
  <2>1. user # Nobody /\ user' = user
    BY <1>0, <1>8 DEF StreamBreaks, StreamOK, NoStream, authVars
  <2> QED
    BY <1>8, <2>1 DEF StreamBreaks, StreamOK
<1>9. CASE handle
  <2>1. user' = user
    BY <1>9 DEF handle, authVars
  <2>2. user # Nobody /\ stream \in OpenFor(user)
    BY <1>9, HandleCases
  <2> DEFINE q == Tail(stream.queue)
  <2>3. q \in Queues
    <3>1. stream.queue \in Seq(Events) /\ Len(stream.queue) <= MaxEvents
      BY <2>2 DEF OpenFor, Queues
    <3>3. stream.queue # <<>>
      BY <1>9 DEF handle
    <3>2. q \in Seq(Events) /\ Len(q) = Len(stream.queue) - 1 /\ Len(q) \in Nat
      BY <3>1, <3>3, HeadTailProperties, LenProperties
    <3> QED
      BY <3>1, <3>2, SessionListConstants DEF Queues
  <2>4. stream' = [stream EXCEPT !.queue = q]
    BY <1>9, HandleCases
  <2> HIDE DEF q
  <2>5. [stream EXCEPT !.queue = q] \in OpenFor(user)
    BY <2>2, <2>3 DEF OpenFor
  <2> QED
    BY <2>1, <2>2, <2>4, <2>5 DEF StreamOK
<1>10. ASSUME NEW s \in Shells, ServerChanges(s)
       PROVE  StreamOK'
  BY <1>10, PublishedInv DEF ServerChanges, authVars
<1>11. CASE CallAnswered
  <2>1. user' = user
    BY <1>11 DEF CallAnswered, authVars
  <2>2. served \subseteq Shells /\ \A who \in honoured : VisibleTo[who] \subseteq Shells
    BY <1>0, SessionListConstants DEF AccountsOK, ListIInv, ListedOK
  <2>3. UNCHANGED stream \/ \E event \in {"session_created", "session_ended", "presence"} :
                              \E sh \in Shells : Published(event, sh)
    BY <1>11, <2>2 DEF CallAnswered
  <2> QED
    BY <1>1, <2>1, <2>3, PublishedInv
<1>12. CASE TimerFires \/ LoginRefused \/ logout \/ CallBegins
  BY <1>1, <1>12 DEF TimerFires, LoginRefused, logout, CallBegins, rosterVars, authVars
<1>13. ASSUME NEW i \in DOMAIN refreshes, ListServed(i) \/ ListArrives(i) \/ ListFails(i)
       PROVE  StreamOK'
  BY <1>1, <1>13 DEF ListServed, ListArrives, ListFails, authVars
<1>14. ASSUME NEW name \in Accounts, submit(name) \/ CredentialEnds(name)
       PROVE  StreamOK'
  BY <1>1, <1>14 DEF submit, CredentialEnds, rosterVars
<1>16. CASE OverflowEnds
  <2>1. user # Nobody /\ user' = user
    BY <1>16, OpenStream DEF OverflowEnds, authVars
  <2> QED
    BY <1>16, <2>1 DEF OverflowEnds, StreamOK
<1>15. CASE UNCHANGED sessionVars
  BY <1>1, <1>15 DEF sessionVars, authVars, rosterVars
<1> QED
  BY <1>3, <1>4, <1>5, <1>6, <1>7, <1>8, <1>9, <1>10, <1>11, <1>12, <1>13, <1>14, <1>15, <1>16
     DEF SessionListNext

-----------------------------------------------------------------------------
(* What the page shows.                                                    *)

LEMMA ListedInv == ListIInv /\ [SessionListNext]_sessionVars => ListedOK'
<1> SUFFICES ASSUME ListIInv, [SessionListNext]_sessionVars
             PROVE  ListedOK'
  OBVIOUS
<1>0. ListedOK /\ AccountsOK /\ RefreshesOK
  BY DEF ListIInv
<1>1. /\ served' \subseteq Shells /\ live' \subseteq live /\ listedFor' = listedFor
      /\ user' = user \/ user = Nobody
      /\ abandoned' = abandoned /\ lapsed' \in BOOLEAN
      => ListedOK'
  BY <1>0 DEF ListedOK
<1>2. ASSUME NEW i \in DOMAIN refreshes, ListArrives(i)
      PROVE  ListedOK'
  <2> DEFINE r == refreshes[i]
  <2>1. r \in Mine
    BY RefreshTaken
  <2>2. served' = served /\ user' = user /\ abandoned' = abandoned
    BY <1>2 DEF ListArrives, authVars
  <2>3. CASE r.epoch = generation
    <3>1. /\ live' = r.answer /\ listedFor' = r.by /\ r.answer \notin {Waiting, Denied}
          /\ lapsed' = (lapsed \/ Overtakes(i))
      BY <1>2, <2>3 DEF ListArrives
    <3>2. r.answer \in Answers /\ r.by \in Holders
      BY <2>1 DEF Mine, Asking, RefreshesOf, Entries
    <3>3. abandoned \/ (user # Nobody /\ r.by = user)
      BY <2>1, <2>3, <3>1 DEF Mine, Asking, RefreshesOf, Owned
    <3>4. live' \subseteq Shells /\ lapsed' \in BOOLEAN
      BY <3>1, <3>2 DEF Answers
    <3> QED
      BY <1>0, <2>2, <3>1, <3>2, <3>3, <3>4 DEF ListedOK
  <2>4. CASE r.epoch # generation
    BY <1>0, <1>2, <2>2, <2>4 DEF ListArrives, ListedOK
  <2> QED
    BY <2>3, <2>4
<1>3. CASE LogoutAnswered \/ expireSession \/ CallDenied
  BY <1>3, IdentityGoes
<1>4. ASSUME NEW i \in DOMAIN refreshes, ListDenied(i)
      PROVE  ListedOK'
  BY <1>4, IdentityGoes
<1>5. CASE restore \/ LoginAccepted
  <2>1. user = Nobody /\ UNCHANGED <<served, live, listedFor, abandoned>>
    BY <1>0, <1>5 DEF restore, LoginAccepted, AccountsOK
  <2>2. lapsed' \in BOOLEAN
    BY <1>0, <1>5 DEF restore, LoginAccepted, Identified, refreshAs, ListedOK
  <2> QED
    BY <1>0, <1>1, <2>1, <2>2 DEF ListedOK
<1>6. CASE handle
  <2>1. UNCHANGED <<user, abandoned, served, listedFor, lapsed>>
    BY <1>6 DEF handle, authVars
  <2>2. live' \subseteq live
    BY <1>6, HandleCases
  <2> QED
    BY <1>0, <1>1, <2>1, <2>2 DEF ListedOK
<1>7. ASSUME NEW s \in Shells, ServerChanges(s)
      PROVE  ListedOK'
  BY <1>0, <1>1, <1>7 DEF ServerChanges, authVars, ListedOK
<1>8. CASE CallAnswered
  <2>1. /\ UNCHANGED <<user, abandoned, listedFor>> /\ live' \subseteq live
        /\ lapsed' \in BOOLEAN
    BY <1>0, <1>8 DEF CallAnswered, refresh, refreshAs, authVars, ListedOK
  <2>2. served' \subseteq Shells
    <3>1. PICK c \in calls :
            /\ c.by \in honoured
            /\ \/ \E s \in VisibleTo[c.by] \ served : served' = served \cup {s}
               \/ served' = served \ {c.shell}
      BY <1>8 DEF CallAnswered
    <3>2. VisibleTo[c.by] \subseteq Shells
      BY <1>0, <3>1, SessionListConstants DEF AccountsOK
    <3> QED
      BY <1>0, <3>1, <3>2 DEF ListedOK
  <2> QED
    BY <1>1, <2>1, <2>2
<1>9. CASE TimerFires \/ LoginRefused \/ logout \/ CallBegins \/ StreamOpens \/ StreamBreaks
           \/ OverflowEnds
  <2>1. UNCHANGED <<user, abandoned, served, live, listedFor>>
    BY <1>9, Zenon DEF TimerFires, LoginRefused, logout, CallBegins, StreamOpens, StreamBreaks,
                       OverflowEnds, rosterVars, authVars
  <2>2. lapsed' \in BOOLEAN
    BY <1>0, <1>9 DEF TimerFires, refresh, refreshAs, LoginRefused, logout, CallBegins,
                      StreamOpens, StreamBreaks, OverflowEnds, rosterVars, ListedOK
  <2> QED
    BY <1>0, <1>1, <2>1, <2>2 DEF ListedOK
<1>10. ASSUME NEW i \in DOMAIN refreshes, ListServed(i) \/ ListFails(i)
       PROVE  ListedOK'
  BY <1>0, <1>1, <1>10 DEF ListServed, ListFails, authVars, ListedOK
<1>11. ASSUME NEW name \in Accounts, submit(name) \/ CredentialEnds(name)
       PROVE  ListedOK'
  BY <1>0, <1>1, <1>11 DEF submit, CredentialEnds, rosterVars, ListedOK
<1>12. CASE UNCHANGED sessionVars
  BY <1>0, <1>1, <1>12 DEF sessionVars, authVars, rosterVars, ListedOK
<1> QED
  BY <1>2, <1>3, <1>4, <1>5, <1>6, <1>7, <1>8, <1>9, <1>10, <1>11, <1>12 DEF SessionListNext

LEMMA OnlineInv == ListIInv /\ [SessionListNext]_sessionVars => OnlineOK'
<1> SUFFICES ASSUME ListIInv, [SessionListNext]_sessionVars
             PROVE  OnlineOK'
  OBVIOUS
<1>0. OnlineOK /\ AccountsOK /\ RefreshesOK
  BY DEF ListIInv
<1>1. user' = user /\ online' \subseteq online => OnlineOK'
  BY <1>0 DEF OnlineOK
<1>2. user = Nobody /\ UNCHANGED online => OnlineOK'
  BY <1>0 DEF OnlineOK, Seen
<1>3. CASE restore \/ LoginAccepted
  BY <1>0, <1>2, <1>3 DEF restore, LoginAccepted, AccountsOK
<1>4. CASE LogoutAnswered \/ expireSession \/ CallDenied
  BY <1>4, IdentityGoes
<1>5. ASSUME NEW i \in DOMAIN refreshes, ListDenied(i)
      PROVE  OnlineOK'
  BY <1>5, IdentityGoes
<1>6. CASE handle
  <2>1. user' = user
    BY <1>6 DEF handle, authVars
  <2>2. \/ online' \subseteq online
        \/ user # Nobody /\ \E sh \in VisibleTo[user] : online' = online \cup {sh}
    BY <1>6, HandleCases
  <2> QED
    BY <1>0, <2>1, <2>2 DEF OnlineOK, Seen
<1>7. CASE TimerFires \/ LoginRefused \/ logout \/ CallBegins \/ StreamOpens \/ StreamBreaks
           \/ OverflowEnds \/ CallAnswered
  <2>1. UNCHANGED <<user, online>>
    BY <1>7 DEF TimerFires, LoginRefused, logout, CallBegins, StreamOpens, StreamBreaks,
                OverflowEnds, CallAnswered, rosterVars, authVars
  <2> QED
    BY <1>1, <2>1
<1>8. ASSUME NEW i \in DOMAIN refreshes, ListServed(i) \/ ListArrives(i) \/ ListFails(i)
      PROVE  OnlineOK'
  BY <1>1, <1>8 DEF ListServed, ListArrives, ListFails, authVars
<1>9. ASSUME NEW name \in Accounts, submit(name) \/ CredentialEnds(name)
      PROVE  OnlineOK'
  BY <1>1, <1>9 DEF submit, CredentialEnds, rosterVars
<1>10. ASSUME NEW s \in Shells, ServerChanges(s)
       PROVE  OnlineOK'
  BY <1>1, <1>10 DEF ServerChanges, authVars
<1>11. CASE UNCHANGED sessionVars
  BY <1>1, <1>11 DEF sessionVars, authVars, rosterVars
<1> QED
  BY <1>3, <1>4, <1>5, <1>6, <1>7, <1>8, <1>9, <1>10, <1>11 DEF SessionListNext

-----------------------------------------------------------------------------
(* The theorems.                                                           *)

LEMMA ListInvariant == SessionListSpec => []ListIInv
<1>1. SessionListInit => ListIInv
  BY ListInitInv
<1>2. ListIInv /\ [SessionListNext]_sessionVars => ListIInv'
  BY AccountsInv, ListedInv, RefreshesInv, StreamInv, OnlineInv DEF ListIInv
<1> QED
  BY <1>1, <1>2, PTL DEF SessionListSpec

\* Until an identity is dropped whose credential the server still honours, the
\* page never shows one account a list fetched with another's credential, and it
\* knows of viewers only of terminals its account may see, whatever comes late.
THEOREM AccountsApart == SessionListSpec => []AccountIsolation
<1>1. ListIInv => AccountIsolation
  BY DEF ListIInv, ListedOK, OnlineOK, Seen, AccountIsolation
<1> QED
  BY <1>1, ListInvariant, PTL

\* The variables keep their types; the queue of an open stream its bound.
THEOREM ListTypes == SessionListSpec => []SessionListTypeOK
<1>1. ASSUME ListIInv
      PROVE  SessionListTypeOK
  <2>0. AccountsOK /\ ListedOK /\ RefreshesOK /\ StreamOK /\ OnlineOK
    BY <1>1 DEF ListIInv
  <2>1. online \subseteq Shells
    <3>1. CASE user = Nobody
      BY <2>0, <3>1 DEF OnlineOK, Seen
    <3>2. CASE user # Nobody
      BY <2>0, <3>2, SessionListConstants DEF OnlineOK, Seen, AccountsOK, Holders
    <3> QED
      BY <3>1, <3>2
  <2>2. ASSUME NEW r \in Range(refreshes)
        PROVE  /\ r.epoch \in 0 .. generation
               /\ r.by \in Holders
               /\ r.answer \in {Waiting, Denied} \cup SUBSET Shells
    <3>1. r \in RefreshesOf(generation, user, honoured, abandoned)
      BY <2>0, ElementOfSeq, LenProperties DEF Range, RefreshesOK
    <3>2. r \in Entries /\ r.epoch <= generation /\ generation \in Nat
      BY <2>0, <3>1 DEF RefreshesOf, RefreshesOK
    <3> QED
      BY <3>2 DEF Entries, Answers
  <2>3. /\ stream.state \in {"none", "connecting", "open"}
        /\ stream.state = "open" =>
             /\ stream.as \in Accounts /\ stream.full \in BOOLEAN
             /\ stream.queue \in SeqOf(Events, MaxEvents)
    <3>1. CASE stream = NoStream \/ stream = [state |-> "connecting"]
      BY <3>1 DEF NoStream
    <3>2. CASE user # Nobody /\ stream \in OpenFor(user)
      <4> DEFINE q == stream.queue
                 E == Events
      <4>1. /\ stream.state = "open" /\ stream.as = user
            /\ stream.full \in BOOLEAN /\ q \in Queues
        BY <3>2 DEF OpenFor
      <4>2. q \in Seq(E) /\ Len(q) <= MaxEvents /\ Len(q) \in Nat
        BY <4>1, LenProperties DEF Queues
      <4>3. q \in [1 .. Len(q) -> E] /\ Len(q) \in 0 .. MaxEvents
        BY <4>2, SessionListConstants, LenProperties, ElementOfSeq
      <4> HIDE DEF q, E
      <4>4. q \in SeqOf(E, MaxEvents)
        BY <4>3 DEF SeqOf
      <4>5. user \in Accounts
        BY <2>0, <3>2 DEF AccountsOK, Holders
      <4> QED
        BY <4>1, <4>4, <4>5 DEF q, E
    <3> QED
      BY <2>0, <3>1, <3>2 DEF StreamOK
  <2> QED
    BY <2>0, <2>1, <2>2, <2>3 DEF SessionListTypeOK, AccountsOK, ListedOK, RefreshesOK
<1> QED
  BY <1>1, ListInvariant, PTL

-----------------------------------------------------------------------------
(***************************************************************************)
(* The file panel.  A file that is sent again was agreed to, under the     *)
(* index it still has; a draft in the open editor is dirty, so a closing   *)
(* asks.                                                                   *)
(***************************************************************************)
Loads == [dir : Dirs, append : BOOLEAN, offset : Nat]
Saves == [file : Files, mtime : 0 .. MaxVersion, text : Texts, typedOn : BOOLEAN]
Questions == [what : {"remove", "rename", "discard", "moot"}, about : Files]
               \cup [what : {"overwrite"}, about : Nat]
Jobs == [dir : Dirs, index : 1 .. Len(Chosen), queued : BOOLEAN,
         stage : {"sending", "asking", "resending", "over"}]

DiskOK == disk \in [Files -> 0 .. MaxVersion] /\ versions \in 1 .. MaxVersion
ListOK == path \in Dirs /\ entries \in Seq(Files) /\ loads \subseteq Loads
DialogsOK == dialogs \in Seq(Questions) /\ Len(dialogs) <= MaxQuestions
ClicksOK == clicks \in 0 .. MaxClicks /\ panel \in {"shown", "closed", "signedOut"}

\* A draft in the open editor is dirty, and what was sent since it was typed is it.
EditorOK ==
  /\ readings \subseteq Files /\ editor \in [file : Files, mtime : 0 .. MaxVersion]
  /\ doc \in Texts /\ dirty \in BOOLEAN /\ saves \subseteq Saves
  /\ editor # Closed /\ doc \in Drafts =>
       dirty /\ \A s \in saves : s.text = doc \/ s.typedOn

\* A file that is sent again was agreed to.
UploadsOK ==
  /\ uploads \in Seq(Jobs)
  /\ \A l \in Loops : uploads[l].stage = "resending" => <<l, uploads[l].index>> \in agreed
  /\ OverwriteAgreed

FileIInv == DiskOK /\ ListOK /\ DialogsOK /\ ClicksOK /\ EditorOK /\ UploadsOK

-----------------------------------------------------------------------------
(* Data.                                                                   *)

\* A set of files is listed as a sequence of them, and cut as one.
LEMMA PageType ==
  ASSUME NEW dir \in Dirs, NEW offset \in Nat
  PROVE  Page(dir, offset) \in Seq(Files)
<1> DEFINE S == {f \in Files : f.dir = dir /\ disk[f] # Absent}
           n == Cardinality(S)
<1>1. IsFiniteSet(S)
  BY FilePanelBounds, FS_Subset DEF Files
<1>2. n \in Nat /\ ExistsBijection(1 .. n, S)
  BY <1>1, FS_CardinalityType
<1>3. \E f \in [1 .. n -> S] : IsInjective(f)
  BY <1>2 DEF ExistsBijection, Bijection, Injection, IsInjective
<1>4. Listing(dir) \in [1 .. n -> S]
  BY <1>3 DEF Listing, SetToSeq
<1> DEFINE last == IF offset + PageSize < Len(Listing(dir)) THEN offset + PageSize
                   ELSE Len(Listing(dir))
<1>5. Len(Listing(dir)) = n /\ last \in Int /\ last <= n
  <2>1. Listing(dir) \in Seq(S)
    BY <1>2, <1>4, SeqDef
  <2>2. Len(Listing(dir)) = n
    BY <1>2, <1>4, <2>1, LenProperties
  <2> QED
    BY <1>2, <2>2, FilePanelBounds
<1>6. \A i \in offset + 1 .. last : Listing(dir)[i] \in Files
  BY <1>2, <1>4, <1>5
<1>7. SubSeq(Listing(dir), offset + 1, last) \in Seq(Files)
  BY <1>5, <1>6, SubSeqProperties
<1> QED
  BY <1>7 DEF Page

LEMMA PutTyped ==
  ASSUME DiskOK, NEW target, Put(target), CanWrite
  PROVE  DiskOK'
<1>1. versions + 1 \in 1 .. MaxVersion /\ versions + 1 \in 0 .. MaxVersion
  BY FilePanelBounds DEF DiskOK, CanWrite
<1> DEFINE v == versions + 1
<1>2. disk' = [disk EXCEPT ![target] = v] /\ versions' = v
  BY DEF Put
<1> HIDE DEF v
<1>3. disk' \in [Files -> 0 .. MaxVersion]
  BY <1>1, <1>2 DEF DiskOK, v
<1> QED
  BY <1>1, <1>2, <1>3 DEF DiskOK, v

LEMMA FileInitInv == FileInit => FileIInv
<1> SUFFICES ASSUME FileInit
             PROVE  FileIInv
  OBVIOUS
<1>1. DiskOK
  BY FilePanelBounds DEF FileInit, DiskOK, Absent
<1>2. ListOK
  BY FilePanelBounds, EmptySeq DEF FileInit, ListOK, Loads
<1>3. DialogsOK /\ ClicksOK
  BY FilePanelBounds, EmptySeq DEF FileInit, DialogsOK, ClicksOK
<1>4. EditorOK
  <2>1. Files # {}
    <3>1. PICK name \in Names : TRUE
      BY FilePanelBounds
    <3>2. [dir |-> Home, name |-> name] \in Files
      BY FilePanelBounds DEF Files
    <3> QED
      BY <3>2
  <2>2. Closed \in [file : Files, mtime : 0 .. MaxVersion]
    BY <2>1, FilePanelBounds DEF Closed, Absent
  <2> QED
    <3>1. 0 \in 0 .. MaxVersion + 2
      BY FilePanelBounds
    <3> QED
      BY <2>2, <3>1 DEF FileInit, EditorOK, Texts
<1>5. UploadsOK
  BY EmptySeq DEF FileInit, UploadsOK, OverwriteAgreed, Loops
<1> QED
  BY <1>1, <1>2, <1>3, <1>4, <1>5 DEF FileIInv

-----------------------------------------------------------------------------
(* The disk.                                                               *)

LEMMA QuestionType ==
  ASSUME FileIInv, dialogs # <<>>
  PROVE  /\ Head(dialogs) \in Questions /\ Tail(dialogs) \in Seq(Questions)
         /\ Len(Tail(dialogs)) <= MaxQuestions
         /\ Head(dialogs).what # "overwrite" => Head(dialogs).about \in Files
<1>1. dialogs \in Seq(Questions) /\ Len(dialogs) <= MaxQuestions
  BY DEF FileIInv, DialogsOK
<1>2. /\ Head(dialogs) \in Questions /\ Tail(dialogs) \in Seq(Questions)
      /\ Len(Tail(dialogs)) = Len(dialogs) - 1
  BY <1>1, HeadTailProperties
<1>3. Len(Tail(dialogs)) <= MaxQuestions
  BY <1>1, <1>2, LenProperties, FilePanelBounds
<1> QED
  BY <1>2, <1>3 DEF Questions

LEMMA DiskInv == FileIInv /\ [FileNext]_fileVars => DiskOK'
<1> SUFFICES ASSUME FileIInv, [FileNext]_fileVars
             PROVE  DiskOK'
  OBVIOUS
<1> USE DEF FileIInv
<1>1. ASSUME NEW target \in Files, OtherWrites(target)
      PROVE  DiskOK'
  BY <1>1, PutTyped DEF OtherWrites
<1>2. ASSUME NEW l \in Loops, SentFirst(l)
      PROVE  DiskOK'
  BY <1>2, PutTyped DEF SentFirst, diskVars, DiskOK
<1>3. ASSUME NEW l \in Loops, SentAgain(l)
      PROVE  DiskOK'
  BY <1>3, PutTyped DEF SentAgain
<1>4. ASSUME NEW s \in saves, SaveSucceeds(s)
      PROVE  DiskOK'
  BY <1>4, PutTyped DEF SaveSucceeds
<1>5. CASE removeConfirmed
  <2>1. Absent \in 0 .. MaxVersion
    BY FilePanelBounds DEF Absent
  <2> QED
    BY <1>5, <2>1 DEF removeConfirmed, DiskOK
<1>6. ASSUME NEW name \in Names, renamePrompted(name)
      PROVE  DiskOK'
  <2>1. Head(dialogs).about \in Files
    BY <1>6, QuestionType DEF renamePrompted, Current
  <2>2. join(Head(dialogs).about.name) \in Files
    BY <2>1 DEF join, File, Files, ListOK
  <2>3. Absent \in 0 .. MaxVersion
    BY FilePanelBounds DEF Absent
  <2> DEFINE from == join(Head(dialogs).about.name)
  <2>4. /\ versions' = versions
        /\ \/ disk' = disk
           \/ disk' = [disk EXCEPT ![from] = Absent, ![join(name)] = disk[from]]
    BY <1>6 DEF renamePrompted
  <2> HIDE DEF from
  <2>5. disk[from] \in 0 .. MaxVersion
    BY <2>2 DEF DiskOK, from
  <2> QED
    BY <2>3, <2>4, <2>5 DEF DiskOK
<1>7. SUFFICES ASSUME ~(\E target \in Files : OtherWrites(target)),
                      ~(\E l \in Loops : SentFirst(l) \/ SentAgain(l)),
                      ~(\E s \in saves : SaveSucceeds(s)), ~removeConfirmed,
                      ~(\E name \in Names : renamePrompted(name))
               PROVE  UNCHANGED diskVars
  BY <1>1, <1>2, <1>3, <1>4, <1>5, <1>6 DEF diskVars, DiskOK
<1> HIDE DEF FileIInv
<1>8. ASSUME NEW dir \in Dirs, Navigate(dir) \/ uploadFiles(dir)
      PROVE  UNCHANGED diskVars
  BY <1>8, Zenon DEF Navigate, uploadFiles
<1>9. ASSUME NEW l \in loads, LoadAnswers(l) \/ LoadFails(l)
      PROVE  UNCHANGED diskVars
  BY <1>9, Zenon DEF LoadAnswers, LoadFails
<1>10. ASSUME NEW entry \in ToSet(entries),
              AskAbout("remove", entry) \/ AskAbout("rename", entry) \/ openText(entry)
       PROVE  UNCHANGED diskVars
  BY <1>10, Zenon DEF AskAbout, openText
<1>11. ASSUME NEW target \in readings, ReadAnswers(target)
       PROVE  UNCHANGED diskVars
  BY <1>11, Zenon DEF ReadAnswers
<1>12. ASSUME NEW s \in saves, SaveRefused(s)
       PROVE  UNCHANGED diskVars
  BY <1>12, Zenon DEF SaveRefused
<1>13. ASSUME NEW l \in Loops, UploadFails(l)
       PROVE  UNCHANGED diskVars
  BY <1>13, Zenon DEF UploadFails
<1>14. ASSUME NEW yes \in BOOLEAN, overwriteAnswered(yes)
       PROVE  UNCHANGED diskVars
  BY <1>14, Zenon DEF overwriteAnswered
<1>15. CASE loadMore \/ Declined \/ Type \/ save \/ requestClose \/ discardConfirmed
  BY <1>15, Zenon DEF loadMore, Declined, Type, save, requestClose, discardConfirmed
<1>16. CASE ClearQueue \/ ClosePanel \/ SignedOut
  BY <1>16, Zenon DEF ClearQueue, ClosePanel, SignedOut, Unmounted
<1>17. CASE UNCHANGED fileVars
  BY <1>17 DEF fileVars, diskVars
<1> QED
  BY <1>7, <1>8, <1>9, <1>10, <1>11, <1>12, <1>13, <1>14, <1>15, <1>16, <1>17 DEF FileNext

-----------------------------------------------------------------------------
(* The listing.                                                            *)

LEMMA LoadBegun ==
  ASSUME FileIInv, NEW dir \in Dirs, NEW append \in BOOLEAN, load(dir, append)
  PROVE  loads' \subseteq Loads
<1> DEFINE offset == IF append THEN Len(entries) ELSE 0
<1>1. offset \in Nat
  BY LenProperties DEF FileIInv, ListOK
<1>2. loads' = loads \cup {[dir |-> dir, append |-> append, offset |-> offset]}
  BY DEF load
<1> HIDE DEF offset
<1> QED
  BY <1>1, <1>2 DEF FileIInv, ListOK, Loads

LEMMA Refreshed ==
  ASSUME FileIInv, Refresh
  PROVE  loads' \subseteq Loads
<1>1. CASE load(path, FALSE)
  BY <1>1, LoadBegun DEF FileIInv, ListOK
<1>2. CASE UNCHANGED loads
  BY <1>2 DEF FileIInv, ListOK
<1> QED
  BY <1>1, <1>2 DEF Refresh

LEMMA OnwardLoads ==
  ASSUME FileIInv, NEW l, NEW set, Onward(l, set)
  PROVE  loads' \subseteq Loads
  BY Refreshed DEF Onward, FileIInv, ListOK

LEMMA ListInv == FileIInv /\ [FileNext]_fileVars => ListOK'
<1> SUFFICES ASSUME FileIInv, [FileNext]_fileVars
             PROVE  ListOK'
  OBVIOUS
<1>0. ListOK
  BY DEF FileIInv
<1>1. ASSUME NEW dir \in Dirs, Navigate(dir)
      PROVE  ListOK'
  BY <1>0, <1>1, LoadBegun DEF Navigate, ListOK
<1>2. CASE loadMore
  BY <1>0, <1>2, LoadBegun DEF loadMore, ListOK
<1>3. ASSUME NEW l \in loads, LoadAnswers(l)
      PROVE  ListOK'
  <2>1. l.dir \in Dirs /\ l.offset \in Nat
    BY <1>0 DEF ListOK, Loads
  <2>2. Page(l.dir, l.offset) \in Seq(Files) /\ Page(l.dir, 0) \in Seq(Files)
    BY <2>1, PageType
  <2>3. entries' \in Seq(Files)
    BY <1>0, <1>3, <2>2, ConcatProperties DEF LoadAnswers, ListOK
  <2> QED
    BY <1>0, <1>3, <2>1, <2>3 DEF LoadAnswers, ListOK
<1>4. ASSUME NEW l \in loads, LoadFails(l)
      PROVE  ListOK'
  BY <1>0, <1>4 DEF LoadFails, ListOK
<1>5. CASE removeConfirmed
  BY <1>0, <1>5, Refreshed DEF removeConfirmed, ListOK
<1>6. ASSUME NEW name \in Names, renamePrompted(name)
      PROVE  ListOK'
  BY <1>0, <1>6, Refreshed DEF renamePrompted, ListOK
<1>7. ASSUME NEW s \in saves, SaveSucceeds(s)
      PROVE  ListOK'
  BY <1>0, <1>7, Refreshed DEF SaveSucceeds, ListOK
<1>8. ASSUME NEW l \in Loops, SentFirst(l) \/ SentAgain(l) \/ UploadFails(l)
      PROVE  ListOK'
  <2>1. loads' \subseteq Loads
    BY <1>0, <1>8, OnwardLoads DEF SentFirst, SentAgain, UploadFails, ListOK
  <2>2. UNCHANGED <<path, entries>>
    BY <1>8, Zenon DEF SentFirst, SentAgain, UploadFails
  <2> QED
    BY <1>0, <2>1, <2>2 DEF ListOK
<1>9. ASSUME NEW yes \in BOOLEAN, overwriteAnswered(yes)
      PROVE  ListOK'
  <2>1. loads' \subseteq Loads
    BY <1>0, <1>9, OnwardLoads DEF overwriteAnswered, ListOK
  <2>2. UNCHANGED <<path, entries>>
    BY <1>9, Zenon DEF overwriteAnswered
  <2> QED
    BY <1>0, <2>1, <2>2 DEF ListOK
<1>10. UNCHANGED listVars => ListOK'
  BY <1>0 DEF ListOK, listVars
<1>11. ASSUME NEW dir \in Dirs, uploadFiles(dir)
       PROVE  UNCHANGED listVars
  BY <1>11, Zenon DEF uploadFiles
<1>12. ASSUME NEW entry \in ToSet(entries),
              AskAbout("remove", entry) \/ AskAbout("rename", entry) \/ openText(entry)
       PROVE  UNCHANGED listVars
  BY <1>12, Zenon DEF AskAbout, openText
<1>13. ASSUME NEW target \in readings, ReadAnswers(target)
       PROVE  UNCHANGED listVars
  BY <1>13, Zenon DEF ReadAnswers
<1>14. ASSUME NEW s \in saves, SaveRefused(s)
       PROVE  UNCHANGED listVars
  BY <1>14, Zenon DEF SaveRefused
<1>15. ASSUME NEW target \in Files, OtherWrites(target)
       PROVE  UNCHANGED listVars
  BY <1>15, Zenon DEF OtherWrites
<1>16. CASE Declined \/ Type \/ save \/ requestClose \/ discardConfirmed
  BY <1>10, <1>16, Zenon DEF Declined, Type, save, requestClose, discardConfirmed
<1>17. CASE ClearQueue \/ ClosePanel \/ SignedOut
  BY <1>10, <1>17, Zenon DEF ClearQueue, ClosePanel, SignedOut, Unmounted
<1>18. CASE UNCHANGED fileVars
  BY <1>10, <1>18 DEF fileVars, listVars
<1> QED
  BY <1>1, <1>2, <1>3, <1>4, <1>5, <1>6, <1>7, <1>8, <1>9, <1>10, <1>11, <1>12, <1>13, <1>14,
     <1>15, <1>16, <1>17, <1>18 DEF FileNext

-----------------------------------------------------------------------------
(* The questions.                                                          *)

LEMMA AskTyped ==
  ASSUME FileIInv, NEW what, NEW about, Ask(what, about),
         [what |-> what, about |-> about] \in Questions
  PROVE  DialogsOK'
<1> DEFINE q == [what |-> what, about |-> about]
<1>1. Len(dialogs) < MaxQuestions /\ dialogs' = Append(dialogs, q)
  BY DEF Ask
<1> HIDE DEF q
<1>2. dialogs \in Seq(Questions) /\ q \in Questions
  BY DEF FileIInv, DialogsOK, q
<1>3. dialogs' \in Seq(Questions) /\ Len(dialogs') = Len(dialogs) + 1 /\ Len(dialogs) \in Nat
  BY <1>1, <1>2, AppendProperties, LenProperties
<1> QED
  BY <1>1, <1>3, FilePanelBounds DEF DialogsOK

LEMMA DialogsInv == FileIInv /\ [FileNext]_fileVars => DialogsOK'
<1> SUFFICES ASSUME FileIInv, [FileNext]_fileVars
             PROVE  DialogsOK'
  OBVIOUS
<1>1. ASSUME dialogs # <<>>, resolveDialog
      PROVE  DialogsOK'
  BY <1>1, QuestionType DEF resolveDialog, DialogsOK
<1>2. UNCHANGED dialogs => DialogsOK'
  BY DEF FileIInv, DialogsOK
<1>3. ASSUME NEW entry \in ToSet(entries),
             AskAbout("remove", entry) \/ AskAbout("rename", entry)
      PROVE  DialogsOK'
  <2>1. PICK what \in {"remove", "rename"} : Ask(what, entry)
    BY <1>3 DEF AskAbout
  <2>2. entry \in Files
    BY LenProperties, ElementOfSeq DEF FileIInv, ListOK, ToSet
  <2> QED
    BY <2>1, <2>2, AskTyped DEF Questions
<1>4. CASE removeConfirmed \/ Declined \/ discardConfirmed
  BY <1>1, <1>4, Zenon DEF removeConfirmed, Declined, discardConfirmed, Current
<1>5. ASSUME NEW name \in Names, renamePrompted(name)
      PROVE  DialogsOK'
  BY <1>1, <1>5, Zenon DEF renamePrompted, Current
<1>6. ASSUME NEW yes \in BOOLEAN, overwriteAnswered(yes)
      PROVE  DialogsOK'
  BY <1>1, <1>6, Zenon DEF overwriteAnswered, Current
<1>7. CASE requestClose
  <2>1. editor.file \in Files
    BY DEF FileIInv, EditorOK
  <2>2. [what |-> "discard", about |-> editor.file] \in Questions
    BY <2>1 DEF Questions
  <2> QED
    BY <1>2, <1>7, <2>2, AskTyped DEF requestClose
<1>8. ASSUME NEW l \in Loops, SentFirst(l)
      PROVE  DialogsOK'
  <2>1. l \in Nat
    BY LenProperties DEF FileIInv, UploadsOK, Loops
  <2>2. [what |-> "overwrite", about |-> l] \in Questions
    BY <2>1 DEF Questions
  <2> QED
    BY <1>2, <1>8, <2>2, AskTyped DEF SentFirst
<1>9. CASE SignedOut
  BY <1>9, EmptySeq, FilePanelBounds DEF SignedOut, DialogsOK
<1>10. ASSUME NEW dir \in Dirs, Navigate(dir) \/ uploadFiles(dir)
       PROVE  UNCHANGED dialogs
  BY <1>10, Zenon DEF Navigate, uploadFiles
<1>11. ASSUME NEW l \in loads, LoadAnswers(l) \/ LoadFails(l)
       PROVE  UNCHANGED dialogs
  BY <1>11, Zenon DEF LoadAnswers, LoadFails
<1>12. ASSUME NEW entry \in ToSet(entries), openText(entry)
       PROVE  UNCHANGED dialogs
  BY <1>12, Zenon DEF openText
<1>13. ASSUME NEW target \in readings, ReadAnswers(target)
       PROVE  UNCHANGED dialogs
  BY <1>13, Zenon DEF ReadAnswers
<1>14. ASSUME NEW s \in saves, SaveSucceeds(s)
       PROVE  DialogsOK'
  <2> DEFINE J(i) == Moot(dialogs[i])
             n == Len(dialogs)
  <2>1. /\ dialogs \in Seq(Questions) /\ n <= MaxQuestions
        /\ n \in Nat /\ DOMAIN dialogs = 1 .. n
    BY LenProperties DEF FileIInv, DialogsOK
  <2>2. ASSUME NEW i \in 1 .. n
        PROVE  J(i) \in Questions
    <3>1. dialogs[i] \in Questions
      BY <2>1, <2>2, ElementOfSeq
    <3> QED
      BY <3>1 DEF Questions, Moot
  <2>3. dialogs' = [i \in 1 .. n |-> J(i)]
    BY <1>14, <2>1 DEF SaveSucceeds
  <2> HIDE DEF J
  <2>4. dialogs' \in Seq(Questions)
    BY <2>1, <2>2, <2>3, IsASeq
  <2>5. Len(dialogs') = n
    BY <2>1, <2>3
  <2> QED
    BY <2>1, <2>4, <2>5 DEF DialogsOK
<1>19. ASSUME NEW s \in saves, SaveRefused(s)
       PROVE  UNCHANGED dialogs
  BY <1>19, Zenon DEF SaveRefused
<1>15. ASSUME NEW l \in Loops, SentAgain(l) \/ UploadFails(l)
       PROVE  UNCHANGED dialogs
  BY <1>15, Zenon DEF SentAgain, UploadFails
<1>16. ASSUME NEW target \in Files, OtherWrites(target)
       PROVE  UNCHANGED dialogs
  BY <1>16, Zenon DEF OtherWrites
<1>17. CASE loadMore \/ Type \/ save \/ ClearQueue \/ ClosePanel
  BY <1>2, <1>17, Zenon DEF loadMore, Type, save, ClearQueue, ClosePanel
<1>18. CASE UNCHANGED fileVars
  BY <1>2, <1>18 DEF fileVars
<1> QED
  BY <1>2, <1>3, <1>4, <1>5, <1>6, <1>7, <1>8, <1>9, <1>10, <1>11, <1>12, <1>13, <1>14, <1>15,
     <1>16, <1>17, <1>18, <1>19 DEF FileNext

-----------------------------------------------------------------------------
(* The clicks and the panel.                                               *)

LEMMA ClicksInv == FileIInv /\ [FileNext]_fileVars => ClicksOK'
<1> SUFFICES ASSUME FileIInv, [FileNext]_fileVars
             PROVE  ClicksOK'
  OBVIOUS
<1>0. ClicksOK
  BY DEF FileIInv
<1>1. clicks < MaxClicks /\ clicks' = clicks + 1 /\ panel' = panel => ClicksOK'
  BY <1>0, FilePanelBounds DEF ClicksOK
<1>2. clicks' = clicks /\ panel' = panel => ClicksOK'
  BY <1>0 DEF ClicksOK
<1>3. ASSUME NEW dir \in Dirs, Navigate(dir) \/ uploadFiles(dir)
      PROVE  ClicksOK'
  BY <1>1, <1>3, Zenon DEF Navigate, uploadFiles, Click
<1>4. ASSUME NEW entry \in ToSet(entries),
             AskAbout("remove", entry) \/ AskAbout("rename", entry) \/ openText(entry)
      PROVE  ClicksOK'
  BY <1>1, <1>4, Zenon DEF AskAbout, openText, Click
<1>5. ASSUME NEW target \in Files, OtherWrites(target)
      PROVE  ClicksOK'
  BY <1>1, <1>5, Zenon DEF OtherWrites
<1>6. CASE loadMore
  BY <1>1, <1>6, Zenon DEF loadMore, Click
<1>7. CASE ClosePanel \/ SignedOut
  BY <1>0, <1>7 DEF ClosePanel, SignedOut, Unmounted, ClicksOK
<1>8. ASSUME NEW l \in loads, LoadAnswers(l) \/ LoadFails(l)
      PROVE  ClicksOK'
  BY <1>2, <1>8, Zenon DEF LoadAnswers, LoadFails
<1>9. ASSUME NEW target \in readings, ReadAnswers(target)
      PROVE  ClicksOK'
  BY <1>2, <1>9, Zenon DEF ReadAnswers
<1>10. ASSUME NEW s \in saves, SaveSucceeds(s) \/ SaveRefused(s)
       PROVE  ClicksOK'
  BY <1>2, <1>10, Zenon DEF SaveSucceeds, SaveRefused
<1>11. ASSUME NEW l \in Loops, SentFirst(l) \/ SentAgain(l) \/ UploadFails(l)
       PROVE  ClicksOK'
  BY <1>2, <1>11, Zenon DEF SentFirst, SentAgain, UploadFails
<1>12. ASSUME NEW yes \in BOOLEAN, overwriteAnswered(yes)
       PROVE  ClicksOK'
  BY <1>2, <1>12, Zenon DEF overwriteAnswered
<1>13. ASSUME NEW name \in Names, renamePrompted(name)
       PROVE  ClicksOK'
  BY <1>2, <1>13, Zenon DEF renamePrompted
<1>14. CASE removeConfirmed \/ Declined \/ Type \/ save \/ requestClose \/ discardConfirmed
  BY <1>2, <1>14, Zenon
     DEF removeConfirmed, Declined, Type, save, requestClose, discardConfirmed
<1>15. CASE ClearQueue
  BY <1>2, <1>15, Zenon DEF ClearQueue
<1>16. CASE UNCHANGED fileVars
  BY <1>2, <1>16 DEF fileVars
<1> QED
  BY <1>3, <1>4, <1>5, <1>6, <1>7, <1>8, <1>9, <1>10, <1>11, <1>12, <1>13, <1>14, <1>15, <1>16
     DEF FileNext

-----------------------------------------------------------------------------
(* The editor.                                                             *)

LEMMA ClosedType == Closed \in [file : Files, mtime : 0 .. MaxVersion]
<1>1. PICK name \in Names : TRUE
  BY FilePanelBounds
<1>2. [dir |-> Home, name |-> name] \in Files
  BY FilePanelBounds DEF Files
<1> QED
  BY <1>2, FilePanelBounds DEF Closed, Absent

\* A step in which the editor closes.
LEMMA EditorCloses ==
  ASSUME FileIInv, editor' = Closed, dirty' = FALSE, doc' = doc, readings' = readings,
         saves' \subseteq saves
  PROVE  EditorOK'
  BY ClosedType DEF FileIInv, EditorOK

LEMMA EditorInv == FileIInv /\ [FileNext]_fileVars => EditorOK'
<1> SUFFICES ASSUME FileIInv, [FileNext]_fileVars
             PROVE  EditorOK'
  OBVIOUS
<1>0. EditorOK
  BY DEF FileIInv
<1>1. UNCHANGED editorVars => EditorOK'
  BY <1>0 DEF EditorOK, editorVars
<1>2. ASSUME NEW entry \in ToSet(entries), openText(entry)
      PROVE  EditorOK'
  <2>1. entry \in Files
    BY LenProperties, ElementOfSeq DEF FileIInv, ListOK, ToSet
  <2>2. join(entry.name) \in Files
    BY <2>1 DEF join, File, Files, FileIInv, ListOK
  <2> QED
    BY <1>0, <1>2, <2>2 DEF openText, EditorOK
<1>3. ASSUME NEW target \in readings, ReadAnswers(target)
      PROVE  EditorOK'
  <2>1. target \in Files /\ disk[target] \in 0 .. MaxVersion
    BY <1>0 DEF EditorOK, FileIInv, DiskOK
  <2>2. join(target.name) \in Files
    BY <2>1 DEF join, File, Files, FileIInv, ListOK
  <2>3. disk[target] \in Texts /\ disk[target] \notin Drafts
    BY <2>1, FilePanelBounds DEF Texts, Drafts
  <2>4. CASE panel # "shown" \/ disk[target] = Absent
    BY <1>0, <1>3, <2>4 DEF ReadAnswers, EditorOK
  <2>5. CASE ~(panel # "shown" \/ disk[target] = Absent) /\ editor = Closed
    <3> DEFINE d == disk[target]
               e == [file |-> join(target.name), mtime |-> d]
    <3>1. editor' = e /\ doc' = d /\ dirty' = FALSE
      BY <1>3, <2>5 DEF ReadAnswers
    <3>2. readings' \subseteq readings /\ saves' = saves
      BY <1>3 DEF ReadAnswers
    <3>3. d \in 0 .. MaxVersion /\ d \in Texts /\ d \notin Drafts
      BY <2>1, <2>3
    <3> HIDE DEF d
    <3>4. e \in [file : Files, mtime : 0 .. MaxVersion]
      BY <2>2, <3>3
    <3> QED
      BY <1>0, <3>1, <3>2, <3>3, <3>4 DEF EditorOK
  <2>6. CASE ~(panel # "shown" \/ disk[target] = Absent) /\ editor # Closed
    BY <1>0, <1>3, <2>1, <2>2, <2>6 DEF ReadAnswers, EditorOK
  <2> QED
    BY <2>4, <2>5, <2>6
<1>4. CASE Type
  <2>1. editor.mtime \in 0 .. MaxVersion
    BY <1>0 DEF EditorOK
  <2>2. /\ editor.mtime \notin Drafts /\ editor.mtime \in Texts /\ Drafts \subseteq Texts
    BY <2>1, FilePanelBounds DEF Texts, Drafts
  <2>3. ASSUME NEW s \in saves
        PROVE  [s EXCEPT !.typedOn = TRUE] \in Saves /\ [s EXCEPT !.typedOn = TRUE].typedOn
    BY <1>0 DEF EditorOK, Saves
  <2>4. saves' \subseteq Saves /\ \A s \in saves' : s.typedOn
    BY <1>4, <2>3 DEF Type
  <2>5. /\ editor # Closed /\ UNCHANGED <<readings, editor>>
        /\ doc' \in Drafts \cup {editor.mtime} /\ dirty' = (doc' # editor.mtime)
    BY <1>4 DEF Type
  <2> QED
    BY <1>0, <2>2, <2>4, <2>5 DEF EditorOK
<1>5. CASE save
  <2>1. Sent \in Saves /\ Sent.text = doc
    BY <1>0 DEF EditorOK, Saves, Sent
  <2>2. saves' = saves \cup {Sent} /\ UNCHANGED <<readings, editor, doc, dirty>>
    BY <1>5 DEF save
  <2> QED
    BY <1>0, <2>1, <2>2 DEF EditorOK
<1>6. ASSUME NEW s \in saves, SaveSucceeds(s)
      PROVE  EditorOK'
  BY <1>6, EditorCloses DEF SaveSucceeds
<1>7. ASSUME NEW s \in saves, SaveRefused(s)
      PROVE  EditorOK'
  BY <1>0, <1>7 DEF SaveRefused, EditorOK
<1>8. CASE requestClose
  BY <1>0, <1>8, ClosedType DEF requestClose, EditorOK
<1>9. CASE discardConfirmed
  BY <1>9, EditorCloses DEF discardConfirmed
<1>10. CASE ClosePanel \/ SignedOut
  BY <1>10, EditorCloses DEF ClosePanel, SignedOut, Unmounted
<1>11. ASSUME NEW dir \in Dirs, Navigate(dir) \/ uploadFiles(dir)
       PROVE  UNCHANGED editorVars
  BY <1>11, Zenon DEF Navigate, uploadFiles
<1>12. ASSUME NEW l \in loads, LoadAnswers(l) \/ LoadFails(l)
       PROVE  UNCHANGED editorVars
  BY <1>12, Zenon DEF LoadAnswers, LoadFails
<1>13. ASSUME NEW entry \in ToSet(entries),
              AskAbout("remove", entry) \/ AskAbout("rename", entry)
       PROVE  UNCHANGED editorVars
  BY <1>13, Zenon DEF AskAbout
<1>14. ASSUME NEW target \in Files, OtherWrites(target)
       PROVE  UNCHANGED editorVars
  BY <1>14, Zenon DEF OtherWrites
<1>15. ASSUME NEW l \in Loops, SentFirst(l) \/ SentAgain(l) \/ UploadFails(l)
       PROVE  UNCHANGED editorVars
  BY <1>15, Zenon DEF SentFirst, SentAgain, UploadFails
<1>16. ASSUME NEW yes \in BOOLEAN, overwriteAnswered(yes)
       PROVE  UNCHANGED editorVars
  BY <1>16, Zenon DEF overwriteAnswered
<1>17. ASSUME NEW name \in Names, renamePrompted(name)
       PROVE  UNCHANGED editorVars
  BY <1>17, Zenon DEF renamePrompted
<1>18. CASE loadMore \/ removeConfirmed \/ Declined \/ ClearQueue
  BY <1>1, <1>18, Zenon DEF loadMore, removeConfirmed, Declined, ClearQueue
<1>19. CASE UNCHANGED fileVars
  BY <1>1, <1>19 DEF fileVars, editorVars
<1> QED
  BY <1>1, <1>2, <1>3, <1>4, <1>5, <1>6, <1>7, <1>8, <1>9, <1>10, <1>11, <1>12, <1>13, <1>14,
     <1>15, <1>16, <1>17, <1>18, <1>19 DEF FileNext

-----------------------------------------------------------------------------
(* The uploads.                                                            *)

\* One job moves: to "resending" only when it was agreed to.
LEMMA JobMoves ==
  ASSUME FileIInv, NEW l, NEW j, l \in Loops => j \in Jobs,
         uploads' = [uploads EXCEPT ![l] = j],
         agreed \subseteq agreed', replaced' \subseteq agreed',
         l \in Loops /\ j.stage = "resending" => <<l, j.index>> \in agreed'
  PROVE  UploadsOK'
<1>1. uploads \in Seq(Jobs)
  BY DEF FileIInv, UploadsOK
<1>2. uploads' \in Seq(Jobs) /\ DOMAIN uploads' = DOMAIN uploads
  <2>1. CASE l \in Loops
    BY <1>1, <2>1, ExceptSeq, LenProperties DEF Loops
  <2>2. CASE l \notin Loops
    <3>1. uploads' = uploads
      BY <1>1, <2>2, IsASeq DEF Loops
    <3> QED
      BY <1>1, <3>1
  <2> QED
    BY <2>1, <2>2
<1>3. \A k \in Loops : uploads'[k] = uploads[k] \/ (k = l /\ uploads'[k] = j)
  BY DEF Loops
<1> QED
  BY <1>2, <1>3 DEF FileIInv, UploadsOK, OverwriteAgreed, Loops

LEMMA OnwardMoves ==
  ASSUME FileIInv, NEW l, Onward(l, uploads)
  PROVE  \E j : /\ uploads' = [uploads EXCEPT ![l] = j]
                /\ l \in Loops => j \in Jobs
                /\ l \in Loops => j.stage # "resending"
<1>1. uploads \in Seq(Jobs)
  BY DEF FileIInv, UploadsOK
<1>2. CASE l \in Loops
  <2> DEFINE i == uploads[l]
             next == [i EXCEPT !.index = i.index + 1, !.stage = "sending"]
             over == [i EXCEPT !.stage = "over"]
  <2>1. i \in Jobs /\ Len(Chosen) \in Nat
    BY <1>1, <1>2, ElementOfSeq, LenProperties, FilePanelBounds DEF Loops
  <2>2. CASE i.index < Len(Chosen)
    <3>1. i.index + 1 \in 1 .. Len(Chosen)
      BY <2>1, <2>2 DEF Jobs
    <3>2. next \in Jobs /\ next.stage = "sending"
      BY <2>1, <3>1 DEF Jobs
    <3>3. uploads' = [uploads EXCEPT ![l] = next]
      BY <2>2 DEF Onward
    <3> QED
      BY <3>2, <3>3
  <2>3. CASE ~(i.index < Len(Chosen))
    <3>1. over \in Jobs /\ over.stage = "over"
      BY <2>1 DEF Jobs
    <3>2. uploads' = [uploads EXCEPT ![l] = over]
      BY <2>3 DEF Onward
    <3> QED
      BY <3>1, <3>2
  <2> QED
    BY <2>2, <2>3
<1>3. CASE l \notin Loops
  <2>1. uploads' = uploads /\ \A j : [uploads EXCEPT ![l] = j] = uploads
    BY <1>1, <1>3, IsASeq DEF Onward, Loops
  <2> QED
    BY <1>3, <2>1
<1> QED
  BY <1>2, <1>3

\* An abort moves a job on.
LEMMA MovedType ==
  ASSUME FileIInv, NEW l \in Loops, NEW stages
  PROVE  /\ Moved(l, stages) \in Jobs
         /\ Moved(l, stages).stage = "resending" => Moved(l, stages) = uploads[l]
<1> DEFINE i == uploads[l]
<1>1. i \in Jobs /\ Len(Chosen) \in Nat
  BY ElementOfSeq, LenProperties, FilePanelBounds DEF FileIInv, UploadsOK, Loops
<1>2. CASE i.stage \notin stages
  BY <1>1, <1>2 DEF Moved
<1>3. CASE i.stage \in stages /\ i.index < Len(Chosen)
  <2> DEFINE j == [i EXCEPT !.index = i.index + 1, !.stage = "sending"]
  <2>1. Moved(l, stages) = j
    BY <1>3 DEF Moved
  <2>2. i.index + 1 \in 1 .. Len(Chosen)
    BY <1>1, <1>3 DEF Jobs
  <2>3. j \in Jobs /\ j.stage = "sending"
    BY <1>1, <2>2 DEF Jobs
  <2> QED
    BY <2>1, <2>3
<1>4. CASE i.stage \in stages /\ ~(i.index < Len(Chosen))
  <2> DEFINE j == [i EXCEPT !.stage = "over"]
  <2>1. Moved(l, stages) = j
    BY <1>4 DEF Moved
  <2>2. j \in Jobs /\ j.stage = "over"
    BY <1>1 DEF Jobs
  <2> QED
    BY <2>1, <2>2
<1> QED
  BY <1>2, <1>3, <1>4

LEMMA UploadsInv == FileIInv /\ [FileNext]_fileVars => UploadsOK'
<1> SUFFICES ASSUME FileIInv, [FileNext]_fileVars
             PROVE  UploadsOK'
  OBVIOUS
<1>0. UploadsOK
  BY DEF FileIInv
<1>1. UNCHANGED uploadVars => UploadsOK'
  BY <1>0 DEF UploadsOK, uploadVars, OverwriteAgreed, Loops
<1>2. ASSUME NEW dir \in Dirs, uploadFiles(dir)
      PROVE  UploadsOK'
  <2> DEFINE j == [dir |-> dir, index |-> 1, stage |-> "sending", queued |-> TRUE]
  <2>1. uploads' = Append(uploads, j) /\ Chosen # <<>> /\ UNCHANGED <<agreed, replaced>>
    BY <1>2 DEF uploadFiles
  <2>2. 1 \in 1 .. Len(Chosen)
    BY <2>1, FilePanelBounds, LenProperties, EmptySeq
  <2>3. j \in Jobs /\ j.stage = "sending"
    BY <2>2 DEF Jobs
  <2> HIDE DEF j
  <2>4. uploads \in Seq(Jobs) /\ Len(uploads) \in Nat
    BY <1>0, LenProperties DEF UploadsOK
  <2>5. /\ uploads' \in Seq(Jobs) /\ Len(uploads') = Len(uploads) + 1
        /\ \A k \in 1 .. Len(uploads) : uploads'[k] = uploads[k]
        /\ uploads'[Len(uploads) + 1] = j
    BY <2>1, <2>3, <2>4, AppendProperties
  <2>6. Loops = 1 .. Len(uploads) /\ Loops' = 1 .. Len(uploads) + 1
    BY <2>4, <2>5, LenProperties DEF Loops
  <2>7. \A k \in Loops' : uploads'[k].stage = "resending" =>
                            k \in Loops /\ uploads'[k] = uploads[k]
    BY <2>3, <2>4, <2>5, <2>6
  <2> QED
    BY <1>0, <2>1, <2>5, <2>7 DEF UploadsOK, OverwriteAgreed
<1>3. ASSUME NEW l, Onward(l, uploads), agreed \subseteq agreed', replaced' \subseteq agreed'
      PROVE  UploadsOK'
  <2>1. PICK j : /\ uploads' = [uploads EXCEPT ![l] = j]
                 /\ l \in Loops => j \in Jobs
                 /\ l \in Loops => j.stage # "resending"
    BY <1>3, OnwardMoves
  <2> QED
    BY <1>3, <2>1, JobMoves
<1>4. replaced \subseteq agreed
  BY <1>0 DEF UploadsOK, OverwriteAgreed
<1>5. ASSUME NEW l \in Loops, NEW stage \in {"asking", "resending"},
             uploads' = [uploads EXCEPT ![l].stage = stage],
             agreed \subseteq agreed', replaced' = replaced,
             stage = "resending" => <<l, uploads[l].index>> \in agreed'
      PROVE  UploadsOK'
  <2> DEFINE i == uploads[l]
             j == [i EXCEPT !.stage = stage]
  <2>1. i \in Jobs
    BY <1>0, ElementOfSeq, LenProperties DEF UploadsOK, Loops
  <2>2. j \in Jobs /\ j.stage = stage /\ j.index = uploads[l].index
    BY <2>1 DEF Jobs
  <2>3. uploads' = [uploads EXCEPT ![l] = j] /\ replaced' \subseteq agreed'
    BY <1>4, <1>5
  <2> HIDE DEF j, i
  <2>4. stage = "resending" => <<l, j.index>> \in agreed'
    BY <1>5, <2>2
  <2> QED
    BY <1>5, <2>2, <2>3, <2>4, JobMoves
<1>6. ASSUME NEW l \in Loops, SentFirst(l)
      PROVE  UploadsOK'
  <2>1. UNCHANGED <<agreed, replaced>>
    BY <1>6 DEF SentFirst
  <2>2. Onward(l, uploads) \/ uploads' = [uploads EXCEPT ![l].stage = "asking"]
    BY <1>6, Zenon DEF SentFirst
  <2>3. agreed \subseteq agreed' /\ replaced' \subseteq agreed'
    BY <1>4, <2>1
  <2> QED
    BY <1>3, <1>5, <2>1, <2>2, <2>3
<1>7. ASSUME NEW l \in Loops, UploadFails(l)
      PROVE  UploadsOK'
  <2>1. UNCHANGED <<agreed, replaced>>
    BY <1>7 DEF UploadFails
  <2>2. agreed \subseteq agreed' /\ replaced' \subseteq agreed'
    BY <1>4, <2>1
  <2> QED
    BY <1>3, <1>7, <2>2 DEF UploadFails
<1>8. ASSUME NEW l \in Loops, SentAgain(l)
      PROVE  UploadsOK'
  <2>1. <<l, uploads[l].index>> \in agreed
    BY <1>0, <1>8 DEF SentAgain, UploadsOK
  <2>2. /\ agreed' = agreed
        /\ replaced' = replaced \/ replaced' = replaced \cup {<<l, uploads[l].index>>}
    BY <1>8 DEF SentAgain
  <2>3. agreed \subseteq agreed' /\ replaced' \subseteq agreed'
    BY <1>4, <2>1, <2>2
  <2> QED
    BY <1>3, <1>8, <2>3 DEF SentAgain
<1>9. ASSUME NEW yes \in BOOLEAN, overwriteAnswered(yes)
      PROVE  UploadsOK'
  <2> DEFINE l == Head(dialogs).about
  <2>1. CASE ~yes
    <3>1. Onward(l, uploads) /\ UNCHANGED <<agreed, replaced>>
      BY <1>9, <2>1 DEF overwriteAnswered
    <3>2. agreed \subseteq agreed' /\ replaced' \subseteq agreed'
      BY <1>4, <3>1
    <3> HIDE DEF l
    <3> QED
      BY <1>3, <3>1, <3>2
  <2>2. CASE yes
    <3>1. /\ uploads' = [uploads EXCEPT ![l].stage = "resending"]
          /\ agreed' = agreed \cup {<<l, uploads[l].index>>} /\ replaced' = replaced
      BY <1>9, <2>2 DEF overwriteAnswered
    <3> HIDE DEF l
    <3>2. CASE l \in Loops
      BY <1>5, <3>1, <3>2
    <3>3. CASE l \notin Loops
      <4>1. uploads' = uploads
        BY <1>0, <3>1, <3>3, IsASeq DEF UploadsOK, Loops
      <4> QED
        BY <1>0, <1>4, <3>1, <4>1 DEF UploadsOK, OverwriteAgreed, Loops
    <3> QED
      BY <3>2, <3>3
  <2> QED
    BY <2>1, <2>2
<1>10. CASE ClearQueue
  <2>1. uploads' = [l \in Loops |-> [uploads[l] EXCEPT !.queued = FALSE]]
        /\ UNCHANGED <<agreed, replaced>>
    BY <1>10 DEF ClearQueue
  <2>2. ASSUME NEW l \in Loops
        PROVE  /\ [uploads[l] EXCEPT !.queued = FALSE] \in Jobs
               /\ [uploads[l] EXCEPT !.queued = FALSE].stage = uploads[l].stage
               /\ [uploads[l] EXCEPT !.queued = FALSE].index = uploads[l].index
    <3>1. uploads[l] \in Jobs
      BY <1>0, ElementOfSeq, LenProperties DEF UploadsOK, Loops
    <3> QED
      BY <3>1 DEF Jobs
  <2> DEFINE J(l) == [uploads[l] EXCEPT !.queued = FALSE]
  <2>3. \A l \in Loops : J(l) \in Jobs /\ J(l).stage = uploads[l].stage
                           /\ J(l).index = uploads[l].index
    BY <2>2
  <2>4. uploads' = [l \in Loops |-> J(l)]
    BY <2>1
  <2> HIDE DEF J
  <2>5. uploads \in Seq(Jobs) /\ Loops = 1 .. Len(uploads) /\ Len(uploads) \in Nat
    BY <1>0, LenProperties DEF UploadsOK, Loops
  <2>6. uploads' \in Seq(Jobs)
    BY <2>3, <2>4, <2>5, IsASeq
  <2>7. Loops' = Loops /\ \A l \in Loops : uploads'[l] = J(l)
    BY <2>4 DEF Loops
  <2>8. ASSUME NEW l \in Loops', uploads'[l].stage = "resending"
        PROVE  <<l, uploads'[l].index>> \in agreed'
    <3>1. l \in Loops /\ uploads'[l].stage = uploads[l].stage
          /\ uploads'[l].index = uploads[l].index
      BY <2>3, <2>7, <2>8
    <3>2. <<l, uploads[l].index>> \in agreed
      BY <1>0, <2>8, <3>1 DEF UploadsOK
    <3>3. agreed' = agreed
      BY <2>1
    <3> QED
      BY <3>1, <3>2, <3>3
  <2> QED
    BY <1>0, <2>1, <2>6, <2>8 DEF UploadsOK, OverwriteAgreed
<1>11. CASE ClosePanel \/ SignedOut
  <2>1. PICK S \in {{}, {"asking"}} : uploads' = [l \in Loops |-> Moved(l, Aborted(l) \cup S)]
    <3>1. CASE ClosePanel
      <4>1. \A l \in Loops : Aborted(l) = Aborted(l) \cup {}
        OBVIOUS
      <4> QED
        BY <3>1, <4>1 DEF ClosePanel
    <3>2. CASE SignedOut
      BY <3>2 DEF SignedOut
    <3> QED
      BY <1>11, <3>1, <3>2
  <2>2. UNCHANGED <<agreed, replaced>>
    BY <1>11 DEF ClosePanel, SignedOut, Unmounted
  <2> DEFINE J(l) == Moved(l, Aborted(l) \cup S)
  <2>3. \A l \in Loops : J(l) \in Jobs /\ (J(l).stage = "resending" => J(l) = uploads[l])
    BY MovedType
  <2>4. uploads' = [l \in Loops |-> J(l)]
    BY <2>1
  <2> HIDE DEF J
  <2>5. uploads \in Seq(Jobs) /\ Loops = 1 .. Len(uploads) /\ Len(uploads) \in Nat
    BY <1>0, LenProperties DEF UploadsOK, Loops
  <2>6. uploads' \in Seq(Jobs)
    BY <2>3, <2>4, <2>5, IsASeq
  <2>7. Loops' = Loops /\ \A l \in Loops : uploads'[l] = J(l)
    BY <2>4 DEF Loops
  <2> QED
    BY <1>0, <2>2, <2>3, <2>6, <2>7 DEF UploadsOK, OverwriteAgreed
<1>12. ASSUME NEW dir \in Dirs, Navigate(dir)
       PROVE  UNCHANGED uploadVars
  BY <1>12, Zenon DEF Navigate
<1>13. ASSUME NEW l \in loads, LoadAnswers(l) \/ LoadFails(l)
       PROVE  UNCHANGED uploadVars
  BY <1>13, Zenon DEF LoadAnswers, LoadFails
<1>14. ASSUME NEW entry \in ToSet(entries),
              AskAbout("remove", entry) \/ AskAbout("rename", entry) \/ openText(entry)
       PROVE  UNCHANGED uploadVars
  BY <1>14, Zenon DEF AskAbout, openText
<1>15. ASSUME NEW target \in readings, ReadAnswers(target)
       PROVE  UNCHANGED uploadVars
  BY <1>15, Zenon DEF ReadAnswers
<1>16. ASSUME NEW s \in saves, SaveSucceeds(s) \/ SaveRefused(s)
       PROVE  UNCHANGED uploadVars
  BY <1>16, Zenon DEF SaveSucceeds, SaveRefused
<1>17. ASSUME NEW target \in Files, OtherWrites(target)
       PROVE  UNCHANGED uploadVars
  BY <1>17, Zenon DEF OtherWrites
<1>18. ASSUME NEW name \in Names, renamePrompted(name)
       PROVE  UNCHANGED uploadVars
  BY <1>18, Zenon DEF renamePrompted
<1>19. CASE \/ loadMore \/ removeConfirmed \/ Declined
            \/ Type \/ save \/ requestClose \/ discardConfirmed
  BY <1>1, <1>19, Zenon
     DEF loadMore, removeConfirmed, Declined, Type, save, requestClose, discardConfirmed
<1>20. CASE UNCHANGED fileVars
  BY <1>1, <1>20 DEF fileVars, uploadVars
<1> QED
  BY <1>1, <1>2, <1>6, <1>7, <1>8, <1>9, <1>10, <1>11, <1>12, <1>13, <1>14, <1>15,
     <1>16, <1>17, <1>18, <1>19, <1>20 DEF FileNext

-----------------------------------------------------------------------------
(* The theorems.                                                           *)

LEMMA FileNextInv == FileIInv /\ [FileNext]_fileVars => FileIInv'
  BY DiskInv, ListInv, DialogsInv, ClicksInv, EditorInv, UploadsInv DEF FileIInv

LEMMA FileInvariant == FileSpec => []FileIInv
<1>1. FileInit => FileIInv
  BY FileInitInv
<1>2. FileIInv /\ [FileNext]_fileVars => FileIInv'
  BY FileNextInv
<1> QED
  BY <1>1, <1>2, PTL DEF FileSpec

\* The variables of the file panel have their types, and questions, uploads and
\* clicks their bounds.
THEOREM FileTypes == FileSpec => []FileTypeOK
<1>1. FileIInv => FileTypeOK
  <2> SUFFICES ASSUME FileIInv
               PROVE  FileTypeOK
    OBVIOUS
  <2>1. 0 .. MaxVersion \subseteq Texts
    BY FilePanelBounds DEF Texts
  <2>2. saves \subseteq [file : Files, mtime : Texts, text : Texts, typedOn : BOOLEAN]
    BY <2>1 DEF FileIInv, EditorOK, Saves
  <2>3. editor \in [file : Files, mtime : Texts]
    BY <2>1 DEF FileIInv, EditorOK
  <2>4. \A i \in DOMAIN dialogs : dialogs[i].what \in QuestionKinds
    <3>1. dialogs \in Seq(Questions)
      BY DEF FileIInv, DialogsOK
    <3>2. \A q \in Questions : q.what \in QuestionKinds
      BY DEF Questions, QuestionKinds
    <3> QED
      BY <3>1, <3>2, ElementOfSeq, LenProperties
  <2>5. entries \in Seq(Files) /\ uploads \in Seq(Jobs) /\ Len(dialogs) <= MaxQuestions
    BY DEF FileIInv, ListOK, UploadsOK, DialogsOK
  <2> QED
    BY <2>2, <2>3, <2>4, <2>5 DEF FileIInv, DiskOK, ListOK, ClicksOK, EditorOK,
                            FileTypeOK, Loads, Jobs
<1> QED
  BY <1>1, FileInvariant, PTL

\* Whatever other questions were open, and whichever uploads ran at once, a
\* file that was there is replaced only when the user agreed to it.
THEOREM UploadsNeedConsent == FileSpec => []OverwriteAgreed
<1>1. FileIInv => OverwriteAgreed
  BY DEF FileIInv, UploadsOK
<1> QED
  BY <1>1, FileInvariant, PTL

\* No answer that comes late and no other button closes the editor over a
\* text that is no file's: only the user's consent, a sign-out, or a save that
\* wrote this text or was sent before it was typed.
THEOREM DraftsSurvive == FileSpec => DraftNotDropped
<1> DEFINE Lost == editor # Closed /\ doc \in Drafts /\ editor' = Closed
           Given == \/ \E s \in saves : SaveSucceeds(s) /\ (s.text = doc \/ s.typedOn)
                    \/ discardConfirmed \/ SignedOut
<1>1. ASSUME FileIInv, [FileNext]_fileVars, Lost
      PROVE  Given
  <2>1. dirty /\ editor' # editor /\ \A s \in saves : s.text = doc \/ s.typedOn
    BY <1>1 DEF FileIInv, EditorOK
  <2>2. ~requestClose /\ ~ClosePanel
    BY <1>1, <2>1, Zenon DEF requestClose, ClosePanel
  <2>3. ASSUME NEW target \in readings, ReadAnswers(target)
        PROVE  FALSE
    <3> DEFINE e == [file |-> join(target.name), mtime |-> disk[target]]
    <3>1. editor' = e /\ disk[target] # Absent
      BY <2>1, <2>3 DEF ReadAnswers
    <3>2. e.mtime = Absent
      BY <1>1, <3>1 DEF Closed
    <3> QED
      BY <3>1, <3>2
  <2>4. ASSUME NEW dir \in Dirs, Navigate(dir) \/ uploadFiles(dir)
        PROVE  UNCHANGED editor
    BY <2>4, Zenon DEF Navigate, uploadFiles, editorVars
  <2>5. ASSUME NEW l \in loads, LoadAnswers(l) \/ LoadFails(l)
        PROVE  UNCHANGED editor
    BY <2>5 DEF LoadAnswers, LoadFails, editorVars
  <2>6. ASSUME NEW entry \in ToSet(entries),
               AskAbout("remove", entry) \/ AskAbout("rename", entry) \/ openText(entry)
        PROVE  UNCHANGED editor
    BY <2>6 DEF AskAbout, openText, editorVars
  <2>7. ASSUME NEW s \in saves, SaveRefused(s)
        PROVE  UNCHANGED editor
    BY <2>7, Zenon DEF SaveRefused
  <2>8. ASSUME NEW l \in Loops, SentFirst(l) \/ SentAgain(l) \/ UploadFails(l)
        PROVE  UNCHANGED editor
    <3>1. UNCHANGED editorVars
      BY <2>8, Zenon DEF SentFirst, SentAgain, UploadFails
    <3> QED
      BY <3>1 DEF editorVars
  <2>9. ASSUME NEW yes \in BOOLEAN, overwriteAnswered(yes)
        PROVE  UNCHANGED editor
    <3>1. UNCHANGED editorVars
      BY <2>9, Zenon DEF overwriteAnswered
    <3> QED
      BY <3>1 DEF editorVars
  <2>10. ASSUME NEW name \in Names, renamePrompted(name)
         PROVE  UNCHANGED editor
    <3>1. UNCHANGED editorVars
      BY <2>10, Zenon DEF renamePrompted
    <3> QED
      BY <3>1 DEF editorVars
  <2>11. ASSUME NEW target \in Files, OtherWrites(target)
         PROVE  UNCHANGED editor
    BY <2>11 DEF OtherWrites, editorVars
  <2>12. loadMore \/ removeConfirmed \/ Declined \/ ClearQueue => UNCHANGED editorVars
    BY Zenon DEF loadMore, removeConfirmed, Declined, ClearQueue
  <2>13. Type \/ save => UNCHANGED editor
    BY Zenon DEF Type, save
  <2>14. UNCHANGED fileVars => UNCHANGED editor
    BY DEF fileVars
  <2>15. UNCHANGED editorVars => UNCHANGED editor
    BY DEF editorVars
  <2> QED
    BY <1>1, <2>1, <2>2, <2>3, <2>4, <2>5, <2>6, <2>7, <2>8, <2>9, <2>10, <2>11, <2>12, <2>13,
       <2>14, <2>15, Zenon DEF FileNext
<1>2. FileIInv /\ [FileNext]_fileVars => [Lost => Given]_fileVars
  BY <1>1
<1> QED
  BY <1>2, FileInvariant, PTL DEF FileSpec, DraftNotDropped

-----------------------------------------------------------------------------
(***************************************************************************)
(* The shortcuts.  A key matches a binding just when the chord spells it,  *)
(* and no chord spells two: the bindings of one key differ in Ctrl and     *)
(* Alt, or in Shift and are letters.                                       *)
(***************************************************************************)
IsChord(b) == b.key \in Places /\ b.mods \in SUBSET Modifiers

\* The characters that Shift gives.
LEMMA ShiftedKeys ==
  /\ DOMAIN SHIFTED = {"+", "_", "<", ")"}
  /\ SHIFTED["+"] = "=" /\ SHIFTED["_"] = "-" /\ SHIFTED["<"] = "comma" /\ SHIFTED[")"] = "0"
  BY DEF SHIFTED

\* What a key prints.
LEMMA KeyPrints ==
  ASSUME NEW place \in Places, NEW mods \in SUBSET Modifiers
  PROVE  \/ /\ mac /\ "alt" \in mods /\ place \notin NamedKeys
            /\ KeyOf(place, mods) = "composed"
         \/ /\ ~(mac /\ "alt" \in mods) \/ place \in NamedKeys
            /\ place \in Symbols /\ "shift" \in mods
            /\ KeyOf(place, mods) \in DOMAIN SHIFTED
            /\ SHIFTED[KeyOf(place, mods)] = place
         \/ /\ ~(mac /\ "alt" \in mods) \/ place \in NamedKeys
            /\ ~(place \in Symbols /\ "shift" \in mods)
            /\ KeyOf(place, mods) = place
<1>1. CASE mac /\ "alt" \in mods /\ place \notin NamedKeys
  BY <1>1 DEF KeyOf
<1>2. CASE ~(mac /\ "alt" \in mods /\ place \notin NamedKeys) /\ ~(place \in Symbols /\ "shift" \in mods)
  BY <1>2 DEF KeyOf
<1>3. CASE ~(mac /\ "alt" \in mods /\ place \notin NamedKeys) /\ place \in Symbols /\ "shift" \in mods
  <2>1. \E c \in DOMAIN SHIFTED : SHIFTED[c] = place
    BY <1>3, ShiftedKeys DEF Symbols
  <2>2. KeyOf(place, mods) = CHOOSE c \in DOMAIN SHIFTED : SHIFTED[c] = place
    BY <1>3 DEF KeyOf
  <2> QED
    BY <1>3, <2>1, <2>2
<1> QED
  BY <1>1, <1>2, <1>3

\* A key matches what is written on it, unless a Mac composed another character.
LEMMA KeyMatchesPlace ==
  ASSUME NEW place \in Places, NEW mods \in SUBSET Modifiers, NEW expected \in Places
  PROVE  keyMatches(Event(place, mods), expected) <=>
           place = expected /\ ~(mac /\ "alt" \in mods /\ place \in Symbols)
<1> DEFINE e == Event(place, mods)
           k == KeyOf(place, mods)
<1>1. e.key = k /\ e.code = place /\ e.mods = mods
  BY DEF Event
<1>2. keyMatches(e, expected) <=>
        \/ k = expected
        \/ k \in DOMAIN SHIFTED /\ SHIFTED[k] = expected
        \/ expected \in Letters /\ place = expected /\ mods \cap {"ctrl", "alt", "meta"} # {}
  BY <1>1 DEF keyMatches
<1>3. /\ Letters \cap Symbols = {} /\ NamedKeys \cap Symbols = {}
      /\ Letters \cap NamedKeys = {}
      /\ "composed" \notin Places
      /\ \A c \in DOMAIN SHIFTED : c \notin Places
      /\ "composed" \notin DOMAIN SHIFTED
  BY ShiftedKeys DEF Places, Letters, Symbols, NamedKeys
<1>4. place \in Letters \cup Symbols \cup NamedKeys
  BY DEF Places
<1> HIDE DEF e, k
<1>5. CASE mac /\ "alt" \in mods /\ place \notin NamedKeys
  <2>1. k = "composed"
    BY <1>5, KeyPrints DEF k
  <2>2. mods \cap {"ctrl", "alt", "meta"} # {}
    BY <1>5
  <2> QED
    BY <1>2, <1>3, <1>4, <1>5, <2>1, <2>2 DEF e
<1>6. CASE ~(mac /\ "alt" \in mods /\ place \notin NamedKeys) /\ place \in Symbols /\ "shift" \in mods
  <2>1. k \in DOMAIN SHIFTED /\ SHIFTED[k] = place
    BY <1>6, KeyPrints DEF k
  <2> QED
    BY <1>2, <1>3, <1>6, <2>1 DEF e
<1>7. CASE ~(mac /\ "alt" \in mods /\ place \notin NamedKeys) /\ ~(place \in Symbols /\ "shift" \in mods)
  <2>1. k = place
    BY <1>7, KeyPrints DEF k
  <2> QED
    BY <1>2, <1>3, <1>7, <2>1 DEF e
<1> QED
  BY <1>5, <1>6, <1>7

\* A chord matches the bindings it spells, and no other.
LEMMA MatchesWhatItSpells ==
  ASSUME NEW place \in Places, NEW mods \in SUBSET Modifiers, NEW b, IsChord(b)
  PROVE  matchesBinding(Event(place, mods), b) <=> Spells(place, mods, b)
<1>0. b.key \in Places /\ b.mods \in SUBSET Modifiers
  BY DEF IsChord
<1> DEFINE composed == mac /\ "alt" \in mods /\ place \in Symbols
           k == KeyOf(place, mods)
<1>1. matchesBinding(Event(place, mods), b) <=>
        /\ place = b.key /\ ~composed
        /\ mods \ {"shift"} = b.mods \ {"shift"}
        /\ \/ "shift" \in mods <=> "shift" \in b.mods
           \/ k \in DOMAIN SHIFTED /\ "shift" \notin b.mods
  BY <1>0, KeyMatchesPlace, Zenon DEF matchesBinding, Event, implicitShift
<1>2. ~composed => (k \in DOMAIN SHIFTED <=> place \in Symbols /\ "shift" \in mods)
  <2>1. \A c \in DOMAIN SHIFTED : c \notin Places /\ c # "composed"
    BY ShiftedKeys DEF Places, Letters, Symbols, NamedKeys
  <2> QED
    BY <2>1, KeyPrints DEF Places
<1> HIDE DEF k, composed
<1>3. Spells(place, mods, b) <=>
        /\ place = b.key /\ ~composed
        /\ mods = b.mods \/ (place \in Symbols /\ mods = b.mods \cup {"shift"})
  BY DEF Spells, composed
<1>4. CASE place \in Symbols
  BY <1>0, <1>1, <1>2, <1>3, <1>4
<1>5. CASE place \notin Symbols
  BY <1>0, <1>1, <1>2, <1>3, <1>5
<1> QED
  BY <1>4, <1>5

\* The table, read off.
Positions == 1 .. 21
BindingAt(i) == DEFAULT_KEYBINDINGS[i]
LEMMA KeysOfTable ==
  /\ BindingAt(1).key = "T" /\ BindingAt(2).key = "W" /\ BindingAt(3).key = "D"
  /\ BindingAt(4).key = "ArrowRight" /\ BindingAt(5).key = "ArrowDown" /\ BindingAt(6).key = "Enter"
  /\ BindingAt(7).key = "L" /\ BindingAt(8).key = "H" /\ BindingAt(9).key = "="
  /\ BindingAt(10).key = "-" /\ BindingAt(11).key = "C" /\ BindingAt(12).key = "V"
  /\ BindingAt(13).key = "F" /\ BindingAt(14).key = "K" /\ BindingAt(15).key = "P"
  /\ BindingAt(16).key = "K" /\ BindingAt(17).key = "P" /\ BindingAt(18).key = "comma"
  /\ BindingAt(19).key = "=" /\ BindingAt(20).key = "-" /\ BindingAt(21).key = "0"
  BY DEF BindingAt, DEFAULT_KEYBINDINGS, Bind

LEMMA ModsOfTable ==
  /\ BindingAt(1).mods = {"alt", "shift"} /\ BindingAt(2).mods = {"alt", "shift"}
  /\ BindingAt(3).mods = {"alt", "shift"} /\ BindingAt(4).mods = {"alt", "shift"}
  /\ BindingAt(5).mods = {"alt", "shift"} /\ BindingAt(6).mods = {"alt"}
  /\ BindingAt(7).mods = {"alt", "shift"} /\ BindingAt(8).mods = {"alt", "shift"}
  /\ BindingAt(9).mods = {"alt", "shift"} /\ BindingAt(10).mods = {"alt", "shift"}
  /\ BindingAt(11).mods = {"alt"} /\ BindingAt(12).mods = {"alt", "shift"}
  /\ BindingAt(13).mods = {"ctrl", "shift"} /\ BindingAt(14).mods = {"ctrl", "shift"}
  /\ BindingAt(15).mods = {"ctrl", "shift"} /\ BindingAt(16).mods = {"ctrl"}
  /\ BindingAt(17).mods = {"ctrl"} /\ BindingAt(18).mods = {"ctrl"}
  /\ BindingAt(19).mods = {"ctrl"} /\ BindingAt(20).mods = {"ctrl"}
  /\ BindingAt(21).mods = {"ctrl"}
  BY DEF BindingAt, DEFAULT_KEYBINDINGS, Bind

\* Bindings are chords, and none is a bare key.
LEMMA TableTyped ==
  /\ DOMAIN DEFAULT_KEYBINDINGS = Positions
  /\ \A i \in Positions : IsChord(BindingAt(i)) /\ BindingAt(i).mods \cap {"ctrl", "alt"} # {}
<1>1. DOMAIN DEFAULT_KEYBINDINGS = Positions
  BY DEF DEFAULT_KEYBINDINGS, Positions
<1>2. /\ "T" \in Places /\ "W" \in Places /\ "D" \in Places /\ "L" \in Places
      /\ "H" \in Places /\ "C" \in Places /\ "V" \in Places /\ "F" \in Places
      /\ "K" \in Places /\ "P" \in Places /\ "=" \in Places /\ "-" \in Places
      /\ "comma" \in Places /\ "0" \in Places /\ "ArrowRight" \in Places
      /\ "ArrowDown" \in Places /\ "Enter" \in Places
  BY DEF Places, Letters, Symbols, NamedKeys
<1>3. \A i \in Positions : BindingAt(i).key \in Places
  BY <1>2, KeysOfTable DEF Positions
<1>4. \A i \in Positions : BindingAt(i).mods \in SUBSET Modifiers
  BY ModsOfTable DEF Modifiers, Positions
<1>5. \A i \in Positions : "ctrl" \in BindingAt(i).mods \/ "alt" \in BindingAt(i).mods
  BY ModsOfTable DEF Positions
<1> QED
  BY <1>1, <1>3, <1>4, <1>5 DEF IsChord

\* Bindings of one key differ in Ctrl and Alt, or in Shift and are letters.
LEMMA NoShadow ==
  ASSUME NEW i \in Positions, NEW j \in Positions,
        BindingAt(i).key = BindingAt(j).key, BindingAt(i).mods \ {"shift"} = BindingAt(j).mods \ {"shift"},
        BindingAt(i).mods = BindingAt(j).mods \/ BindingAt(i).key \in Symbols
  PROVE i = j
<1> DEFINE Twins(m, n) == (i = m /\ j = n) \/ (i = n /\ j = m)
<1>1. i = j \/ Twins(14, 16) \/ Twins(15, 17) \/ Twins(9, 19) \/ Twins(10, 20)
  BY KeysOfTable DEF Positions
<1>2. ~Twins(14, 16) /\ ~Twins(15, 17)
  <2>1. "K" \notin Symbols /\ "P" \notin Symbols
    BY DEF Symbols
  <2>2. BindingAt(14).mods # BindingAt(16).mods /\ BindingAt(15).mods # BindingAt(17).mods
    BY ModsOfTable
  <2> QED
    BY <2>1, <2>2, KeysOfTable
<1>3. ~Twins(9, 19) /\ ~Twins(10, 20)
  <2>1. /\ "alt" \in BindingAt(9).mods /\ "alt" \notin BindingAt(19).mods
        /\ "alt" \in BindingAt(10).mods /\ "alt" \notin BindingAt(20).mods
    BY ModsOfTable
  <2> QED
    BY <2>1
<1> QED
  BY <1>1, <1>2, <1>3

\* One chord spells one binding.
LEMMA SpelledOnce ==
  ASSUME NEW place \in Places, NEW mods \in SUBSET Modifiers,
         NEW i \in Positions, NEW j \in Positions,
         Spells(place, mods, BindingAt(i)), Spells(place, mods, BindingAt(j))
  PROVE  i = j
<1>1. BindingAt(i).key = place /\ BindingAt(j).key = place
  BY DEF Spells
<1>2. \A m : Spells(place, mods, BindingAt(m)) =>
             mods = BindingAt(m).mods \/ (place \in Symbols /\ mods = BindingAt(m).mods \cup {"shift"})
  BY DEF Spells
<1>3. BindingAt(i).mods \ {"shift"} = BindingAt(j).mods \ {"shift"}
  BY <1>2
<1>4. BindingAt(i).mods = BindingAt(j).mods \/ BindingAt(i).key \in Symbols
  BY <1>1, <1>2
<1> QED
  BY <1>1, <1>3, <1>4, NoShadow

\* What onKeydown runs: the action of the binding that the chord spells.
LEMMA RunsWhatItSpells ==
  ASSUME ~modal, NEW place \in Places, NEW mods \in SUBSET Modifiers
  PROVE  \/ /\ \A i \in Positions : ~Spells(place, mods, BindingAt(i))
            /\ Dispatched(Event(place, mods)) = Nothing
         \/ \E i \in Positions :
              /\ Spells(place, mods, BindingAt(i))
              /\ Dispatched(Event(place, mods)) =
                   IF visitor /\ BindingAt(i).action \notin ForVisitors THEN Nothing ELSE BindingAt(i).action
<1> DEFINE M == Matching(Event(place, mods))
<1>1. M = {i \in Positions : Spells(place, mods, BindingAt(i))}
  BY TableTyped, MatchesWhatItSpells, Zenon DEF Matching, BindingAt
<1>2. CASE M = {}
  BY <1>1, <1>2 DEF Dispatched
<1>3. CASE M # {}
  <2>1. PICK i \in Positions : i \in M /\ Spells(place, mods, BindingAt(i))
    BY <1>1, <1>3
  <2>2. M = {i}
    BY <1>1, <2>1, SpelledOnce
  <2> DEFINE first == CHOOSE m \in M : \A j \in M : m <= j
  <2>3. first = i
    BY <2>2 DEF Positions
  <2>4. BindingAt(i).mods \cap {"ctrl", "alt", "meta"} # {}
    BY TableTyped
  <2>5. Dispatched(Event(place, mods)) =
          IF \/ visitor /\ BindingAt(first).action \notin ForVisitors
             \/ typing /\ BindingAt(first).mods \cap {"ctrl", "alt", "meta"} = {}
                       /\ BindingAt(first).action \notin {"palette.open", "quickSwitch"}
          THEN Nothing ELSE BindingAt(first).action
    BY <1>3, Zenon DEF Dispatched, BindingAt
  <2> HIDE DEF first, M
  <2> QED
    BY <2>1, <2>3, <2>4, <2>5, Zenon
<1> QED
  BY <1>2, <1>3

\* The property holds of every state.
LEMMA EachChordAsWritten == ShortcutAsWritten
<1> SUFFICES ASSUME ~modal, NEW place \in Places, NEW mods \in SUBSET Modifiers
             PROVE  LET said == {b \in Range(DEFAULT_KEYBINDINGS) : Spells(place, mods, b)}
                        may == {b \in said : visitor => b.action \in ForVisitors}
                    IN  {Dispatched(Event(place, mods))} =
                          IF may = {} THEN {Nothing} ELSE {b.action : b \in may}
  BY Zenon DEF ShortcutAsWritten
<1> DEFINE said == {b \in Range(DEFAULT_KEYBINDINGS) : Spells(place, mods, b)}
           may == {b \in said : visitor => b.action \in ForVisitors}
           ran == Dispatched(Event(place, mods))
<1>0. SUFFICES {ran} = IF may = {} THEN {Nothing} ELSE {b.action : b \in may}
  OBVIOUS
<1>1. said = {BindingAt(i) : i \in {n \in Positions : Spells(place, mods, BindingAt(n))}}
  BY TableTyped DEF Range, BindingAt
<1>2. CASE \A i \in Positions : ~Spells(place, mods, BindingAt(i))
  <2>1. said = {} /\ ran = Nothing
    BY <1>1, <1>2, RunsWhatItSpells
  <2> QED
    BY <2>1
<1>3. CASE \E i \in Positions : Spells(place, mods, BindingAt(i))
  <2>1. PICK i \in Positions :
          /\ Spells(place, mods, BindingAt(i))
          /\ ran = IF visitor /\ BindingAt(i).action \notin ForVisitors THEN Nothing ELSE BindingAt(i).action
    BY <1>3, RunsWhatItSpells
  <2>2. {n \in Positions : Spells(place, mods, BindingAt(n))} = {i}
    BY <2>1, SpelledOnce
  <2>3. said = {BindingAt(i)}
    BY <1>1, <2>2
  <2> HIDE DEF said, ran
  <2>4. CASE visitor /\ BindingAt(i).action \notin ForVisitors
    <3>1. may = {} /\ ran = Nothing
      BY <2>1, <2>3, <2>4
    <3> HIDE DEF may
    <3> QED
      BY <3>1
  <2>5. CASE ~(visitor /\ BindingAt(i).action \notin ForVisitors)
    <3>1. may = {BindingAt(i)}
      BY <2>3, <2>5
    <3>2. ran = BindingAt(i).action
      BY <2>1, <2>5
    <3> HIDE DEF may
    <3> QED
      BY <3>1, <3>2
  <2> QED
    BY <2>4, <2>5
<1> QED
  BY <1>2, <1>3

\* With the default bindings, a chord runs the one action it spells and no
\* other key runs anything, on a US keyboard of a Mac or a PC, for a visitor and
\* in a field (onKeydown in WorkspaceView.vue).
THEOREM ChordsRunAsWritten == ShortcutsSpec => []ShortcutAsWritten
  BY EachChordAsWritten, PTL

LEMMA ShortcutsKeepTypes ==
  ShortcutsTypeOK /\ [ShortcutsNext]_shortcutVars => ShortcutsTypeOK'
<1> SUFFICES ASSUME ShortcutsTypeOK, [ShortcutsNext]_shortcutVars
             PROVE  ShortcutsTypeOK'
  OBVIOUS
<1>1. ASSUME NEW event, onKeydown(event)
      PROVE  ShortcutsTypeOK'
  <2> DEFINE action == Dispatched(event)
             more == CASE action \in {"palette.open", "palette.openAlt"} -> {"commands"}
                       [] action = "quickSwitch" -> {"quickSwitch"}
                       [] OTHER -> {}
  <2>1. /\ modal' = (modal \/ action = "settings.open") /\ palette' = palette \cup more
        /\ UNCHANGED <<mac, visitor, typing>>
    BY <1>1 DEF onKeydown
  <2> HIDE DEF action
  <2>2. more \subseteq {"commands", "quickSwitch"}
    OBVIOUS
  <2>3. modal' \in BOOLEAN
    BY <2>1, Zenon DEF ShortcutsTypeOK
  <2> QED
    BY <2>1, <2>2, <2>3 DEF ShortcutsTypeOK
<1>2. CASE PaletteCloses \/ Modal \/ Focus \/ UNCHANGED shortcutVars
  BY <1>2 DEF PaletteCloses, Modal, Focus, shortcutVars, ShortcutsTypeOK
<1> QED
  BY <1>1, <1>2 DEF ShortcutsNext

LEMMA ShortcutsTypes == ShortcutsSpec => []ShortcutsTypeOK
<1>1. ShortcutsInit => ShortcutsTypeOK
  BY DEF ShortcutsInit, ShortcutsTypeOK
<1> QED
  BY <1>1, ShortcutsKeepTypes, PTL DEF ShortcutsSpec

-----------------------------------------------------------------------------
(***************************************************************************)
(* The page.  Its parts share no variable, so a behaviour of the page is a *)
(* behaviour of every part, and what holds of a part holds of the page.    *)
(***************************************************************************)
LEMMA PartsStart ==
  Init => /\ WorkspaceInit /\ SessionListInit /\ BlocksInit /\ FileInit
          /\ AccountInit /\ ConfigInit /\ ShortcutsInit
  BY Zenon DEF Init

LEMMA PartsStep ==
  [Next]_vars => /\ [WorkspaceNext]_workspaceVars /\ [SessionListNext]_sessionVars
                 /\ [BlocksNext]_rangeVars /\ [FileNext]_fileVars
                 /\ [AccountNext]_adminVars /\ [ConfigNext]_configVars
                 /\ [ShortcutsNext]_shortcutVars
  BY Zenon DEF Next, vars, WorkspaceSteps, ListSteps, BlocksSteps, FileSteps, AdminSteps,
               ConfigSteps, ShortcutSteps

\* Every behaviour of the page is one of each part: the properties proved of a
\* part hold of the page.
THEOREM PageRunsItsParts ==
  Spec => /\ WorkspaceSpec /\ SessionListSpec /\ BlocksSpec /\ FileSpec
          /\ AccountSpec /\ ConfigSpec /\ ShortcutsSpec
  BY PartsStart, PartsStep, PTL
  DEF Spec, WorkspaceSpec, SessionListSpec, BlocksSpec, FileSpec, AccountSpec, ConfigSpec,
      ShortcutsSpec

\* Every part of the page keeps the types of its variables.
THEOREM PageTypes == Spec => []BrowserTypeOK
  BY PageRunsItsParts, WorkspaceTypes, ListTypes, BlocksTypes, FileTypes, AccountTypes,
     ConfigTypes, ShortcutsTypes, PTL
  DEF BrowserTypeOK
=============================================================================
