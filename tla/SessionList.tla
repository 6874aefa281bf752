------------------------------ MODULE SessionList ------------------------------
(***************************************************************************)
(* Who is signed in and which terminals the page lists: stores/auth.ts,    *)
(* stores/sessions.ts, stores/presence.ts, the handler of 401 answers in   *)
(* api/client.ts, LoginView.vue and the watcher of App.vue.                *)
(*                                                                         *)
(* The page asks with the cookie it has at that moment; the server answers *)
(* later, and answers arrive in any order.  Between the two the user may   *)
(* sign out and another may sign in.  Vue runs the watcher of              *)
(* isAuthenticated before the next task of the event loop, so what it does *)
(* belongs to the action that changed `user`.  Changes of role, the second *)
(* factor, names, history rows, error texts and notices are left out.      *)
(***************************************************************************)
EXTENDS Naturals, FiniteSets, Sequences, SequencesExt

CONSTANTS
  Accounts,
  Shells,       \* terminals the server can run
  Admins,       \* accounts of role admin
  VisibleTo,    \* the shells each account may see (can_access)
  MaxRefreshes, \* bound: lists on their way
  MaxEvents,    \* the queue of a subscriber to events (MAX_QUEUE)
  MaxTurns      \* bound: what users and others begin

ASSUME SessionListConstants ==
  /\ Admins \subseteq Accounts
  /\ VisibleTo \in [Accounts -> SUBSET Shells]
  /\ \A a \in Admins : VisibleTo[a] = Shells
  /\ MaxRefreshes \in Nat /\ MaxEvents \in Nat \ {0} /\ MaxTurns \in Nat

VARIABLES
  user,         \* auth.user
  restored,     \* auth.initialized
  asking,       \* the name of the login on its way: auth.loading
  cookie,       \* the account whose credential the browser holds
  honoured,     \* accounts whose credential the server accepts
  served,       \* shells the server runs
  live,         \* the list on the page
  generation,
  refreshTimer,
  refreshes,    \* lists on their way
  stream,       \* NoStream or the EventSource
  online,       \* shells whose viewers the page knows
  calls,        \* sessions.create and sessions.remove on their way
  signingOut,   \* auth.logout calls on their way
  turns,        \* bound: what users and others began so far
  listedFor,    \* history: whose credential fetched `live`
  lapsed,       \* history: a list failed, or overtook one that was asked for before it
  abandoned     \* history: an identity was dropped whose credential is still honoured

authVars == <<user, restored, asking, cookie, honoured, abandoned>>
rosterVars == <<live, listedFor, lapsed, generation, refreshTimer, refreshes, stream, online>>
sessionVars == <<authVars, rosterVars, served, calls, signingOut, turns>>

Turn == turns < MaxTurns /\ turns' = turns + 1

Nobody == "nobody"
ASSUME NobodyIsNoAccount == Nobody \notin Accounts
Holders == Accounts \cup {Nobody}
Waiting == {"waiting"}
Denied == {"401"}
NoStream == [state |-> "none"]
Events == [event : {"session_created", "session_ended", "presence"}, shell : Shells]
          \cup {[event |-> "overflow"]}

Asked(holder) == [epoch |-> generation, by |-> holder, answer |-> Waiting]
refreshAs(holder) ==
  /\ Len(refreshes) < MaxRefreshes
  /\ refreshes' = Append(refreshes, Asked(holder))
  /\ lapsed' = (lapsed /\ refreshes # <<>>)
refresh == refreshAs(cookie)

\* sessions.reset() and the rest of the watcher when nobody is signed in.
reset == /\ generation' = generation + 1
         /\ stream' = NoStream
         /\ refreshTimer' = FALSE
         /\ live' = {}
         /\ online' = {}

\* What clears auth.user: the watcher runs only if somebody was signed in.
\* The page keeps the cookie, whether or not the server still honours it.
Unidentified ==
  /\ user' = Nobody
  /\ abandoned' = (abandoned \/ (user # Nobody /\ cookie' \in honoured'))
  /\ IF user = Nobody
     THEN UNCHANGED <<generation, stream, refreshTimer, live, online>>
     ELSE reset

startEvents == stream' = IF stream # NoStream THEN stream ELSE [state |-> "connecting"]

\* The watcher, when `who` is signed in.
Identified(who) == user' = who /\ startEvents /\ refreshAs(who)

\* presence.ts.
apply(shell) == online' = online \cup {shell}
forget(shell) == online' = online \ {shell}

-----------------------------------------------------------------------------
(* auth.ts and LoginView.vue.                                              *)

\* onMounted of the page: GET /me tells whose cookie this is, or fails.  The
\* list is asked for twice: by the watcher and by onMounted.
restore ==
  /\ ~restored
  /\ restored' = TRUE
  /\ \/ /\ cookie \in honoured /\ user' = cookie /\ startEvents
        /\ Len(refreshes) + 2 <= MaxRefreshes
        /\ refreshes' = refreshes \o <<Asked(cookie), Asked(cookie)>>
     \/ UNCHANGED <<user, stream, refreshes>>
  /\ UNCHANGED <<asking, cookie, honoured, abandoned, live, listedFor, lapsed,
                 generation, refreshTimer, online, served, calls, signingOut, turns>>

submit(name) ==
  /\ restored /\ user = Nobody /\ asking = Nobody
  /\ asking' = name
  /\ UNCHANGED <<user, restored, cookie, honoured, abandoned, rosterVars,
                 served, calls, signingOut, turns>>

LoginAccepted ==
  /\ asking # Nobody
  /\ cookie' = asking /\ honoured' = honoured \cup {asking}
  /\ Identified(asking)
  /\ asking' = Nobody
  /\ UNCHANGED <<restored, abandoned, live, listedFor, generation, refreshTimer, online,
                 served, calls, signingOut, turns>>

\* A wrong password, no answer, or the second factor is asked for first.
LoginRefused ==
  /\ asking # Nobody
  /\ asking' = Nobody
  /\ UNCHANGED <<user, restored, cookie, honoured, abandoned, rosterVars, served, calls,
                 signingOut, turns>>

\* The button can be pressed again while the first call is on its way.
logout ==
  /\ user # Nobody /\ Len(signingOut) < 2 /\ Turn
  /\ signingOut' = Append(signingOut, cookie)
  /\ UNCHANGED <<authVars, rosterVars, served, calls>>

\* The identity goes whether or not the server heard of it.
LogoutAnswered ==
  /\ \E i \in DOMAIN signingOut :
       /\ signingOut' = RemoveAt(signingOut, i)
       /\ \/ honoured' = honoured \ {signingOut[i]} /\ cookie' = Nobody
          \/ UNCHANGED <<honoured, cookie>>
  /\ Unidentified
  /\ UNCHANGED <<restored, asking, listedFor, lapsed, refreshes, served, calls, turns>>

\* A terminal's socket is closed with 4401.
expireSession ==
  /\ user # Nobody /\ cookie \notin honoured
  /\ UNCHANGED <<restored, asking, cookie, honoured, listedFor, lapsed, refreshes,
                 served, calls, signingOut, turns>>
  /\ Unidentified

\* The credential of an account ends at the server: expiry, a changed password.
CredentialEnds(who) ==
  /\ who \in honoured /\ Turn
  /\ honoured' = honoured \ {who}
  /\ UNCHANGED <<user, restored, asking, cookie, abandoned, rosterVars,
                 served, calls, signingOut>>

-----------------------------------------------------------------------------
(* The list.                                                               *)

TimerFires ==
  /\ refreshTimer
  /\ refreshTimer' = FALSE
  /\ refresh
  /\ UNCHANGED <<authVars, live, listedFor, generation, stream, online, served,
                 calls, signingOut, turns>>

ListServed(i) ==
  /\ refreshes[i].answer = Waiting
  /\ LET who == refreshes[i].by IN
     refreshes' = [refreshes EXCEPT ![i].answer =
                     IF who \in honoured THEN served \cap VisibleTo[who] ELSE Denied]
  /\ UNCHANGED <<authVars, live, listedFor, lapsed, generation, refreshTimer, stream, online,
                 served, calls, signingOut, turns>>

\* An older list, once it arrives after this one, takes its place.
Overtakes(i) == \E k \in 1 .. i - 1 : refreshes[k].epoch = generation

ListArrivesAnyEpoch(i) ==
  /\ refreshes[i].answer \notin {Waiting, Denied}
  /\ refreshes' = RemoveAt(refreshes, i)
  /\ live' = refreshes[i].answer /\ listedFor' = refreshes[i].by
  /\ lapsed' = (lapsed \/ Overtakes(i))
  /\ UNCHANGED <<authVars, generation, refreshTimer, stream, online, served, calls,
                 signingOut, turns>>

ListArrives(i) ==
  /\ refreshes[i].answer \notin {Waiting, Denied}
  /\ refreshes' = RemoveAt(refreshes, i)
  /\ IF refreshes[i].epoch = generation
     THEN /\ live' = refreshes[i].answer /\ listedFor' = refreshes[i].by
          /\ lapsed' = (lapsed \/ Overtakes(i))
     ELSE UNCHANGED <<live, listedFor, lapsed>>
  /\ UNCHANGED <<authVars, generation, refreshTimer, stream, online, served, calls,
                 signingOut, turns>>

\* unwrap() tells the handler of 401 before the caller sees the error.
ListDenied(i) ==
  /\ refreshes[i].answer = Denied
  /\ refreshes' = RemoveAt(refreshes, i)
  /\ UNCHANGED <<restored, asking, cookie, honoured, listedFor, lapsed,
                 served, calls, signingOut, turns>>
  /\ Unidentified

ListFails(i) ==
  /\ refreshes' = RemoveAt(refreshes, i)
  /\ lapsed' = TRUE
  /\ UNCHANGED <<authVars, live, listedFor, generation, refreshTimer, stream, online,
                 served, calls, signingOut, turns>>

-----------------------------------------------------------------------------
(* The event stream.  Every subscriber's queue takes the events of every    *)
(* account; what it may see is decided as an event is sent.  The server     *)
(* drops a subscriber whose queue is full and puts a notice in the place of *)
(* the oldest event.                                                       *)

\* A queue with no limit.
PublishedUnbounded(event, shell) ==
  stream' = IF stream.state # "open" THEN stream
            ELSE [stream EXCEPT !.queue = Append(@, [event |-> event, shell |-> shell])]


Published(event, shell) ==
  stream' = IF stream.state # "open" \/ stream.full THEN stream
            ELSE IF Len(stream.queue) < MaxEvents
            THEN [stream EXCEPT !.queue = Append(@, [event |-> event, shell |-> shell])]
            ELSE [stream EXCEPT !.queue = Append(Tail(@), [event |-> "overflow"]),
                                !.full = TRUE]

StreamOpens ==
  /\ stream.state = "connecting" /\ cookie \in honoured
  /\ stream' = [state |-> "open", as |-> cookie, queue |-> <<>>, full |-> FALSE]
  /\ refreshTimer' = TRUE
  /\ UNCHANGED <<authVars, live, listedFor, lapsed, generation, refreshes, online, served,
                 calls, signingOut, turns>>

\* onerror: the EventSource connects again by itself.
StreamBreaks ==
  /\ stream.state = "open" /\ Turn
  /\ stream' = [state |-> "connecting"]
  /\ UNCHANGED <<authVars, live, listedFor, lapsed, generation, refreshTimer, refreshes,
                 online, served, calls, signingOut>>

\* The generator of events_endpoint: a notice has no owner, so only an
\* administrator is sent it; the response ends behind it for everyone, and the
\* EventSource connects again.
OverflowEnds ==
  /\ stream.state = "open" /\ stream.queue # <<>> /\ Head(stream.queue).event = "overflow"
  /\ stream' = [state |-> "connecting"]
  /\ refreshTimer' = (refreshTimer \/ stream.as \in Admins)
  /\ UNCHANGED <<authVars, live, listedFor, lapsed, generation, refreshes, online, served,
                 calls, signingOut, turns>>

\* _event_visible drops what is not for this account; the page handles the rest.
handle ==
  /\ stream.state = "open" /\ stream.queue # <<>> /\ Head(stream.queue).event # "overflow"
  /\ stream' = [stream EXCEPT !.queue = Tail(@)]
  /\ LET e == Head(stream.queue) IN
     IF e.shell \notin VisibleTo[stream.as] THEN UNCHANGED <<live, online, refreshTimer>>
     ELSE CASE e.event = "presence" -> apply(e.shell) /\ UNCHANGED <<live, refreshTimer>>
            [] e.event = "session_created" -> refreshTimer' = TRUE /\ UNCHANGED <<live, online>>
            [] e.event = "session_ended" ->
                 refreshTimer' = TRUE /\ live' = live \ {e.shell} /\ forget(e.shell)
  /\ UNCHANGED <<authVars, listedFor, lapsed, generation, refreshes, served, calls,
                 signingOut, turns>>

\* Others start, leave and watch terminals.
ServerChanges(s) ==
  /\ Turn
  /\ \/ s \notin served /\ served' = served \cup {s} /\ Published("session_created", s)
     \/ s \in served /\ served' = served \ {s} /\ Published("session_ended", s)
     \/ s \in served /\ UNCHANGED served /\ Published("presence", s)
  /\ UNCHANGED <<authVars, live, listedFor, lapsed, generation, refreshTimer, refreshes,
                 online, calls, signingOut>>

-----------------------------------------------------------------------------
(* create() and remove(); bound: one call at a time.                       *)

CallBegins ==
  /\ user # Nobody /\ calls = {} /\ Turn
  /\ \/ calls' = {[op |-> "create", by |-> cookie]}
     \/ \E s \in live : calls' = {[op |-> "remove", by |-> cookie, shell |-> s]}
  /\ UNCHANGED <<authVars, rosterVars, served, signingOut>>

\* Both refresh the list once they are answered, whoever is signed in by then.
CallAnswered ==
  /\ \E c \in calls :
       /\ c.by \in honoured
       /\ calls' = calls \ {c}
       /\ \/ /\ c.op = "create"
             /\ \E s \in VisibleTo[c.by] \ served :
                  served' = served \cup {s} /\ Published("session_created", s)
             /\ UNCHANGED live
          \/ /\ c.op = "remove"
             /\ served' = served \ {c.shell}
             /\ IF c.shell \in served THEN Published("session_ended", c.shell)
                                      ELSE UNCHANGED stream
             /\ live' = live \ {c.shell}
  /\ refresh
  /\ UNCHANGED <<authVars, listedFor, generation, refreshTimer, online, signingOut, turns>>

CallDenied ==
  /\ \E c \in calls : c.by \notin honoured /\ calls' = calls \ {c}
  /\ UNCHANGED <<restored, asking, cookie, honoured, listedFor, lapsed,
                 refreshes, served, signingOut, turns>>
  /\ Unidentified

-----------------------------------------------------------------------------

SessionListInit ==
  /\ user = Nobody /\ restored = FALSE /\ asking = Nobody
  /\ cookie \in Holders /\ honoured = {cookie} \ {Nobody}
  /\ served = {} /\ live = {} /\ listedFor = Nobody
  /\ generation = 0 /\ refreshTimer = FALSE /\ refreshes = <<>>
  /\ stream = NoStream /\ online = {} /\ turns = 0 /\ calls = {} /\ signingOut = <<>>
  /\ lapsed = FALSE /\ abandoned = FALSE

SessionListNext ==
  \/ restore \/ LoginAccepted \/ LoginRefused
  \/ \E name \in Accounts : submit(name) \/ CredentialEnds(name)
  \/ logout \/ LogoutAnswered \/ expireSession
  \/ TimerFires
  \/ \E i \in DOMAIN refreshes :
       ListServed(i) \/ ListArrives(i) \/ ListDenied(i) \/ ListFails(i)
  \/ StreamOpens \/ StreamBreaks \/ OverflowEnds \/ handle
  \/ \E s \in Shells : ServerChanges(s)
  \/ CallBegins \/ CallAnswered \/ CallDenied

SessionListSpec == SessionListInit /\ [][SessionListNext]_sessionVars

-----------------------------------------------------------------------------

\* The variables have their types.
SessionListTypeOK ==
  /\ user \in Holders /\ asking \in Holders /\ cookie \in Holders
  /\ restored \in BOOLEAN /\ refreshTimer \in BOOLEAN
  /\ lapsed \in BOOLEAN /\ abandoned \in BOOLEAN
  /\ honoured \subseteq Accounts /\ listedFor \in Holders
  /\ served \subseteq Shells /\ live \subseteq Shells /\ online \subseteq Shells
  /\ generation \in Nat /\ turns \in 0 .. MaxTurns
  /\ \A r \in Range(refreshes) :
       /\ r.epoch \in 0 .. generation
       /\ r.by \in Holders
       /\ r.answer \in {Waiting, Denied} \cup SUBSET Shells
  /\ stream.state \in {"none", "connecting", "open"}
  /\ stream.state = "open" =>
       /\ stream.as \in Accounts /\ stream.full \in BOOLEAN
       /\ stream.queue \in SeqOf(Events, MaxEvents)

\* What the page shows was fetched with the credential of the account signed in
\* on it, and what it knows of viewers is about terminals that account may see,
\* however late answers and events arrive (`generation` in sessions.ts, reset()).
\* The list is promised only until an identity goes whose credential the server
\* still honours (a logout that failed, a 401 of an earlier account): a call of
\* that account answered after it refreshes the list in the new generation.
AccountIsolation ==
  /\ ~abandoned => (live # {} => listedFor = user)
  /\ online \subseteq IF user = Nobody THEN {} ELSE VisibleTo[user]

=============================================================================
