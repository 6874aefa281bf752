----------------------------- MODULE SessionActor -----------------------------
(***************************************************************************)
(* One live terminal session: SessionActor in src/wsctl/core/actor.py,     *)
(* the TermSession of src/wsctl/core/session.py it serialises, the read    *)
(* loop, the finalizer, the viewers that attach and the requests to stop.  *)
(*                                                                         *)
(* Everything runs on one event loop, so a coroutine is atomic up to an    *)
(* await that really waits.  The actor's mailbox is an asyncio.Queue: a    *)
(* put into a full queue parks the caller, a get wakes the caller parked   *)
(* longest, and a caller that was woken looks again, so a newcomer may     *)
(* have taken the place.  The session lock is held across an await only    *)
(* while a screen is captured; every other section under it is one step    *)
(* that waits for the capture to end.                                      *)
(*                                                                         *)
(* Output is counted in chunks, one per read of the terminal.  Recording,  *)
(* input and resizing are left out: they touch none of this state.         *)
(***************************************************************************)
EXTENDS Integers, Sequences, FiniteSets

CONSTANTS
  Clients,      \* the viewers, each of which attaches once
  Stoppers,     \* the requests to stop: admin, expiry, shutdown
  MailboxSize,  \* mailbox_size of the actor
  MaxClients,   \* max_clients of the session, 0 = unlimited
  Backend,      \* "local" or "tmux"
  MaxChunks     \* bound: chunks the child writes

\* The two callers that are not viewers.
Reader == "reader"
Stopper == "stopper"

\* _fail_pending empties the mailbox once, and each get wakes one parked caller:
\* everyone parked or woken by then must find a place among MailboxSize, or the
\* last would stay parked for ever.  The server's mailbox holds 4096 calls, and
\* a connection has one in flight.
ASSUME ActorBounds ==
  /\ IsFiniteSet(Clients) /\ Cardinality(Clients) <= MailboxSize
  /\ Clients \cap {Reader, Stopper} = {}
  /\ MailboxSize \in Nat \ {0}
  /\ MaxClients \in Nat /\ MaxChunks \in Nat
  /\ Backend \in {"local", "tmux"}

Callers == Clients \cup {Reader, Stopper}
Calls ==
  [op : {"attach", "resync", "detach"}, who : Clients] \cup
  {[op |-> "emit", who |-> Reader], [op |-> "stop", who |-> Stopper]}
Idle == [op |-> "none", who |-> "none"]

VARIABLES
  mailbox,    \* calls accepted, oldest first
  putters,    \* calls parked on a full mailbox, longest first
  woken,      \* calls woken that have not looked again
  waiting,    \* callers that await an answer; a call of another is cancelled
  job,        \* the call the worker is in, or Idle
  step,       \* where in it: "idle", "capturing", "killing", "draining",
              \* "finalizing", "waiting", or "over" once the worker returned
  anchor,     \* end of the stream when the capture under way began
  stopTask,   \* "none", "created", or "called" once it has queued its call
  requests,   \* each stop request: "none", "waiting" or "returned"
  reader,     \* "reading", "emitting", "direct", "joining" or "done"
  finalizer,  \* "none", "created", "reaping", "persisting", "notifying", "done"
  closed,     \* TermSession.closed
  child,      \* "running" or "exited"
  written,    \* chunks the child has written
  end,        \* chunks broadcast: the end of the resumable stream
  status,     \* each viewer's endpoint: "new", "joining", "attached",
              \* "resyncing", "repaired" (attached), "leaving" or "gone"
  open,       \* viewers whose connection still takes frames
  registered, \* TermSession._clients
  \* History, read by the properties only:
  seen,       \* chunks each viewer has been given, by snapshot, replay or live
  told,       \* the last of "nothing", "attached", "exit" each viewer was told
  doubled,    \* viewers given output again that their snapshot showed
  timedOut    \* bounded waits of stop that ran out

mailVars == <<mailbox, putters, woken, waiting>>
workVars == <<job, step, anchor>>
stopVars == <<stopTask, requests, timedOut>>
streamVars == <<child, written, end>>
viewVars == <<status, open, registered, seen, told, doubled>>
vars == <<mailVars, workVars, stopVars, reader, finalizer, closed,
          streamVars, viewVars>>

Init ==
  /\ mailbox = <<>> /\ putters = <<>> /\ woken = {} /\ waiting = {}
  /\ job = Idle /\ step = "idle" /\ anchor = 0
  /\ stopTask = "none" /\ requests = [s \in Stoppers |-> "none"]
  /\ timedOut = {}
  /\ reader = "reading" /\ finalizer = "none" /\ closed = FALSE
  /\ child = "running" /\ written = 0 /\ end = 0
  /\ status = [c \in Clients |-> "new"]
  /\ open = Clients /\ registered = {}
  /\ seen = [c \in Clients |-> 0]
  /\ told = [c \in Clients |-> "nothing"]
  /\ doubled = {}

ActorClosed == step = "over"
Stopping == stopTask # "none"
Locked == step = "capturing"
Full == Len(mailbox) >= MailboxSize

-----------------------------------------------------------------------------
(***************************************************************************)
(* The mailbox.                                                            *)
(***************************************************************************)
\* _call, on an actor that is not closed: put, or park.
Put(op, who) ==
  LET call == [op |-> op, who |-> who]
  IN /\ IF Full
        THEN putters' = Append(putters, call) /\ UNCHANGED mailbox
        ELSE mailbox' = Append(mailbox, call) /\ UNCHANGED putters
     /\ waiting' = waiting \cup {who}
     /\ UNCHANGED woken

\* n gets wake the n callers parked longest.
Wake(n) ==
  LET k == IF n < Len(putters) THEN n ELSE Len(putters)
  IN /\ woken' = woken \cup {putters[i] : i \in 1 .. k}
     /\ putters' = SubSeq(putters, k + 1, Len(putters))

Get ==
  /\ mailbox' = Tail(mailbox)
  /\ Wake(1)

\* What an endpoint does once its call has failed: it lets go of the viewer.
Refuse(refused) ==
  /\ status' = [c \in Clients |-> IF c \in refused THEN "gone" ELSE status[c]]
  /\ open' = open \ refused

\* A woken caller looks again.  When the actor has closed meanwhile, its item
\* goes into a mailbox nobody reads, and the call raises.
Retry(call) ==
  /\ call \in woken
  /\ woken' = woken \ {call}
  /\ IF Full
     THEN /\ putters' = Append(putters, call)
          /\ UNCHANGED <<mailbox, waiting, status, open>>
     ELSE /\ mailbox' = Append(mailbox, call)
          /\ waiting' = IF ActorClosed THEN waiting \ {call.who} ELSE waiting
          /\ Refuse(IF ActorClosed THEN {call.who} \cap Clients ELSE {})
          /\ UNCHANGED putters
  /\ UNCHANGED <<workVars, stopVars, reader, finalizer, closed, streamVars,
                 registered, seen, told, doubled>>

Unparked(who) ==
  LET at == {i \in DOMAIN putters : putters[i].who = who}
      i == CHOOSE n \in at : TRUE
  IN IF at = {} THEN putters
     ELSE SubSeq(putters, 1, i - 1) \o SubSeq(putters, i + 1, Len(putters))

\* Mutant: the wake-up of a cancelled caller is lost.
CancelWithItsWakeUp(who) ==
  /\ waiting' = waiting \ {who}
  /\ putters' = Unparked(who)
  /\ woken' = {call \in woken : call.who # who}
  /\ UNCHANGED mailbox

\* A cancelled caller leaves the queue of parked ones, handing on a wake-up it
\* can no longer use; its item in the mailbox stays and will be skipped.
Cancel(who) ==
  LET mine == {call \in woken : call.who = who}
      rest == Unparked(who)
      k == IF mine # {} /\ ~Full /\ rest # <<>> THEN 1 ELSE 0
  IN /\ waiting' = waiting \ {who}
     /\ putters' = SubSeq(rest, k + 1, Len(rest))
     /\ woken' = (woken \ mine) \cup {rest[i] : i \in 1 .. k}
     /\ UNCHANGED mailbox

-----------------------------------------------------------------------------
(***************************************************************************)
(* The worker.  It takes the head of the mailbox, skips it if its caller   *)
(* has given up, and otherwise runs it to its first real wait.             *)
(***************************************************************************)
Takes(op) ==
  /\ step = "idle"
  /\ mailbox # <<>>
  /\ Head(mailbox).who \in waiting
  /\ Head(mailbox).op = op
  /\ Get

Client == Head(mailbox).who

Answer(who) == waiting' = waiting \ {who}

SkipCancelled ==
  /\ step = "idle"
  /\ mailbox # <<>>
  /\ Head(mailbox).who \notin waiting
  /\ Get
  /\ UNCHANGED <<waiting, workVars, stopVars, reader, finalizer, closed,
                 streamVars, viewVars>>

\* Mutant: nothing is sent any more once a stop was asked for.
BroadcastUnlessStopping ==
  /\ end' = end + 1
  /\ seen' = [c \in Clients |-> IF c \in registered \cap open /\ ~Stopping
                                THEN seen[c] + 1 ELSE seen[c]]
  /\ registered' = registered \cap open
  /\ UNCHANGED <<child, written, status, open, told, doubled>>

\* _broadcast: append the chunk and give it to every viewer; those whose
\* connection has closed are dropped.
Broadcast ==
  /\ end' = end + 1
  /\ seen' = [c \in Clients |-> IF c \in registered \cap open
                                THEN seen[c] + 1 ELSE seen[c]]
  /\ registered' = registered \cap open
  /\ UNCHANGED <<child, written, status, open, told, doubled>>

ServeEmit ==
  /\ Takes("emit")
  /\ Answer(Reader)
  /\ Broadcast
  /\ reader' = "reading"
  /\ UNCHANGED <<workVars, stopVars, finalizer, closed>>

\* Mutant: off by one, the cursor is set past the end.
GivenPast(c, drawn) ==
  /\ seen' = [seen EXCEPT ![c] = end + 1]
  /\ doubled' = IF drawn > anchor THEN doubled \cup {c} ELSE doubled

\* The viewer c is given a replay of the ring, which ends at the stream's end,
\* or a screen that shows the first drawn chunks.  With a screen it is given
\* nothing beyond the anchor the screen was captured at: what was broadcast
\* since has to reach it some other way.
GivenUpTo(c, drawn) ==
  /\ seen' = [seen EXCEPT ![c] = IF drawn > 0 THEN anchor ELSE end]
  /\ doubled' = IF drawn > anchor THEN doubled \cup {c} ELSE doubled

\* attach and attach_v2 under the lock: register and say "attached", unless the
\* connection has closed (ClientGone, and the registration is rolled back).
Admit(c, drawn) ==
  IF c \in open
  THEN /\ status' = [status EXCEPT ![c] = "attached"]
       /\ told' = [told EXCEPT ![c] = "attached"]
       /\ registered' = registered \cup {c}
       /\ GivenUpTo(c, drawn)
       /\ UNCHANGED open
  ELSE /\ Refuse({c})
       /\ UNCHANGED <<registered, seen, told, doubled>>

RefusesAttach ==
  \/ closed
  \/ MaxClients > 0 /\ Cardinality(registered) >= MaxClients

ServeAttachRefused ==
  /\ Takes("attach")
  /\ RefusesAttach
  /\ Answer(Client)
  /\ Refuse({Client})
  /\ UNCHANGED <<workVars, stopVars, reader, finalizer, closed, streamVars,
                 registered, seen, told, doubled>>

\* An exact resume, a v1 attach, or a provider that has no screen.
ServeAttachReplay ==
  /\ Takes("attach")
  /\ ~RefusesAttach
  /\ Answer(Client)
  /\ anchor' = end
  /\ Admit(Client, 0)
  /\ UNCHANGED <<job, step, stopVars, reader, finalizer, closed, streamVars>>

\* An attach or a resync waits for a screen, with the lock held.
ServeCapture ==
  /\ \/ Takes("attach") /\ ~RefusesAttach
     \/ Takes("resync") /\ ~closed
  /\ job' = Head(mailbox)
  /\ step' = "capturing"
  /\ anchor' = end
  /\ UNCHANGED <<waiting, stopVars, reader, finalizer, closed, streamVars, viewVars>>

\* resync of a session that has closed raises ClientGone; the pump goes on.
ServeResyncRefused ==
  /\ Takes("resync")
  /\ closed
  /\ Answer(Client)
  /\ status' = [status EXCEPT ![Client] = "repaired"]
  /\ UNCHANGED <<workVars, stopVars, reader, finalizer, closed, streamVars,
                 open, registered, seen, told, doubled>>

\* What a captured screen may show: pyte is fed by _broadcast, while tmux
\* draws what the child writes, read by the server or not.
Screens == {0} \cup IF Backend = "tmux" THEN end .. written ELSE {end}

\* The screen (0 when there is none and the ring is replayed) is queued.
Captured ==
  /\ step = "capturing"
  /\ \E drawn \in Screens :
       IF job.op = "attach" THEN Admit(job.who, drawn)
       ELSE /\ status' = [status EXCEPT ![job.who] = "repaired"]
            /\ IF job.who \in open /\ (drawn > 0 \/ ~closed)
               THEN GivenUpTo(job.who, drawn)
               ELSE UNCHANGED <<seen, doubled>>
            /\ UNCHANGED <<open, registered, told>>
  /\ Answer(job.who)
  /\ job' = Idle /\ step' = "idle"
  /\ UNCHANGED <<mailbox, putters, woken, anchor, stopVars, reader, finalizer,
                 closed, streamVars>>

ServeDetach ==
  /\ Takes("detach")
  /\ Answer(Client)
  /\ registered' = registered \ {Client}
  /\ Refuse({Client})
  /\ UNCHANGED <<workVars, stopVars, reader, finalizer, closed, streamVars,
                 seen, told, doubled>>

-----------------------------------------------------------------------------
(***************************************************************************)
(* Stopping.  The first request creates the task that queues the stop; the *)
(* others wait for that task.                                              *)
(***************************************************************************)
RequestStop(s) ==
  /\ requests[s] = "none"
  /\ requests' = [requests EXCEPT ![s] = IF ActorClosed THEN "returned" ELSE "waiting"]
  /\ stopTask' = IF ~ActorClosed /\ ~Stopping THEN "created" ELSE stopTask
  /\ UNCHANGED <<timedOut, mailVars, workVars, reader, finalizer, closed,
                 streamVars, viewVars>>

CallStop ==
  /\ stopTask = "created"
  /\ stopTask' = "called"
  /\ Put("stop", Stopper)
  /\ UNCHANGED <<requests, timedOut, workVars, reader, finalizer, closed,
                 streamVars, viewVars>>

StopReturns(s) ==
  /\ requests[s] = "waiting"
  /\ ActorClosed
  /\ requests' = [requests EXCEPT ![s] = "returned"]
  /\ UNCHANGED <<stopTask, timedOut, mailVars, workVars, reader, finalizer,
                 closed, streamVars, viewVars>>

\* TermSession.stop: a session that has closed is only waited for.  Otherwise
\* viewers are told the reason and tmux is asked to end the shell, unless it is
\* to survive; the child is signalled, and the read loop waited for.
ServeStop ==
  /\ Takes("stop")
  /\ job' = Head(mailbox)
  /\ \E preserve \in BOOLEAN :
       /\ step' = IF closed THEN "waiting"
                  ELSE IF Backend = "tmux" /\ ~preserve THEN "killing"
                  ELSE "draining"
       /\ registered' = IF closed \/ preserve THEN registered
                        ELSE registered \cap open
  /\ UNCHANGED <<waiting, anchor, stopVars, reader, finalizer, closed,
                 streamVars, status, open, seen, told, doubled>>

\* tmux.kill_session_async has returned; the child is signalled.
TmuxKilled ==
  /\ step = "killing"
  /\ step' = "draining"
  /\ UNCHANGED <<mailVars, job, anchor, stopVars, reader, finalizer, closed,
                 streamVars, viewVars>>

\* Mutant: what is queued behind the stop is left there.
EndWorkerLeavesQueue ==
  /\ job' = Idle /\ step' = "over"
  /\ Answer(Stopper)
  /\ UNCHANGED <<mailbox, putters, woken, status, open, anchor, stopTask,
                 requests, finalizer, closed, streamVars, registered, seen,
                 told, doubled>>

\* The worker answers the stop, fails what is queued behind it and returns.
EndWorker ==
  LET failed == {mailbox[i].who : i \in DOMAIN mailbox} \cap waiting
  IN /\ job' = Idle /\ step' = "over"
     /\ waiting' = waiting \ (failed \cup {Stopper})
     /\ mailbox' = <<>>
     /\ Wake(Len(mailbox))
     /\ Refuse(failed \cap Clients)
     /\ UNCHANGED <<anchor, stopTask, requests, finalizer, closed, streamVars,
                    registered, seen, told, doubled>>

\* Mutant: a session that is closing is taken for one that has ended.
StopDrainedOnceClosed ==
  /\ \/ step = "draining" /\ reader = "done"
     \/ step = "finalizing" /\ finalizer = "done"
     \/ step = "waiting"
  /\ EndWorker
  /\ UNCHANGED <<timedOut, reader>>

StopDrained ==
  /\ \/ step = "draining" /\ reader = "done"
     \/ step \in {"finalizing", "waiting"} /\ finalizer = "done"
  /\ EndWorker
  /\ UNCHANGED <<timedOut, reader>>

\* wait_finalized gives the finalizer FINALIZE_DRAIN_TIMEOUT.
StopWaitTimesOut ==
  /\ step = "waiting"
  /\ finalizer # "done"
  /\ timedOut' = timedOut \cup {"finalizer"}
  /\ EndWorker
  /\ UNCHANGED reader

StartFinalizer == finalizer' = IF finalizer = "none" THEN "created" ELSE finalizer

\* The read loop has not ended in time: it is cancelled wherever it waits, and
\* the session finalized.
StopTimesOut ==
  /\ step = "draining"
  /\ reader # "done"
  /\ step' = "finalizing"
  /\ timedOut' = timedOut \cup {"reader"}
  /\ reader' = IF reader = "joining" THEN "done" ELSE "joining"
  /\ Cancel(Reader)
  /\ StartFinalizer
  /\ UNCHANGED <<job, anchor, stopTask, requests, closed, streamVars, viewVars>>

-----------------------------------------------------------------------------
(***************************************************************************)
(* The read loop and the child.                                            *)
(***************************************************************************)
ChildWrites ==
  /\ child = "running"
  /\ written < MaxChunks
  /\ written' = written + 1
  /\ UNCHANGED <<child, end, mailVars, workVars, stopVars, reader, finalizer,
                 closed, viewVars>>

ChildExits ==
  /\ child = "running"
  /\ child' = "exited"
  /\ UNCHANGED <<written, end, mailVars, workVars, stopVars, reader, finalizer,
                 closed, viewVars>>

\* emit: through the mailbox, or straight to the session once a stop was asked
\* for, because the worker will be waiting for this loop.
ReadChunk ==
  /\ reader = "reading"
  /\ end < written
  /\ IF Stopping \/ ActorClosed
     THEN reader' = "direct" /\ UNCHANGED mailVars
     ELSE reader' = "emitting" /\ Put("emit", Reader)
  /\ UNCHANGED <<workVars, stopVars, finalizer, closed, streamVars, viewVars>>

\* Mutant: the session lock is not taken.
BroadcastDirectUnlocked ==
  /\ reader = "direct"
  /\ reader' = "reading"
  /\ Broadcast
  /\ UNCHANGED <<mailVars, workVars, stopVars, finalizer, closed>>

BroadcastDirect ==
  /\ reader = "direct"
  /\ ~Locked
  /\ reader' = "reading"
  /\ Broadcast
  /\ UNCHANGED <<mailVars, workVars, stopVars, finalizer, closed>>

\* End of file: the terminal is drained and its writer gone.
ReaderEnds ==
  /\ reader = "reading"
  /\ child = "exited" /\ end = written
  /\ reader' = "joining"
  /\ StartFinalizer
  /\ UNCHANGED <<mailVars, workVars, stopVars, closed, streamVars, viewVars>>

ReaderJoins ==
  /\ reader = "joining"
  /\ finalizer = "done"
  /\ reader' = "done"
  /\ UNCHANGED <<mailVars, workVars, stopVars, finalizer, closed, streamVars,
                 viewVars>>

-----------------------------------------------------------------------------
(***************************************************************************)
(* The finalizer: mark closed, reap the child, persist, say "exit".        *)
(***************************************************************************)
FinalizerCloses ==
  /\ finalizer = "created"
  /\ finalizer' = "reaping"
  /\ closed' = TRUE
  /\ UNCHANGED <<mailVars, workVars, stopVars, reader, streamVars, viewVars>>

\* The child is waited for, then killed; it may survive even that (code -1).
ChildReaped ==
  /\ finalizer = "reaping"
  /\ finalizer' = "persisting"
  /\ child' \in {child, "exited"}
  /\ UNCHANGED <<written, end, mailVars, workVars, stopVars, reader, closed,
                 viewVars>>

Persisted ==
  /\ finalizer = "persisting"
  /\ finalizer' = "notifying"
  /\ UNCHANGED <<mailVars, workVars, stopVars, reader, closed, streamVars,
                 viewVars>>

SayExit ==
  /\ finalizer' = "done"
  /\ told' = [c \in Clients |-> IF c \in registered \cap open THEN "exit" ELSE told[c]]
  /\ registered' = registered \cap open
  /\ UNCHANGED <<mailVars, workVars, stopVars, reader, closed, streamVars,
                 status, open, seen, doubled>>

\* Mutant: the notice does not take the session lock.
NotifyExitUnlocked == finalizer = "notifying" /\ SayExit

NotifyExit == finalizer = "notifying" /\ ~Locked /\ SayExit

-----------------------------------------------------------------------------
(***************************************************************************)
(* The viewers: attach, repair, leave.                                     *)
(***************************************************************************)
\* An endpoint calls the actor; on one that is closed the call raises.
Endpoint(op, c, next) ==
  /\ IF ActorClosed
     THEN /\ Refuse({c})
          /\ UNCHANGED mailVars
     ELSE /\ status' = [status EXCEPT ![c] = next]
          /\ Put(op, c)
          /\ UNCHANGED open
  /\ UNCHANGED <<workVars, stopVars, reader, finalizer, closed, streamVars,
                 registered, seen, told, doubled>>

Join(c) == status[c] = "new" /\ Endpoint("attach", c, "joining")

\* Bound: a viewer asks for one resync (the server limits their rate).
Repair(c) == status[c] = "attached" /\ Endpoint("resync", c, "resyncing")

Leave(c) ==
  /\ status[c] \in {"attached", "repaired"}
  /\ Endpoint("detach", c, "leaving")

\* DETACH_TIMEOUT: the endpoint closes without having detached.
GiveUpDetach(c) ==
  /\ status[c] = "leaving"
  /\ Cancel(c)
  /\ Refuse({c})
  /\ UNCHANGED <<workVars, stopVars, reader, finalizer, closed, streamVars,
                 registered, seen, told, doubled>>

\* The socket fails or the viewer is evicted: its queue takes no more.
ConnectionFails(c) ==
  /\ c \in open
  /\ open' = open \ {c}
  /\ UNCHANGED <<mailVars, workVars, stopVars, reader, finalizer, closed,
                 streamVars, status, registered, seen, told, doubled>>

-----------------------------------------------------------------------------
Worker ==
  \/ SkipCancelled \/ ServeEmit
  \/ ServeAttachRefused \/ ServeAttachReplay \/ ServeCapture
  \/ ServeResyncRefused \/ Captured \/ ServeDetach
  \/ ServeStop \/ TmuxKilled \/ StopDrained

\* Mutant: stop waits for the read loop without a bound.
TimeoutsOfFinalizer == StopWaitTimesOut

Timeouts == StopTimesOut \/ StopWaitTimesOut

ReadLoop == ReadChunk \/ BroadcastDirect \/ ReaderEnds \/ ReaderJoins

Finalizer == FinalizerCloses \/ ChildReaped \/ Persisted \/ NotifyExit

Viewer(c) == Join(c) \/ Repair(c) \/ Leave(c) \/ GiveUpDetach(c) \/ ConnectionFails(c)

Next ==
  \/ Worker \/ Timeouts \/ CallStop \/ ReadLoop \/ Finalizer
  \/ \E call \in woken : Retry(call)
  \/ \E s \in Stoppers : RequestStop(s) \/ StopReturns(s)
  \/ \E c \in Clients : Viewer(c)
  \/ ChildWrites \/ ChildExits

\* What Retry does to woken: enough to say that it must happen.
LooksAgain(who) == \E call \in woken : call.who = who /\ woken' = woken \ {call}

\* The event loop runs every task that can go on, the threads and processes the
\* finalizer and a capture wait for end (each wait is bounded), and so do the
\* timeouts.  Nothing obliges the child, a viewer or an operator to act.
Fairness ==
  /\ WF_vars(Worker) /\ WF_vars(Timeouts) /\ WF_vars(CallStop)
  /\ WF_vars(ReadLoop) /\ WF_vars(Finalizer)
  /\ \A who \in Callers : WF_woken(LooksAgain(who))
  /\ \A s \in Stoppers : WF_vars(StopReturns(s))

Spec == Init /\ [][Next]_vars /\ Fairness

-----------------------------------------------------------------------------
(***************************************************************************)
(* Properties.                                                             *)
(***************************************************************************)
\* Every variable holds a value of its type.
TypeOK ==
  /\ mailbox \in Seq(Calls) /\ Len(mailbox) <= MailboxSize
  /\ putters \in Seq(Calls) /\ woken \subseteq Calls /\ waiting \subseteq Callers
  /\ job \in Calls \cup {Idle}
  /\ step \in {"idle", "capturing", "killing", "draining", "finalizing",
               "waiting", "over"}
  /\ anchor \in 0 .. MaxChunks
  /\ stopTask \in {"none", "created", "called"}
  /\ requests \in [Stoppers -> {"none", "waiting", "returned"}]
  /\ reader \in {"reading", "emitting", "direct", "joining", "done"}
  /\ finalizer \in {"none", "created", "reaping", "persisting", "notifying", "done"}
  /\ closed \in BOOLEAN
  /\ child \in {"running", "exited"}
  /\ written \in 0 .. MaxChunks /\ end \in 0 .. MaxChunks
  /\ status \in [Clients -> {"new", "joining", "attached", "resyncing",
                             "repaired", "leaving", "gone"}]
  /\ open \subseteq Clients /\ registered \subseteq Clients
  /\ seen \in [Clients -> 0 .. MaxChunks]
  /\ told \in [Clients -> {"nothing", "attached", "exit"}]
  /\ doubled \subseteq Clients
  /\ timedOut \subseteq {"reader", "finalizer"}

(***************************************************************************)
(* Whoever attaches, and however that races with output, a resync and a    *)
(* stop, a viewer in the session's table has been given the stream up to   *)
(* its end, without a hole: replay before live, nothing in between.        *)
(***************************************************************************)
StreamContiguous == \A c \in registered \cap open : seen[c] = end

(***************************************************************************)
(* The docstring of resync: holding the lock across capture and queueing   *)
(* makes the snapshot a true cut point.  No viewer is given output again   *)
(* that the screen it was given already showed.  It holds for a local      *)
(* shell; for tmux see "Known not to hold" in README.md.                   *)
(***************************************************************************)
SnapshotIsCutPoint == doubled = {}

(***************************************************************************)
(* Once the finalizer is done, every viewer in the table has been told     *)
(* "exit", and after its "attached": none slips in while the session dies  *)
(* and then waits at a terminal that will never speak again.               *)
(***************************************************************************)
ExitReachesEveryViewer ==
  finalizer = "done" => \A c \in registered \cap open : told[c] = "exit"

(***************************************************************************)
(* The comment in TermSession.stop: a stop that arrives during             *)
(* finalization does not return as if teardown were complete.  A stop that *)
(* has returned left a finalized session, unless its wait ran out.         *)
(***************************************************************************)
StopMeansFinalized ==
  \A s \in Stoppers :
    requests[s] = "returned" => finalizer = "done" \/ "finalizer" \in timedOut

\* Whose calls are in a queue, have been woken, are being served.
CallersIn(queue) == {queue[i].who : i \in DOMAIN queue}
Awake == {call.who : call \in woken}
Served == {call.who : call \in {job} \ {Idle}}

(***************************************************************************)
(* What _fail_pending and the queue's own wake-ups have to achieve, read   *)
(* in one state.  A caller that awaits an answer is queued, parked, woken  *)
(* or being served; nobody is parked while a place is free that no woken   *)
(* caller is about to take; and once the worker has returned, whoever      *)
(* still waits has been woken and will find a place.                       *)
(***************************************************************************)
NobodyStranded ==
  /\ waiting \subseteq CallersIn(mailbox) \cup CallersIn(putters) \cup Awake \cup Served
  /\ putters # <<>> => Len(mailbox) + Cardinality(woken) >= MailboxSize
  /\ ActorClosed => /\ putters = <<>> /\ waiting \subseteq Awake
                    /\ Len(mailbox) + Cardinality(woken) <= MailboxSize

(***************************************************************************)
(* The docstring of _fail_pending: no call hangs, in whatever order a stop *)
(* and the calls of viewers reach the mailbox, full or not.                *)
(***************************************************************************)
EveryCallAnswered == \A who \in Callers : who \in waiting ~> who \notin waiting

\* Every request to stop returns, whether or not the child obeys the signal.
EveryStopReturns ==
  \A s \in Stoppers : requests[s] = "waiting" ~> requests[s] = "returned"
=============================================================================
