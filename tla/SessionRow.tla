------------------------------ MODULE SessionRow ------------------------------
(***************************************************************************)
(* One session's row in the database and the server processes that share   *)
(* it: the create request's late INSERT, the finalizer's write when the     *)
(* session ends, the maintenance sweep, and the reconciliation that adopts *)
(* or retires what a dead process left behind (src/wsctl/server/app.py,    *)
(* src/wsctl/server/maintenance.py, src/wsctl/core/store.py and the        *)
(* SessionManager of src/wsctl/core/session.py).                           *)
(*                                                                         *)
(* A store call runs on a worker thread while its caller waits, so each is *)
(* a step of its own, and other steps happen between two of them.  The     *)
(* maintenance work of one process is sequential.  All processes run on    *)
(* one host, and each renews its lease long before the lease expires.      *)
(***************************************************************************)
EXTENDS Naturals

CONSTANTS
  Incarnations,  \* the server processes, one instance id each
  NoOne,         \* the owner of a row that does not exist
  ScanEvery      \* without tmux rows, reconciliations per orphan scan (12)

ASSUME RowBounds ==
  /\ NoOne \notin Incarnations
  /\ ScanEvery \in Nat \ {0}

VARIABLES
  backend,   \* the session's backend, "local" or "tmux"
  shell,     \* the program in the session: "none", "running" or "exited"
  row,       \* the session's row in term_sessions
  lease,     \* the processes with a row in instances
  phase,     \* each process: "unborn", "starting", "up", "stopping" or "down"
  creator,   \* its create request: "idle" or "inserting"
  held,      \* what its manager holds: "none", "live", "closing",
             \* "upserting" or "filed", the last three while it finalizes
  verdict,   \* how its finalizer says the session ended
  pc,        \* where its maintenance is
  seen,      \* the row as its reconciliation read it
  tick       \* its _reconcile_tick, modulo ScanEvery

vars == <<backend, shell, row, lease, phase, creator, held, verdict, pc, seen, tick>>

\* "stopped", "killed" and "expired" are one status here: the session ended.
Statuses == {"absent", "running", "ended"}
\* "own" is what the session's finalizer says, the others are the fixed texts.
Reasons == {"none", "own", "crash", "missing", "adopted"}

Rows == [status : Statuses, reason : Reasons,
         owner : Incarnations \cup {NoOne}, code : BOOLEAN]
NoRow == [status |-> "absent", reason |-> "none", owner |-> NoOne, code |-> FALSE]

Init ==
  /\ backend \in {"local", "tmux"}
  /\ shell = "none"
  /\ row = NoRow
  /\ lease = {}
  /\ phase = [i \in Incarnations |-> "unborn"]
  /\ creator = [i \in Incarnations |-> "idle"]
  /\ held = [i \in Incarnations |-> "none"]
  /\ verdict = [i \in Incarnations |-> "none"]
  /\ pc = [i \in Incarnations |-> "off"]
  /\ seen = [i \in Incarnations |-> NoRow]
  /\ tick = [i \in Incarnations |-> 0]

-----------------------------------------------------------------------------
(* The store.                                                              *)

\* INSERT ... ON CONFLICT DO UPDATE: it keeps an ended status, takes the
\* owner, and has no column for the reason or the exit code.
Upsert(status, i) ==
  IF row.status = "absent"
  THEN [NoRow EXCEPT !.status = status, !.owner = i]
  ELSE [row EXCEPT !.status = IF status = "running" THEN @ ELSE status,
                   !.owner = i]

\* Mutant: an exit code that is not given leaves the old one.
SetStatusKeepsCode(status, reason, code) ==
  IF row.status = "absent" THEN row
  ELSE [row EXCEPT !.status = status, !.reason = reason, !.code = @ \/ code]

\* UPDATE ... SET status, end_reason, exit_code: nothing without a row.
SetStatus(status, reason, code) ==
  IF row.status = "absent" THEN row
  ELSE [row EXCEPT !.status = status, !.reason = reason, !.code = code]

\* Mutant: rows of every process are swept.
StopMissingOfAnyone(i) ==
  IF row.status = "running" /\ held[i] = "none"
  THEN [row EXCEPT !.status = "ended",
                   !.reason = IF @ = "none" THEN "crash" ELSE @]
  ELSE row

\* Mutant: a session that began to close is taken for missing.
StopMissingOnceClosed(i) ==
  IF row.status = "running" /\ row.owner = i /\ held[i] # "live"
  THEN [row EXCEPT !.status = "ended",
                   !.reason = IF @ = "none" THEN "crash" ELSE @]
  ELSE row

\* term_session_stop_missing of process i.
StopMissing(i) ==
  IF row.status = "running" /\ row.owner = i /\ held[i] = "none"
  THEN [row EXCEPT !.status = "ended",
                   !.reason = IF @ = "none" THEN "crash" ELSE @]
  ELSE row

-----------------------------------------------------------------------------
(* Processes.                                                              *)

Serving(i) == phase[i] \in {"up", "stopping"}

\* The process registers its lease, and reconciles before it serves anyone.
Boot(i) ==
  /\ phase[i] = "unborn"
  /\ phase' = [phase EXCEPT ![i] = "starting"]
  /\ lease' = lease \cup {i}
  /\ pc' = [pc EXCEPT ![i] = "listing"]
  /\ UNCHANGED <<backend, shell, row, creator, held, verdict, seen, tick>>

\* The process dies where it stands.  Its terminals close: that ends a local
\* shell, and only the client of one inside tmux.  The lease stays behind.
Crash(i) ==
  /\ phase[i] = "starting" \/ Serving(i)
  /\ phase' = [phase EXCEPT ![i] = "down"]
  /\ shell' = IF backend = "local" /\ held[i] # "none" THEN "exited" ELSE shell
  /\ creator' = [creator EXCEPT ![i] = "idle"]
  /\ held' = [held EXCEPT ![i] = "none"]
  /\ pc' = [pc EXCEPT ![i] = "off"]
  /\ seen' = [seen EXCEPT ![i] = NoRow]
  /\ UNCHANGED <<backend, row, lease, verdict, tick>>

\* The lifespan ends: maintenance is cancelled, all but a store call on its
\* thread, and the manager stops what it holds.  With preserve, a session in
\* tmux only loses its client.
InStore(i) == pc[i] \in {"retireCrash", "retireMissing", "setInstance", "setRunning"}

Shutdown(i, preserve) ==
  /\ phase[i] = "up"
  /\ phase' = [phase EXCEPT ![i] = "stopping"]
  /\ pc' = [pc EXCEPT ![i] = IF InStore(i) THEN @ ELSE "off"]
  /\ seen' = [seen EXCEPT ![i] = IF InStore(i) THEN @ ELSE NoRow]
  /\ IF held[i] = "live"
     THEN /\ held' = [held EXCEPT ![i] = "closing"]
          /\ IF preserve /\ backend = "tmux"
             THEN /\ verdict' = [verdict EXCEPT ![i] = "preserved"]
                  /\ UNCHANGED shell
             ELSE /\ verdict' = [verdict EXCEPT ![i] = "own"]
                  /\ shell' = "exited"
     ELSE UNCHANGED <<held, verdict, shell>>
  /\ UNCHANGED <<backend, row, lease, creator, tick>>

\* Only after that does the process give up its lease.
ShutdownDone(i) ==
  /\ phase[i] = "stopping" /\ held[i] = "none"
  /\ phase' = [phase EXCEPT ![i] = "down"]
  /\ lease' = lease \ {i}
  /\ creator' = [creator EXCEPT ![i] = "idle"]
  /\ pc' = [pc EXCEPT ![i] = "off"]
  /\ seen' = [seen EXCEPT ![i] = NoRow]
  /\ UNCHANGED <<backend, shell, row, held, verdict, tick>>

-----------------------------------------------------------------------------
(* The session.                                                            *)

\* The shell starts and the manager holds it, before there is a row.
Create(i) ==
  /\ phase[i] = "up" /\ shell = "none"
  /\ shell' = "running"
  /\ held' = [held EXCEPT ![i] = "live"]
  /\ creator' = [creator EXCEPT ![i] = "inserting"]
  /\ UNCHANGED <<backend, row, lease, phase, verdict, pc, seen, tick>>

InsertRow(i) ==
  /\ Serving(i) /\ creator[i] = "inserting"
  /\ creator' = [creator EXCEPT ![i] = "idle"]
  /\ row' = Upsert("running", i)
  /\ UNCHANGED <<backend, shell, lease, phase, held, verdict, pc, seen, tick>>

\* By itself, or because the session is stopped on request or expires.
ShellExits ==
  /\ shell = "running"
  /\ shell' = "exited"
  /\ UNCHANGED <<backend, row, lease, phase, creator, held, verdict, pc, seen, tick>>

\* The read loop meets the end of the terminal and the finalizer decides.
FinalizerStarts(i) ==
  /\ held[i] = "live"
  /\ held' = [held EXCEPT ![i] = "closing"]
  /\ verdict' = [verdict EXCEPT ![i] = "own"]
  /\ UNCHANGED <<backend, shell, row, lease, phase, creator, pc, seen, tick>>

TerminalEnds(i) == shell = "exited" /\ FinalizerStarts(i)

\* Someone detaches the tmux client; the shell inside tmux lives on.
ClientDetaches(i) == backend = "tmux" /\ shell = "running" /\ FinalizerStarts(i)

\* A preserved session writes nothing.
FileEnd(i) ==
  /\ held[i] = "closing"
  /\ row' = IF verdict[i] = "preserved" THEN row ELSE SetStatus("ended", "own", TRUE)
  /\ held' = [held EXCEPT ![i] =
       IF verdict[i] = "own" /\ row.status = "absent" THEN "upserting" ELSE "filed"]
  /\ UNCHANGED <<backend, shell, lease, phase, creator, verdict, pc, seen, tick>>

\* There was no row to update: the finalizer inserts it.
FileMissingRow(i) ==
  /\ held[i] = "upserting"
  /\ row' = Upsert("ended", i)
  /\ held' = [held EXCEPT ![i] = "filed"]
  /\ UNCHANGED <<backend, shell, lease, phase, creator, verdict, pc, seen, tick>>

Forget(i) ==
  /\ held[i] = "filed"
  /\ held' = [held EXCEPT ![i] = "none"]
  /\ UNCHANGED <<backend, shell, row, lease, phase, creator, verdict, pc, seen, tick>>

-----------------------------------------------------------------------------
(* Maintenance of process i: a sweep, then a reconciliation, and again.    *)

\* The reconciliation is done with the row; the first one starts the service.
NextRound(i) ==
  /\ pc' = [pc EXCEPT ![i] = IF phase[i] = "stopping" THEN "off" ELSE "sweeping"]
  /\ phase' = [phase EXCEPT ![i] = IF @ = "starting" THEN "up" ELSE @]
  /\ seen' = [seen EXCEPT ![i] = NoRow]

Sweep(i) ==
  /\ pc[i] = "sweeping"
  /\ row' = StopMissing(i)
  /\ pc' = [pc EXCEPT ![i] = "listing"]
  /\ UNCHANGED <<backend, shell, lease, phase, creator, held, verdict, seen, tick>>

\* Mutant: the lease of a dead process stays.
ListRowsKeepsLeases(i) ==
  /\ pc[i] = "listing"
  /\ seen' = [seen EXCEPT ![i] = row]
  /\ pc' = [pc EXCEPT ![i] = "scanning"]
  /\ UNCHANGED <<backend, shell, row, lease, phase, creator, held, verdict, tick>>

\* Leases of dead processes go first, then the rows are read.
ListRows(i) ==
  /\ pc[i] = "listing"
  /\ lease' = {j \in lease : phase[j] # "down"}
  /\ seen' = [seen EXCEPT ![i] = row]
  /\ pc' = [pc EXCEPT ![i] = "scanning"]
  /\ UNCHANGED <<backend, shell, row, phase, creator, held, verdict, tick>>

\* Mutant: any row makes a tmux session a known one.
KillOrphanWithoutRow(i) ==
  shell' = IF backend = "tmux" /\ seen[i].status = "absent" /\ shell = "running"
           THEN "exited" ELSE shell

\* A tmux session of ours whose row was not running when the rows were read
\* is killed.  Without tmux rows, this session's or another's, the scan is
\* occasional.
KillOrphan(i) ==
  shell' = IF backend = "tmux" /\ seen[i].status # "running" /\ shell = "running"
           THEN "exited" ELSE shell

ScanOrphans(i) ==
  /\ pc[i] = "scanning"
  /\ \/ KillOrphan(i)
     \/ /\ backend = "local" \/ seen[i].status = "absent"
        /\ tick[i] # 0
        /\ UNCHANGED shell
  /\ tick' = [tick EXCEPT ![i] = (@ + 1) % ScanEvery]
  /\ pc' = [pc EXCEPT ![i] = "judging"]
  /\ UNCHANGED <<backend, row, lease, phase, creator, held, verdict, seen>>

\* Mutant: live peers are not asked for.
NotOursHere(i) == seen[i].status # "running" \/ held[i] # "none"

\* A row that is not running, or a live peer's, or of a session held here.
NotOurs(i) ==
  \/ seen[i].status # "running"
  \/ seen[i].owner \in lease \ {i}
  \/ held[i] # "none"

Skip(i) ==
  /\ pc[i] = "judging" /\ NotOurs(i)
  /\ NextRound(i)
  /\ UNCHANGED <<backend, shell, row, lease, creator, held, verdict, tick>>

\* A local session died with its process; one in tmux may still be there.
Judge(i) ==
  /\ pc[i] = "judging" /\ ~NotOurs(i)
  /\ pc' = [pc EXCEPT ![i] = IF backend = "local" THEN "retireCrash" ELSE "probing"]
  /\ UNCHANGED <<backend, shell, row, lease, phase, creator, held, verdict, seen, tick>>

Probe(i) ==
  /\ pc[i] = "probing"
  /\ pc' = [pc EXCEPT ![i] = IF shell = "running" THEN "adopting" ELSE "retireMissing"]
  /\ UNCHANGED <<backend, shell, row, lease, phase, creator, held, verdict, seen, tick>>

Retire(i) ==
  /\ pc[i] \in {"retireCrash", "retireMissing"}
  /\ row' = SetStatus("ended", IF pc[i] = "retireCrash" THEN "crash" ELSE "missing", FALSE)
  /\ NextRound(i)
  /\ UNCHANGED <<backend, shell, lease, creator, held, verdict, tick>>

\* tmux new-session -A: attach to the session or, if it has gone, start one.
Adopt(i) ==
  /\ pc[i] = "adopting"
  /\ shell' = "running"
  /\ held' = [held EXCEPT ![i] = "live"]
  /\ verdict' = [verdict EXCEPT ![i] = "none"]
  /\ pc' = [pc EXCEPT ![i] = "setInstance"]
  /\ UNCHANGED <<backend, row, lease, phase, creator, seen, tick>>

TakeOwnership(i) ==
  /\ pc[i] = "setInstance"
  /\ row' = [row EXCEPT !.owner = i]
  /\ pc' = [pc EXCEPT ![i] = IF phase[i] = "stopping" THEN "off" ELSE "setRunning"]
  /\ UNCHANGED <<backend, shell, lease, phase, creator, held, verdict, seen, tick>>

MarkAdopted(i) ==
  /\ pc[i] = "setRunning"
  /\ row' = SetStatus("running", "adopted", FALSE)
  /\ NextRound(i)
  /\ UNCHANGED <<backend, shell, lease, creator, held, verdict, tick>>

-----------------------------------------------------------------------------
Finalize(i) == FileEnd(i) \/ FileMissingRow(i) \/ Forget(i)

Reconcile(i) ==
  \/ ListRows(i) \/ ScanOrphans(i) \/ Skip(i) \/ Judge(i) \/ Probe(i)
  \/ Retire(i) \/ Adopt(i) \/ TakeOwnership(i) \/ MarkAdopted(i)

Next ==
  \/ ShellExits
  \/ \E i \in Incarnations :
       \/ Boot(i) \/ Crash(i) \/ ShutdownDone(i)
       \/ \E preserve \in BOOLEAN : Shutdown(i, preserve)
       \/ Create(i) \/ InsertRow(i)
       \/ TerminalEnds(i) \/ ClientDetaches(i) \/ Finalize(i)
       \/ Sweep(i) \/ Reconcile(i)

\* The event loop runs what is ready: every request, finalizer and round of
\* maintenance that has begun goes on.  Nothing obliges a process to start,
\* to stop or to crash, a shell to exit, or anyone to detach.
Fairness ==
  \A i \in Incarnations :
    /\ WF_vars(InsertRow(i)) /\ WF_vars(TerminalEnds(i)) /\ WF_vars(Finalize(i))
    /\ WF_vars(Sweep(i)) /\ WF_vars(Reconcile(i)) /\ WF_vars(ShutdownDone(i))

Spec == Init /\ [][Next]_vars

FairSpec == Spec /\ Fairness
-----------------------------------------------------------------------------
(* Properties.                                                             *)

\* Every variable has its type; a row that does not exist holds nothing, and
\* an exit code is on record only for an ended session.
TypeOK ==
  /\ backend \in {"local", "tmux"}
  /\ shell \in {"none", "running", "exited"}
  /\ row \in Rows
  /\ row.status = "absent" => row = NoRow
  /\ row.code => row.status = "ended"
  /\ lease \subseteq Incarnations
  /\ phase \in [Incarnations -> {"unborn", "starting", "up", "stopping", "down"}]
  /\ creator \in [Incarnations -> {"idle", "inserting"}]
  /\ held \in [Incarnations -> {"none", "live", "closing", "upserting", "filed"}]
  /\ verdict \in [Incarnations -> {"none", "own", "preserved"}]
  /\ pc \in [Incarnations ->
       {"off", "sweeping", "listing", "scanning", "judging", "probing", "adopting",
        "retireCrash", "retireMissing", "setInstance", "setRunning"}]
  /\ seen \in [Incarnations -> Rows]
  /\ tick \in [Incarnations -> 0 .. ScanEvery - 1]

\* Live peers are left alone: a process that is about to retire or adopt a
\* session read it as its own or as that of a process that is down, and it
\* still is.
Claims(i) ==
  pc[i] \in {"probing", "adopting", "retireCrash", "retireMissing",
             "setInstance", "setRunning"}

OnlyTheDeadAreReplaced ==
  \A i \in Incarnations : Claims(i) =>
    seen[i].owner = i \/ phase[seen[i].owner] = "down"

\* A local session that runs in some process is not filed as ended: whoever
\* reads the row of a live shell, even long before, leaves it to its holder.
LocalSessionNotFiledEnded ==
  backend = "local" /\ shell = "running" /\ (\E i \in Incarnations : held[i] = "live")
    => row.status # "ended"

\* While a process holds a local session, finalizing or not, nothing but its
\* finalizer ends the row: no sweep and no peer files a clean exit as a crash
\* before the exit code is written.  (Two peers that meet over a tmux session
\* whose process died may both claim it, so it is not so for tmux.)
OnlyTheHolderFiles ==
  [][\A i \in Incarnations :
       backend = "local" /\ held[i] # "none"
       /\ row.status = "running" /\ row'.status = "ended"
         => held'[i] # held[i]]_vars

\* Some process stays up for good.
StaysUp == <>[](\E i \in Incarnations : phase[i] = "up")

\* While some process stays up, a running row whose shell has exited is
\* ended sooner or later, or its tmux session is started again: history does
\* not show a dead session as running for ever.
EndedSessionsAreFiled ==
  StaysUp => (row.status = "running" /\ shell = "exited"
                ~> row.status = "ended" \/ shell = "running")

\* While some process stays up, a shell that no process holds is adopted or
\* killed: a restart leaks no tmux session.
NoShellForgotten ==
  StaysUp => (shell = "running" /\ (\A i \in Incarnations : held[i] = "none")
                ~> shell = "exited" \/ (\E i \in Incarnations : held[i] = "live"))

\* The finalizer wrote why the session ended and with which exit code, or is
\* not done (app.py, _persist_session_end; CHANGELOG 0.2.3).  It does not hold,
\* and no run checks it: see "Known not to hold" in README.md.
EndSaysWhy ==
  \A i \in Incarnations :
    held[i] = "filed" /\ verdict[i] = "own" => row.code

\* What a session wrote of its own end is never overwritten (app.py: the
\* maintenance only catches rows orphaned by a crash).  It does not hold, and
\* no run checks it: see "Known not to hold" in README.md.
OwnVerdictKept ==
  [][row.status = "ended" /\ row.reason = "own"
       => row'.reason = "own" /\ row'.code = row.code]_vars

\* The orphan scan never kills the shell of a session that a process holds
\* (maintenance.py: leave live peers alone).
OrphanScanSparesTheLive ==
  [][\A i \in Incarnations :
       ScanOrphans(i) /\ (\E j \in Incarnations : held[j] = "live")
         => shell' = shell]_vars
=============================================================================
