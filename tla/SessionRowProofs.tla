--------------------------- MODULE SessionRowProofs ---------------------------
(* What the model of a session's row keeps for any number of processes.    *)
(* Live peers are left alone because a process that works holds its lease  *)
(* and a process that is down stays down.  A local session has one process *)
(* for good, the one that created it, so that only it, or a process that   *)
(* saw it dead, ever files the session's end.                              *)
EXTENDS SessionRow, TLAPS

Alive(i) == phase[i] \in {"starting", "up", "stopping"}

\* A row and its copies: an existing row has an owner.
WellFormed(r) ==
  /\ r \in Rows
  /\ r.status = "absent" => r = NoRow
  /\ r.status # "absent" => r.owner # NoOne
  /\ r.code => r.status = "ended"

\* Rows are well formed, and a row that was read does not vanish.
Records ==
  /\ WellFormed(row)
  /\ \A i \in Incarnations :
       WellFormed(seen[i]) /\ (row.status = "absent" => seen[i].status = "absent")

\* Who works is alive, and who is alive has its lease.
Leased ==
  \A i \in Incarnations :
    /\ Alive(i) => i \in lease
    /\ pc[i] # "off" \/ held[i] # "none" \/ creator[i] = "inserting" => Alive(i)

\* Owners were started, and a process claims a running row.
Born ==
  /\ row.owner # NoOne => phase[row.owner] # "unborn"
  /\ \A i \in Incarnations :
       /\ seen[i].owner # NoOne => phase[seen[i].owner] # "unborn"
       /\ Claims(i) => seen[i].status = "running"

\* A process that has had to do with the session.
Involved(i) ==
  \/ held[i] # "none" \/ creator[i] = "inserting" \/ row.owner = i
  \/ \E k \in Incarnations : seen[k].owner = i

\* A local session is one process's, before and after it ends.
OneProcess ==
  backend = "local" =>
    /\ \A i, j \in Incarnations : Involved(i) /\ Involved(j) => i = j
    /\ shell = "none" => \A i \in Incarnations : ~Involved(i)
    /\ \A i \in Incarnations :
         Claims(i) => pc[i] = "retireCrash" /\ held[i] = "none"

-----------------------------------------------------------------------------
(* Writes to the row.                                                      *)

LEMMA UpsertWrites ==
  ASSUME WellFormed(row), NEW status \in {"running", "ended"}, NEW i \in Incarnations
  PROVE  /\ WellFormed(Upsert(status, i))
         /\ Upsert(status, i).owner = i /\ Upsert(status, i).status # "absent"
         /\ status = "running" /\ row.status # "ended" => Upsert(status, i).status = "running"
<1> USE RowBounds DEF WellFormed, Upsert, Rows, NoRow, Statuses, Reasons
<1>1. CASE row.status = "absent"
  BY <1>1
<1>2. CASE row.status # "absent"
  BY <1>2
<1> QED
  BY <1>1, <1>2

LEMMA SetStatusWrites ==
  ASSUME WellFormed(row), NEW status \in {"running", "ended"},
         NEW reason \in Reasons, NEW code \in BOOLEAN, code => status = "ended"
  PROVE  /\ WellFormed(SetStatus(status, reason, code))
         /\ SetStatus(status, reason, code).owner = row.owner
         /\ row.status # "absent" => SetStatus(status, reason, code).status = status
  BY DEF WellFormed, SetStatus, Rows, NoRow, Statuses, Reasons

LEMMA StopMissingWrites ==
  ASSUME WellFormed(row), NEW i \in Incarnations
  PROVE  /\ WellFormed(StopMissing(i))
         /\ StopMissing(i).owner = row.owner
         /\ row.status # "absent" => StopMissing(i).status # "absent"
         /\ StopMissing(i) # row => row.owner = i /\ held[i] = "none"
  BY DEF WellFormed, StopMissing, Rows, NoRow, Statuses, Reasons

LEMMA OwnershipWrites ==
  ASSUME WellFormed(row), row.status # "absent", NEW i \in Incarnations
  PROVE  /\ WellFormed([row EXCEPT !.owner = i])
         /\ [row EXCEPT !.owner = i].owner = i
         /\ [row EXCEPT !.owner = i].status = row.status
  BY RowBounds DEF WellFormed, Rows, NoRow, Statuses, Reasons

-----------------------------------------------------------------------------
(* Types.                                                                  *)

\* The variables but for the row and its copies.
Plain ==
  /\ backend \in {"local", "tmux"}
  /\ shell \in {"none", "running", "exited"}
  /\ lease \subseteq Incarnations
  /\ phase \in [Incarnations -> {"unborn", "starting", "up", "stopping", "down"}]
  /\ creator \in [Incarnations -> {"idle", "inserting"}]
  /\ held \in [Incarnations -> {"none", "live", "closing", "upserting", "filed"}]
  /\ verdict \in [Incarnations -> {"none", "own", "preserved"}]
  /\ pc \in [Incarnations ->
       {"off", "sweeping", "listing", "scanning", "judging", "probing", "adopting",
        "retireCrash", "retireMissing", "setInstance", "setRunning"}]
  /\ tick \in [Incarnations -> 0 .. ScanEvery - 1]

LEMMA PlainKept == ASSUME Plain, [Next]_vars PROVE Plain'
<1> USE DEF Plain
<1>1. ASSUME NEW i \in Incarnations, Boot(i) PROVE Plain'
  BY <1>1 DEF Boot
<1>2. ASSUME NEW i \in Incarnations, Crash(i) PROVE Plain'
  BY <1>2 DEF Crash
<1>3. ASSUME NEW i \in Incarnations, NEW preserve \in BOOLEAN, Shutdown(i, preserve)
      PROVE  Plain'
  BY <1>3 DEF Shutdown, InStore
<1>4. ASSUME NEW i \in Incarnations, ShutdownDone(i) PROVE Plain'
  BY <1>4 DEF ShutdownDone
<1>5. ASSUME NEW i \in Incarnations, Create(i) PROVE Plain'
  BY <1>5 DEF Create
<1>6. ASSUME NEW i \in Incarnations, InsertRow(i) PROVE Plain'
  BY <1>6 DEF InsertRow
<1>7. ASSUME NEW i \in Incarnations, TerminalEnds(i) PROVE Plain'
  BY <1>7 DEF TerminalEnds, FinalizerStarts
<1>8. ASSUME NEW i \in Incarnations, ClientDetaches(i) PROVE Plain'
  BY <1>8 DEF ClientDetaches, FinalizerStarts
<1>9. ASSUME NEW i \in Incarnations, FileEnd(i) PROVE Plain'
  BY <1>9 DEF FileEnd
<1>10. ASSUME NEW i \in Incarnations, FileMissingRow(i) PROVE Plain'
  BY <1>10 DEF FileMissingRow
<1>11. ASSUME NEW i \in Incarnations, Forget(i) PROVE Plain'
  BY <1>11 DEF Forget
<1>12. ASSUME NEW i \in Incarnations, Sweep(i) PROVE Plain'
  BY <1>12 DEF Sweep
<1>13. ASSUME NEW i \in Incarnations, ListRows(i) PROVE Plain'
  BY <1>13 DEF ListRows
<1>14. ASSUME NEW i \in Incarnations, ScanOrphans(i) PROVE Plain'
  BY <1>14, RowBounds DEF ScanOrphans, KillOrphan
<1>15. ASSUME NEW i \in Incarnations, Skip(i) PROVE Plain'
  BY <1>15 DEF Skip, NextRound
<1>16. ASSUME NEW i \in Incarnations, Judge(i) PROVE Plain'
  BY <1>16 DEF Judge
<1>17. ASSUME NEW i \in Incarnations, Probe(i) PROVE Plain'
  BY <1>17 DEF Probe
<1>18. ASSUME NEW i \in Incarnations, Retire(i) PROVE Plain'
  BY <1>18 DEF Retire, NextRound
<1>19. ASSUME NEW i \in Incarnations, Adopt(i) PROVE Plain'
  BY <1>19 DEF Adopt
<1>20. ASSUME NEW i \in Incarnations, TakeOwnership(i) PROVE Plain'
  BY <1>20 DEF TakeOwnership
<1>21. ASSUME NEW i \in Incarnations, MarkAdopted(i) PROVE Plain'
  BY <1>21 DEF MarkAdopted, NextRound
<1>22. CASE ShellExits
  BY <1>22 DEF ShellExits
<1>23. CASE UNCHANGED vars
  BY <1>23 DEF vars
<1> QED
  BY <1>1, <1>2, <1>3, <1>4, <1>5, <1>6, <1>7, <1>8, <1>9, <1>10, <1>11, <1>12, <1>13,
     <1>14, <1>15, <1>16, <1>17, <1>18, <1>19, <1>20, <1>21, <1>22, <1>23
     DEF Next, Finalize, Reconcile
-----------------------------------------------------------------------------
(* Rows.                                                                   *)

\* What a step does to the row: it stays well formed, it does not vanish, and
\* who becomes its owner works on the session.
Works(i) == held[i] # "none" \/ creator[i] = "inserting" \/ pc[i] = "setInstance"

RowStep ==
  /\ WellFormed(row')
  /\ row.status # "absent" => row'.status # "absent"
  /\ row'.owner = row.owner \/ \E i \in Incarnations : row'.owner = i /\ Works(i)

\* The row is there for who claims it.
LEMMA ClaimedRowExists ==
  ASSUME Records, Born, NEW i \in Incarnations, Claims(i)
  PROVE  row.status # "absent"
  BY DEF Records, Born

LEMMA RowKept ==
  ASSUME Plain, Records, Born, [Next]_vars
  PROVE  RowStep
<1> USE DEF RowStep
<1>0. WellFormed(row)
  BY DEF Records
<1>1. ASSUME NEW i \in Incarnations, Boot(i) PROVE RowStep
  BY <1>1, <1>0 DEF Boot
<1>2. ASSUME NEW i \in Incarnations, Crash(i) PROVE RowStep
  BY <1>2, <1>0 DEF Crash
<1>3. ASSUME NEW i \in Incarnations, NEW preserve \in BOOLEAN, Shutdown(i, preserve)
      PROVE  RowStep
  BY <1>3, <1>0 DEF Shutdown, InStore
<1>4. ASSUME NEW i \in Incarnations, ShutdownDone(i) PROVE RowStep
  BY <1>4, <1>0 DEF ShutdownDone
<1>5. ASSUME NEW i \in Incarnations, Create(i) PROVE RowStep
  BY <1>5, <1>0 DEF Create
<1>6. ASSUME NEW i \in Incarnations, InsertRow(i) PROVE RowStep
  <2>1. row' = Upsert("running", i) /\ Works(i)
    BY <1>6 DEF InsertRow, Works
  <2> QED
    BY <1>0, <2>1, UpsertWrites
<1>7. ASSUME NEW i \in Incarnations, TerminalEnds(i) PROVE RowStep
  BY <1>7, <1>0 DEF TerminalEnds, FinalizerStarts
<1>8. ASSUME NEW i \in Incarnations, ClientDetaches(i) PROVE RowStep
  BY <1>8, <1>0 DEF ClientDetaches, FinalizerStarts
<1>9. ASSUME NEW i \in Incarnations, FileEnd(i) PROVE RowStep
  <2> DEFINE new == SetStatus("ended", "own", TRUE)
  <2>1. row' = row \/ row' = new
    BY <1>9 DEF FileEnd
  <2>2. "own" \in Reasons
    BY DEF Reasons
  <2>3. WellFormed(new) /\ new.owner = row.owner
        /\ (row.status # "absent" => new.status = "ended")
    BY <1>0, <2>2, SetStatusWrites
  <2> HIDE DEF new
  <2> QED
    BY <1>0, <2>1, <2>3
<1>10. ASSUME NEW i \in Incarnations, FileMissingRow(i) PROVE RowStep
  <2>1. row' = Upsert("ended", i) /\ Works(i)
    BY <1>10 DEF FileMissingRow, Works
  <2> QED
    BY <1>0, <2>1, UpsertWrites
<1>11. ASSUME NEW i \in Incarnations, Forget(i) PROVE RowStep
  BY <1>11, <1>0 DEF Forget
<1>12. ASSUME NEW i \in Incarnations, Sweep(i) PROVE RowStep
  <2>1. row' = StopMissing(i)
    BY <1>12 DEF Sweep
  <2> QED
    BY <1>0, <2>1, StopMissingWrites
<1>13. ASSUME NEW i \in Incarnations, ListRows(i) PROVE RowStep
  BY <1>13, <1>0 DEF ListRows
<1>14. ASSUME NEW i \in Incarnations, ScanOrphans(i) PROVE RowStep
  BY <1>14, <1>0 DEF ScanOrphans, KillOrphan
<1>15. ASSUME NEW i \in Incarnations, Skip(i) PROVE RowStep
  BY <1>15, <1>0 DEF Skip, NextRound
<1>16. ASSUME NEW i \in Incarnations, Judge(i) PROVE RowStep
  BY <1>16, <1>0 DEF Judge
<1>17. ASSUME NEW i \in Incarnations, Probe(i) PROVE RowStep
  BY <1>17, <1>0 DEF Probe
<1>18. ASSUME NEW i \in Incarnations, Retire(i) PROVE RowStep
  <2> DEFINE crash == SetStatus("ended", "crash", FALSE)
             missing == SetStatus("ended", "missing", FALSE)
  <2>1. row' = crash \/ row' = missing
    BY <1>18 DEF Retire
  <2>2. "crash" \in Reasons /\ "missing" \in Reasons
    BY DEF Reasons
  <2>3. WellFormed(crash) /\ crash.owner = row.owner
        /\ (row.status # "absent" => crash.status = "ended")
    BY <1>0, <2>2, SetStatusWrites
  <2>4. WellFormed(missing) /\ missing.owner = row.owner
        /\ (row.status # "absent" => missing.status = "ended")
    BY <1>0, <2>2, SetStatusWrites
  <2> HIDE DEF crash, missing
  <2> QED
    BY <2>1, <2>3, <2>4
<1>19. ASSUME NEW i \in Incarnations, Adopt(i) PROVE RowStep
  BY <1>19, <1>0 DEF Adopt
<1>20. ASSUME NEW i \in Incarnations, TakeOwnership(i) PROVE RowStep
  <2>1. Claims(i) /\ Works(i) /\ row' = [row EXCEPT !.owner = i]
    BY <1>20 DEF TakeOwnership, Claims, Works
  <2>2. row.status # "absent"
    BY <2>1, ClaimedRowExists
  <2> QED
    BY <1>0, <2>1, <2>2, OwnershipWrites
<1>21. ASSUME NEW i \in Incarnations, MarkAdopted(i) PROVE RowStep
  <2> DEFINE new == SetStatus("running", "adopted", FALSE)
  <2>1. row' = new
    BY <1>21 DEF MarkAdopted
  <2>2. "adopted" \in Reasons
    BY DEF Reasons
  <2>3. WellFormed(new) /\ new.owner = row.owner
        /\ (row.status # "absent" => new.status = "running")
    BY <1>0, <2>2, SetStatusWrites
  <2> HIDE DEF new
  <2> QED
    BY <2>1, <2>3
<1>22. CASE ShellExits
  BY <1>22, <1>0 DEF ShellExits
<1>23. CASE UNCHANGED vars
  BY <1>23, <1>0 DEF vars
<1> QED
  BY <1>1, <1>2, <1>3, <1>4, <1>5, <1>6, <1>7, <1>8, <1>9, <1>10, <1>11, <1>12,
     <1>13, <1>14, <1>15, <1>16, <1>17, <1>18, <1>19, <1>20, <1>21, <1>22, <1>23
     DEF Next, Finalize, Reconcile

\* What a step does to what a process has read: nothing, or the reconciliation
\* reads the row, or is over.
SeenStep ==
  /\ seen' \in [Incarnations -> Rows]
  /\ \A k \in Incarnations :
       \/ seen'[k] = seen[k]
       \/ seen'[k] = NoRow /\ pc'[k] \in {"off", "sweeping"}
       \/ seen'[k] = row /\ pc'[k] = "scanning" /\ phase[k] # "down" /\ row' = row
LEMMA SeenKept ==
  ASSUME Plain, Records, seen \in [Incarnations -> Rows], Leased, [Next]_vars
  PROVE  SeenStep
<1>0. WellFormed(row) /\ WellFormed(NoRow)
  BY RowBounds DEF Records, WellFormed, NoRow, Rows, Statuses, Reasons
<1> USE DEF SeenStep, Plain, WellFormed
<1>1. ASSUME NEW i \in Incarnations, Boot(i) PROVE SeenStep
  BY <1>1, <1>0 DEF Boot
<1>2. ASSUME NEW i \in Incarnations, Crash(i) PROVE SeenStep
  BY <1>2, <1>0 DEF Crash
<1>3. ASSUME NEW i \in Incarnations, NEW preserve \in BOOLEAN, Shutdown(i, preserve)
      PROVE  SeenStep
  BY <1>3, <1>0 DEF Shutdown, InStore
<1>4. ASSUME NEW i \in Incarnations, ShutdownDone(i) PROVE SeenStep
  BY <1>4, <1>0 DEF ShutdownDone
<1>5. ASSUME NEW i \in Incarnations, Create(i) PROVE SeenStep
  BY <1>5, <1>0 DEF Create
<1>6. ASSUME NEW i \in Incarnations, InsertRow(i) PROVE SeenStep
  BY <1>6, <1>0 DEF InsertRow
<1>7. ASSUME NEW i \in Incarnations, TerminalEnds(i) PROVE SeenStep
  BY <1>7, <1>0 DEF TerminalEnds, FinalizerStarts
<1>8. ASSUME NEW i \in Incarnations, ClientDetaches(i) PROVE SeenStep
  BY <1>8, <1>0 DEF ClientDetaches, FinalizerStarts
<1>9. ASSUME NEW i \in Incarnations, FileEnd(i) PROVE SeenStep
  BY <1>9, <1>0 DEF FileEnd
<1>10. ASSUME NEW i \in Incarnations, FileMissingRow(i) PROVE SeenStep
  BY <1>10, <1>0 DEF FileMissingRow
<1>11. ASSUME NEW i \in Incarnations, Forget(i) PROVE SeenStep
  BY <1>11, <1>0 DEF Forget
<1>12. ASSUME NEW i \in Incarnations, Sweep(i) PROVE SeenStep
  BY <1>12, <1>0 DEF Sweep
<1>13. ASSUME NEW i \in Incarnations, ListRows(i) PROVE SeenStep
  BY <1>13, <1>0 DEF ListRows, Leased, Alive
<1>14. ASSUME NEW i \in Incarnations, ScanOrphans(i) PROVE SeenStep
  BY <1>14, <1>0 DEF ScanOrphans, KillOrphan
<1>15. ASSUME NEW i \in Incarnations, Skip(i) PROVE SeenStep
  BY <1>15, <1>0 DEF Skip, NextRound
<1>16. ASSUME NEW i \in Incarnations, Judge(i) PROVE SeenStep
  BY <1>16, <1>0 DEF Judge
<1>17. ASSUME NEW i \in Incarnations, Probe(i) PROVE SeenStep
  BY <1>17, <1>0 DEF Probe
<1>18. ASSUME NEW i \in Incarnations, Retire(i) PROVE SeenStep
  BY <1>18, <1>0 DEF Retire, NextRound
<1>19. ASSUME NEW i \in Incarnations, Adopt(i) PROVE SeenStep
  BY <1>19, <1>0 DEF Adopt
<1>20. ASSUME NEW i \in Incarnations, TakeOwnership(i) PROVE SeenStep
  BY <1>20, <1>0 DEF TakeOwnership
<1>21. ASSUME NEW i \in Incarnations, MarkAdopted(i) PROVE SeenStep
  BY <1>21, <1>0 DEF MarkAdopted, NextRound
<1>22. CASE ShellExits
  BY <1>22, <1>0 DEF ShellExits
<1>23. CASE UNCHANGED vars
  BY <1>23, <1>0 DEF vars
<1> QED
  BY <1>1, <1>2, <1>3, <1>4, <1>5, <1>6, <1>7, <1>8, <1>9, <1>10, <1>11, <1>12,
     <1>13, <1>14, <1>15, <1>16, <1>17, <1>18, <1>19, <1>20, <1>21, <1>22, <1>23
     DEF Next, Finalize, Reconcile

LEMMA RecordsKept ==
  ASSUME Records, RowStep, SeenStep
  PROVE  Records'
<1>1. WellFormed(NoRow)
  BY RowBounds DEF WellFormed, NoRow, Rows, Statuses, Reasons
<1>2. NoRow.status = "absent"
  BY DEF NoRow
<1>3. ASSUME NEW k \in Incarnations
      PROVE  WellFormed(seen'[k]) /\ (row'.status = "absent" => seen'[k].status = "absent")
  BY <1>1, <1>2 DEF Records, RowStep, SeenStep
<1>4. WellFormed(row)' /\ \A k \in Incarnations : WellFormed(seen[k])'
  BY <1>3 DEF RowStep, WellFormed
<1> QED
  BY <1>3, <1>4 DEF Records

-----------------------------------------------------------------------------
(* Processes.                                                              *)

LEMMA LeasedKept == ASSUME Plain, Leased, [Next]_vars PROVE Leased'
<1> USE DEF Plain, Leased, Alive
<1>1. ASSUME NEW i \in Incarnations, Boot(i) PROVE Leased'
  BY <1>1 DEF Boot
<1>2. ASSUME NEW i \in Incarnations, Crash(i) PROVE Leased'
  BY <1>2 DEF Crash
<1>3. ASSUME NEW i \in Incarnations, NEW preserve \in BOOLEAN, Shutdown(i, preserve)
      PROVE  Leased'
  BY <1>3 DEF Shutdown, InStore
<1>4. ASSUME NEW i \in Incarnations, ShutdownDone(i) PROVE Leased'
  BY <1>4 DEF ShutdownDone
<1>5. ASSUME NEW i \in Incarnations, Create(i) PROVE Leased'
  BY <1>5 DEF Create
<1>6. ASSUME NEW i \in Incarnations, InsertRow(i) PROVE Leased'
  BY <1>6 DEF InsertRow
<1>7. ASSUME NEW i \in Incarnations, TerminalEnds(i) PROVE Leased'
  BY <1>7 DEF TerminalEnds, FinalizerStarts
<1>8. ASSUME NEW i \in Incarnations, ClientDetaches(i) PROVE Leased'
  BY <1>8 DEF ClientDetaches, FinalizerStarts
<1>9. ASSUME NEW i \in Incarnations, FileEnd(i) PROVE Leased'
  BY <1>9 DEF FileEnd
<1>10. ASSUME NEW i \in Incarnations, FileMissingRow(i) PROVE Leased'
  BY <1>10 DEF FileMissingRow
<1>11. ASSUME NEW i \in Incarnations, Forget(i) PROVE Leased'
  BY <1>11 DEF Forget
<1>12. ASSUME NEW i \in Incarnations, Sweep(i) PROVE Leased'
  BY <1>12 DEF Sweep
<1>13. ASSUME NEW i \in Incarnations, ListRows(i) PROVE Leased'
  BY <1>13 DEF ListRows
<1>14. ASSUME NEW i \in Incarnations, ScanOrphans(i) PROVE Leased'
  BY <1>14 DEF ScanOrphans, KillOrphan
<1>15. ASSUME NEW i \in Incarnations, Skip(i) PROVE Leased'
  BY <1>15 DEF Skip, NextRound
<1>16. ASSUME NEW i \in Incarnations, Judge(i) PROVE Leased'
  BY <1>16 DEF Judge
<1>17. ASSUME NEW i \in Incarnations, Probe(i) PROVE Leased'
  BY <1>17 DEF Probe
<1>18. ASSUME NEW i \in Incarnations, Retire(i) PROVE Leased'
  BY <1>18 DEF Retire, NextRound
<1>19. ASSUME NEW i \in Incarnations, Adopt(i) PROVE Leased'
  BY <1>19 DEF Adopt
<1>20. ASSUME NEW i \in Incarnations, TakeOwnership(i) PROVE Leased'
  BY <1>20 DEF TakeOwnership
<1>21. ASSUME NEW i \in Incarnations, MarkAdopted(i) PROVE Leased'
  BY <1>21 DEF MarkAdopted, NextRound
<1>22. CASE ShellExits
  BY <1>22 DEF ShellExits
<1>23. CASE UNCHANGED vars
  BY <1>23 DEF vars
<1> QED
  BY <1>1, <1>2, <1>3, <1>4, <1>5, <1>6, <1>7, <1>8, <1>9, <1>10, <1>11, <1>12,
     <1>13, <1>14, <1>15, <1>16, <1>17, <1>18, <1>19, <1>20, <1>21, <1>22, <1>23
     DEF Next, Finalize, Reconcile

\* A process that was started was started, and one that is down stays down.
PhaseStep ==
  \A k \in Incarnations :
    /\ phase[k] # "unborn" => phase'[k] # "unborn"
    /\ phase[k] = "down" => phase'[k] = "down"

LEMMA PhaseKept == ASSUME Plain, Leased, [Next]_vars PROVE PhaseStep
<1> USE DEF Plain, PhaseStep, Leased, Alive
<1>1. ASSUME NEW i \in Incarnations, Boot(i) PROVE PhaseStep
  BY <1>1 DEF Boot
<1>2. ASSUME NEW i \in Incarnations, Crash(i) PROVE PhaseStep
  BY <1>2 DEF Crash
<1>3. ASSUME NEW i \in Incarnations, NEW preserve \in BOOLEAN, Shutdown(i, preserve)
      PROVE  PhaseStep
  BY <1>3 DEF Shutdown, InStore
<1>4. ASSUME NEW i \in Incarnations, ShutdownDone(i) PROVE PhaseStep
  BY <1>4 DEF ShutdownDone
<1>5. ASSUME NEW i \in Incarnations, Create(i) PROVE PhaseStep
  BY <1>5 DEF Create
<1>6. ASSUME NEW i \in Incarnations, InsertRow(i) PROVE PhaseStep
  BY <1>6 DEF InsertRow
<1>7. ASSUME NEW i \in Incarnations, TerminalEnds(i) PROVE PhaseStep
  BY <1>7 DEF TerminalEnds, FinalizerStarts
<1>8. ASSUME NEW i \in Incarnations, ClientDetaches(i) PROVE PhaseStep
  BY <1>8 DEF ClientDetaches, FinalizerStarts
<1>9. ASSUME NEW i \in Incarnations, FileEnd(i) PROVE PhaseStep
  BY <1>9 DEF FileEnd
<1>10. ASSUME NEW i \in Incarnations, FileMissingRow(i) PROVE PhaseStep
  BY <1>10 DEF FileMissingRow
<1>11. ASSUME NEW i \in Incarnations, Forget(i) PROVE PhaseStep
  BY <1>11 DEF Forget
<1>12. ASSUME NEW i \in Incarnations, Sweep(i) PROVE PhaseStep
  BY <1>12 DEF Sweep
<1>13. ASSUME NEW i \in Incarnations, ListRows(i) PROVE PhaseStep
  BY <1>13 DEF ListRows
<1>14. ASSUME NEW i \in Incarnations, ScanOrphans(i) PROVE PhaseStep
  BY <1>14 DEF ScanOrphans, KillOrphan
<1>15. ASSUME NEW i \in Incarnations, Skip(i) PROVE PhaseStep
  BY <1>15 DEF Skip, NextRound
<1>16. ASSUME NEW i \in Incarnations, Judge(i) PROVE PhaseStep
  BY <1>16 DEF Judge
<1>17. ASSUME NEW i \in Incarnations, Probe(i) PROVE PhaseStep
  BY <1>17 DEF Probe
<1>18. ASSUME NEW i \in Incarnations, Retire(i) PROVE PhaseStep
  BY <1>18 DEF Retire, NextRound
<1>19. ASSUME NEW i \in Incarnations, Adopt(i) PROVE PhaseStep
  BY <1>19 DEF Adopt
<1>20. ASSUME NEW i \in Incarnations, TakeOwnership(i) PROVE PhaseStep
  BY <1>20 DEF TakeOwnership
<1>21. ASSUME NEW i \in Incarnations, MarkAdopted(i) PROVE PhaseStep
  BY <1>21 DEF MarkAdopted, NextRound
<1>22. CASE ShellExits
  BY <1>22 DEF ShellExits
<1>23. CASE UNCHANGED vars
  BY <1>23 DEF vars
<1> QED
  BY <1>1, <1>2, <1>3, <1>4, <1>5, <1>6, <1>7, <1>8, <1>9, <1>10, <1>11, <1>12,
     <1>13, <1>14, <1>15, <1>16, <1>17, <1>18, <1>19, <1>20, <1>21, <1>22, <1>23
     DEF Next, Finalize, Reconcile

\* A claim is kept, or comes of a row that was judged to be nobody's.
ClaimStep ==
  \A k \in Incarnations : Claims(k)' =>
    /\ seen'[k] = seen[k]
    /\ \/ Claims(k) /\ (pc[k] = "retireCrash" => pc'[k] = "retireCrash")
       \/ ~NotOurs(k) /\ (backend = "local" => pc'[k] = "retireCrash")

LEMMA ClaimKept == ASSUME Plain, seen \in [Incarnations -> Rows], [Next]_vars PROVE ClaimStep
<1> USE DEF Plain, ClaimStep, Claims
<1>1. ASSUME NEW i \in Incarnations, Boot(i) PROVE ClaimStep
  BY <1>1 DEF Boot
<1>2. ASSUME NEW i \in Incarnations, Crash(i) PROVE ClaimStep
  BY <1>2 DEF Crash
<1>3. ASSUME NEW i \in Incarnations, NEW preserve \in BOOLEAN, Shutdown(i, preserve)
      PROVE  ClaimStep
  BY <1>3 DEF Shutdown, InStore
<1>4. ASSUME NEW i \in Incarnations, ShutdownDone(i) PROVE ClaimStep
  BY <1>4 DEF ShutdownDone
<1>5. ASSUME NEW i \in Incarnations, Create(i) PROVE ClaimStep
  BY <1>5 DEF Create
<1>6. ASSUME NEW i \in Incarnations, InsertRow(i) PROVE ClaimStep
  BY <1>6 DEF InsertRow
<1>7. ASSUME NEW i \in Incarnations, TerminalEnds(i) PROVE ClaimStep
  BY <1>7 DEF TerminalEnds, FinalizerStarts
<1>8. ASSUME NEW i \in Incarnations, ClientDetaches(i) PROVE ClaimStep
  BY <1>8 DEF ClientDetaches, FinalizerStarts
<1>9. ASSUME NEW i \in Incarnations, FileEnd(i) PROVE ClaimStep
  BY <1>9 DEF FileEnd
<1>10. ASSUME NEW i \in Incarnations, FileMissingRow(i) PROVE ClaimStep
  BY <1>10 DEF FileMissingRow
<1>11. ASSUME NEW i \in Incarnations, Forget(i) PROVE ClaimStep
  BY <1>11 DEF Forget
<1>12. ASSUME NEW i \in Incarnations, Sweep(i) PROVE ClaimStep
  BY <1>12 DEF Sweep
<1>13. ASSUME NEW i \in Incarnations, ListRows(i) PROVE ClaimStep
  BY <1>13 DEF ListRows
<1>14. ASSUME NEW i \in Incarnations, ScanOrphans(i) PROVE ClaimStep
  BY <1>14 DEF ScanOrphans, KillOrphan
<1>15. ASSUME NEW i \in Incarnations, Skip(i) PROVE ClaimStep
  BY <1>15 DEF Skip, NextRound
<1>16. ASSUME NEW i \in Incarnations, Judge(i) PROVE ClaimStep
  BY <1>16 DEF Judge, NotOurs
<1>17. ASSUME NEW i \in Incarnations, Probe(i) PROVE ClaimStep
  BY <1>17 DEF Probe
<1>18. ASSUME NEW i \in Incarnations, Retire(i) PROVE ClaimStep
  BY <1>18 DEF Retire, NextRound
<1>19. ASSUME NEW i \in Incarnations, Adopt(i) PROVE ClaimStep
  BY <1>19 DEF Adopt
<1>20. ASSUME NEW i \in Incarnations, TakeOwnership(i) PROVE ClaimStep
  BY <1>20 DEF TakeOwnership
<1>21. ASSUME NEW i \in Incarnations, MarkAdopted(i) PROVE ClaimStep
  BY <1>21 DEF MarkAdopted, NextRound
<1>22. CASE ShellExits
  BY <1>22 DEF ShellExits
<1>23. CASE UNCHANGED vars
  BY <1>23 DEF vars
<1> QED
  BY <1>1, <1>2, <1>3, <1>4, <1>5, <1>6, <1>7, <1>8, <1>9, <1>10, <1>11, <1>12,
     <1>13, <1>14, <1>15, <1>16, <1>17, <1>18, <1>19, <1>20, <1>21, <1>22, <1>23
     DEF Next, Finalize, Reconcile

LEMMA BornKept ==
  ASSUME Plain, Records, Leased, Born, RowStep, SeenStep, PhaseStep, ClaimStep
  PROVE  Born'
<1>1. row'.owner # NoOne => phase'[row'.owner] # "unborn"
  <2>1. ASSUME row'.owner = row.owner, row'.owner # NoOne
        PROVE  phase'[row'.owner] # "unborn"
    <3>1. row.owner \in Incarnations /\ phase[row.owner] # "unborn"
      BY <2>1 DEF Records, WellFormed, Rows, Born
    <3> QED
      BY <2>1, <3>1 DEF PhaseStep
  <2>2. ASSUME NEW i \in Incarnations, row'.owner = i, Works(i)
        PROVE  phase'[row'.owner] # "unborn"
    <3>1. Alive(i)
      BY <2>2 DEF Leased, Works
    <3> QED
      BY <2>2, <3>1 DEF PhaseStep, Alive
  <2> QED
    BY <2>1, <2>2 DEF RowStep
<1>2. ASSUME NEW k \in Incarnations, seen'[k].owner # NoOne
      PROVE  phase'[seen'[k].owner] # "unborn"
  <2>1. CASE seen'[k] = seen[k]
    <3>1. seen[k].owner \in Incarnations /\ phase[seen[k].owner] # "unborn"
      BY <1>2, <2>1 DEF Records, WellFormed, Rows, Born
    <3> QED
      BY <2>1, <3>1 DEF PhaseStep
  <2>2. CASE seen'[k] = row
    <3>1. row.owner \in Incarnations /\ phase[row.owner] # "unborn"
      BY <1>2, <2>2 DEF Records, WellFormed, Rows, Born
    <3> QED
      BY <2>2, <3>1 DEF PhaseStep
  <2>3. seen'[k] # NoRow
    BY <1>2 DEF NoRow
  <2> QED
    BY <2>1, <2>2, <2>3 DEF SeenStep
<1>3. ASSUME NEW k \in Incarnations, Claims(k)'
      PROVE  seen'[k].status = "running"
  BY <1>3 DEF ClaimStep, Born, NotOurs
<1> QED
  BY <1>1, <1>2, <1>3 DEF Born

\* Who claims has read the row of a process that is its own or down.
LEMMA OnlyTheDeadKept ==
  ASSUME Plain, Records, Leased, Born, OnlyTheDeadAreReplaced, PhaseStep, ClaimStep
  PROVE  OnlyTheDeadAreReplaced'
<1> SUFFICES ASSUME NEW k \in Incarnations, Claims(k)'
             PROVE  seen'[k].owner = k \/ phase'[seen'[k].owner] = "down"
  BY DEF OnlyTheDeadAreReplaced
<1>1. seen'[k] = seen[k]
  BY DEF ClaimStep
<1>2. seen[k].status = "running"
  BY DEF ClaimStep, Born, NotOurs
<1>3. seen[k].owner \in Incarnations
  BY <1>2 DEF Records, WellFormed, Rows
<1>4. CASE Claims(k)
  BY <1>1, <1>3, <1>4 DEF OnlyTheDeadAreReplaced, PhaseStep
<1>5. CASE ~NotOurs(k) /\ seen[k].owner # k
  <2>1. seen[k].owner \notin lease
    BY <1>5 DEF NotOurs
  <2>2. phase[seen[k].owner] = "down"
    <3>1. ~Alive(seen[k].owner)
      BY <1>3, <2>1 DEF Leased
    <3>2. phase[seen[k].owner] # "unborn"
      BY <1>3, RowBounds DEF Born
    <3> QED
      BY <1>3, <3>1, <3>2 DEF Alive, Plain
  <2> QED
    BY <1>1, <1>3, <2>2 DEF PhaseStep
<1> QED
  BY <1>1, <1>4, <1>5 DEF ClaimStep

-----------------------------------------------------------------------------
(* A local session.                                                        *)

At(k) == held[k] # "none" \/ creator[k] = "inserting"

\* Only the creation brings a process to a local session, the first and only one.
ArrivalStep ==
  /\ shell' = "none" => shell = "none"
  /\ \A k \in Incarnations : At(k)' /\ ~At(k) =>
       /\ shell = "none" /\ shell' = "running"
       /\ row' = row /\ seen' = seen /\ pc' = pc
       /\ \A j \in Incarnations \ {k} : At(j)' => At(j)
  /\ \A k \in Incarnations :
       /\ held'[k] # "none" /\ held[k] = "none" => shell = "none" /\ shell' = "running"
       /\ held'[k] = "live" => held[k] = "live" \/ shell = "none"
  /\ shell' = "running" => shell \in {"running", "none"}
  /\ shell = "none" /\ shell' # "none" => row' = row

LEMMA ArrivalKept ==
  ASSUME Plain, backend = "local", OneProcess, [Next]_vars
  PROVE  ArrivalStep
<1>0. \A k \in Incarnations : pc[k] # "adopting"
  BY DEF OneProcess, Claims
<1> USE DEF Plain, ArrivalStep, At
<1>1. ASSUME NEW i \in Incarnations, Boot(i) PROVE ArrivalStep
  BY <1>1, <1>0 DEF Boot
<1>2. ASSUME NEW i \in Incarnations, Crash(i) PROVE ArrivalStep
  BY <1>2, <1>0 DEF Crash
<1>3. ASSUME NEW i \in Incarnations, NEW preserve \in BOOLEAN, Shutdown(i, preserve)
      PROVE  ArrivalStep
  BY <1>3, <1>0 DEF Shutdown, InStore
<1>4. ASSUME NEW i \in Incarnations, ShutdownDone(i) PROVE ArrivalStep
  BY <1>4, <1>0 DEF ShutdownDone
<1>5. ASSUME NEW i \in Incarnations, Create(i) PROVE ArrivalStep
  BY <1>5, <1>0 DEF Create
<1>6. ASSUME NEW i \in Incarnations, InsertRow(i) PROVE ArrivalStep
  BY <1>6, <1>0 DEF InsertRow
<1>7. ASSUME NEW i \in Incarnations, TerminalEnds(i) PROVE ArrivalStep
  BY <1>7, <1>0 DEF TerminalEnds, FinalizerStarts
<1>8. ASSUME NEW i \in Incarnations, ClientDetaches(i) PROVE ArrivalStep
  BY <1>8, <1>0 DEF ClientDetaches, FinalizerStarts
<1>9. ASSUME NEW i \in Incarnations, FileEnd(i) PROVE ArrivalStep
  BY <1>9, <1>0 DEF FileEnd
<1>10. ASSUME NEW i \in Incarnations, FileMissingRow(i) PROVE ArrivalStep
  BY <1>10, <1>0 DEF FileMissingRow
<1>11. ASSUME NEW i \in Incarnations, Forget(i) PROVE ArrivalStep
  BY <1>11, <1>0 DEF Forget
<1>12. ASSUME NEW i \in Incarnations, Sweep(i) PROVE ArrivalStep
  BY <1>12, <1>0 DEF Sweep
<1>13. ASSUME NEW i \in Incarnations, ListRows(i) PROVE ArrivalStep
  BY <1>13, <1>0 DEF ListRows
<1>14. ASSUME NEW i \in Incarnations, ScanOrphans(i) PROVE ArrivalStep
  BY <1>14, <1>0 DEF ScanOrphans, KillOrphan
<1>15. ASSUME NEW i \in Incarnations, Skip(i) PROVE ArrivalStep
  BY <1>15, <1>0 DEF Skip, NextRound
<1>16. ASSUME NEW i \in Incarnations, Judge(i) PROVE ArrivalStep
  BY <1>16, <1>0 DEF Judge
<1>17. ASSUME NEW i \in Incarnations, Probe(i) PROVE ArrivalStep
  BY <1>17, <1>0 DEF Probe
<1>18. ASSUME NEW i \in Incarnations, Retire(i) PROVE ArrivalStep
  BY <1>18, <1>0 DEF Retire, NextRound
<1>19. ASSUME NEW i \in Incarnations, Adopt(i) PROVE ArrivalStep
  BY <1>19, <1>0 DEF Adopt
<1>20. ASSUME NEW i \in Incarnations, TakeOwnership(i) PROVE ArrivalStep
  BY <1>20, <1>0 DEF TakeOwnership
<1>21. ASSUME NEW i \in Incarnations, MarkAdopted(i) PROVE ArrivalStep
  BY <1>21, <1>0 DEF MarkAdopted, NextRound
<1>22. CASE ShellExits
  BY <1>22, <1>0 DEF ShellExits
<1>23. CASE UNCHANGED vars
  BY <1>23, <1>0 DEF vars
<1> QED
  BY <1>1, <1>2, <1>3, <1>4, <1>5, <1>6, <1>7, <1>8, <1>9, <1>10, <1>11, <1>12,
     <1>13, <1>14, <1>15, <1>16, <1>17, <1>18, <1>19, <1>20, <1>21, <1>22, <1>23
     DEF Next, Finalize, Reconcile

\* Whoever read a row that exists had to do with a process that is involved.
LEMMA ReadMeansInvolved ==
  ASSUME Records, NEW k \in Incarnations, seen[k].status = "running"
  PROVE  seen[k].owner \in Incarnations /\ Involved(seen[k].owner)
  BY DEF Records, WellFormed, Rows, Involved

LEMMA InvolvedStep ==
  ASSUME backend = "local", Records, OneProcess, RowStep, SeenStep,
         NEW j \in Incarnations, Involved(j)'
  PROVE  Involved(j) \/ (At(j)' /\ ~At(j))
<1>1. CASE At(j)'
  BY <1>1 DEF Involved, At
<1>2. CASE row'.owner = j
  <2>1. ASSUME NEW i \in Incarnations, row'.owner = i, Works(i)
        PROVE  Involved(j)
    BY <1>2, <2>1 DEF Works, Involved, OneProcess, Claims
  <2> QED
    BY <1>2, <2>1 DEF RowStep, Involved
<1>3. ASSUME NEW k \in Incarnations, seen'[k].owner = j
      PROVE  Involved(j)
  <2>1. seen'[k] # NoRow
    BY <1>3, RowBounds DEF NoRow
  <2> QED
    BY <1>3, <2>1 DEF SeenStep, Involved
<1> QED
  BY <1>1, <1>2, <1>3 DEF Involved, At

LEMMA OneProcessKept ==
  ASSUME Plain, Records, Born, OneProcess, RowStep, SeenStep, ClaimStep,
         backend' = backend, [Next]_vars
  PROVE  OneProcess'
<1> SUFFICES ASSUME backend = "local" PROVE OneProcess'
  BY DEF OneProcess
<1>1. ArrivalStep
  BY ArrivalKept
<1>2. /\ \A i, j \in Incarnations : Involved(i) /\ Involved(j) => i = j
      /\ shell = "none" => \A i \in Incarnations : ~Involved(i)
      /\ \A i \in Incarnations :
           Claims(i) => pc[i] = "retireCrash" /\ held[i] = "none"
  BY DEF OneProcess
<1>3. ASSUME NEW i \in Incarnations, NEW j \in Incarnations, Involved(i)', Involved(j)'
      PROVE  i = j
  <2>1. CASE Involved(i) /\ Involved(j)
    BY <1>2, <2>1
  <2>2. ASSUME NEW k \in Incarnations, At(k)', ~At(k)
        PROVE  i = k /\ j = k
    <3>1. \A x \in Incarnations : ~Involved(x)
      BY <1>1, <1>2, <2>2 DEF ArrivalStep
    <3>2. At(i)' /\ ~At(i) /\ At(j)' /\ ~At(j)
      BY <1>3, <3>1, InvolvedStep
    <3> QED
      BY <1>1, <2>2, <3>2 DEF ArrivalStep
  <2> QED
    BY <1>3, <2>1, <2>2, InvolvedStep
<1>4. ASSUME shell' = "none", NEW i \in Incarnations
      PROVE  ~Involved(i)'
  BY <1>1, <1>2, <1>4, InvolvedStep DEF ArrivalStep
<1>5. ASSUME NEW i \in Incarnations, Claims(i)'
      PROVE  pc'[i] = "retireCrash" /\ held'[i] = "none"
  <2>1. pc'[i] = "retireCrash" /\ held[i] = "none"
    BY <1>2, <1>5 DEF ClaimStep, NotOurs
  <2>2. seen[i].status = "running"
    BY <1>5 DEF ClaimStep, Born, NotOurs
  <2>3. shell # "none"
    BY <1>2, <2>2, ReadMeansInvolved
  <2> QED
    BY <1>1, <2>1, <2>3 DEF ArrivalStep
<1> QED
  BY <1>3, <1>4, <1>5 DEF OneProcess

\* Who ends a row: a finalizer, the sweep of its owner, or who retires it.
EndStep ==
  row'.status = "ended" /\ row.status # "ended" =>
    \E j \in Incarnations :
      \/ held[j] \in {"closing", "upserting"} /\ held'[j] = "filed"
      \/ row.owner = j /\ held[j] = "none" /\ held' = held
      \/ Claims(j) /\ held' = held

LEMMA EndKept == ASSUME Plain, Records, [Next]_vars PROVE EndStep
<1>0. WellFormed(row)
  BY DEF Records
<1> USE DEF Plain, EndStep
<1>1. ASSUME NEW i \in Incarnations, Boot(i) PROVE EndStep
  BY <1>1 DEF Boot
<1>2. ASSUME NEW i \in Incarnations, Crash(i) PROVE EndStep
  BY <1>2 DEF Crash
<1>3. ASSUME NEW i \in Incarnations, NEW preserve \in BOOLEAN, Shutdown(i, preserve)
      PROVE  EndStep
  BY <1>3 DEF Shutdown, InStore
<1>4. ASSUME NEW i \in Incarnations, ShutdownDone(i) PROVE EndStep
  BY <1>4 DEF ShutdownDone
<1>5. ASSUME NEW i \in Incarnations, Create(i) PROVE EndStep
  BY <1>5 DEF Create
<1>6. ASSUME NEW i \in Incarnations, InsertRow(i) PROVE EndStep
  <2>1. row' = Upsert("running", i)
    BY <1>6 DEF InsertRow
  <2>2. row.status # "ended" => Upsert("running", i).status = "running"
    BY <1>0, UpsertWrites
  <2> QED
    BY <2>1, <2>2
<1>7. ASSUME NEW i \in Incarnations, TerminalEnds(i) PROVE EndStep
  BY <1>7 DEF TerminalEnds, FinalizerStarts
<1>8. ASSUME NEW i \in Incarnations, ClientDetaches(i) PROVE EndStep
  BY <1>8 DEF ClientDetaches, FinalizerStarts
<1>9. ASSUME NEW i \in Incarnations, FileEnd(i) PROVE EndStep
  BY <1>9 DEF FileEnd, SetStatus
<1>10. ASSUME NEW i \in Incarnations, FileMissingRow(i) PROVE EndStep
  BY <1>10 DEF FileMissingRow
<1>11. ASSUME NEW i \in Incarnations, Forget(i) PROVE EndStep
  BY <1>11 DEF Forget
<1>12. ASSUME NEW i \in Incarnations, Sweep(i) PROVE EndStep
  <2>1. row' = StopMissing(i) /\ held' = held
    BY <1>12 DEF Sweep
  <2>2. StopMissing(i) # row => row.owner = i /\ held[i] = "none"
    BY <1>0, StopMissingWrites
  <2> QED
    BY <2>1, <2>2
<1>13. ASSUME NEW i \in Incarnations, ListRows(i) PROVE EndStep
  BY <1>13 DEF ListRows
<1>14. ASSUME NEW i \in Incarnations, ScanOrphans(i) PROVE EndStep
  BY <1>14 DEF ScanOrphans, KillOrphan
<1>15. ASSUME NEW i \in Incarnations, Skip(i) PROVE EndStep
  BY <1>15 DEF Skip, NextRound
<1>16. ASSUME NEW i \in Incarnations, Judge(i) PROVE EndStep
  BY <1>16 DEF Judge
<1>17. ASSUME NEW i \in Incarnations, Probe(i) PROVE EndStep
  BY <1>17 DEF Probe
<1>18. ASSUME NEW i \in Incarnations, Retire(i) PROVE EndStep
  BY <1>18 DEF Retire, NextRound, Claims
<1>19. ASSUME NEW i \in Incarnations, Adopt(i) PROVE EndStep
  BY <1>19 DEF Adopt
<1>20. ASSUME NEW i \in Incarnations, TakeOwnership(i) PROVE EndStep
  <2>1. row' = [row EXCEPT !.owner = i]
    BY <1>20 DEF TakeOwnership
  <2> QED
    BY <1>0, <2>1 DEF WellFormed, Rows
<1>21. ASSUME NEW i \in Incarnations, MarkAdopted(i) PROVE EndStep
  <2>1. row' = SetStatus("running", "adopted", FALSE)
    BY <1>21 DEF MarkAdopted
  <2> QED
    BY <1>0, <2>1 DEF SetStatus, WellFormed, Rows
<1>22. CASE ShellExits
  BY <1>22 DEF ShellExits
<1>23. CASE UNCHANGED vars
  BY <1>23 DEF vars
<1> QED
  BY <1>1, <1>2, <1>3, <1>4, <1>5, <1>6, <1>7, <1>8, <1>9, <1>10, <1>11, <1>12,
     <1>13, <1>14, <1>15, <1>16, <1>17, <1>18, <1>19, <1>20, <1>21, <1>22, <1>23
     DEF Next, Finalize, Reconcile

\* In a step that ends the row of a local session that some process is at, it
\* is that process that goes on with its finalizer.
LEMMA HolderEnds ==
  ASSUME Plain, Records, Leased, Born, OneProcess, OnlyTheDeadAreReplaced, EndStep,
         backend = "local", row'.status = "ended", row.status # "ended",
         NEW i \in Incarnations, held[i] # "none"
  PROVE  held[i] \in {"closing", "upserting"} /\ held'[i] = "filed"
<1>1. PICK j \in Incarnations :
        \/ held[j] \in {"closing", "upserting"} /\ held'[j] = "filed"
        \/ row.owner = j /\ held[j] = "none" /\ held' = held
        \/ Claims(j) /\ held' = held
  BY DEF EndStep
<1>2. Involved(i) /\ Alive(i)
  BY DEF Involved, Leased
<1>3. \A k \in Incarnations : Involved(k) => k = i
  BY <1>2 DEF OneProcess
<1>4. CASE held[j] \in {"closing", "upserting"} /\ held'[j] = "filed"
  BY <1>3, <1>4 DEF Involved
<1>5. ~(row.owner = j /\ held[j] = "none")
  BY <1>3 DEF Involved
<1>6. ASSUME Claims(j) PROVE FALSE
  <2>1. seen[j].owner = i
    BY <1>3, <1>6, ReadMeansInvolved DEF Born
  <2>2. held[j] = "none"
    BY <1>6 DEF OneProcess
  <2> QED
    BY <1>2, <1>6, <2>1, <2>2 DEF OnlyTheDeadAreReplaced, Alive
<1> QED
  BY <1>1, <1>4, <1>5, <1>6

LEMMA LocalKept ==
  ASSUME Plain, Records, Leased, Born, OneProcess, OnlyTheDeadAreReplaced,
         LocalSessionNotFiledEnded, EndStep, RowStep, backend' = backend, [Next]_vars
  PROVE  LocalSessionNotFiledEnded'
<1> SUFFICES ASSUME backend = "local", shell' = "running",
                    NEW i \in Incarnations, held'[i] = "live", row'.status = "ended"
             PROVE  FALSE
  BY DEF LocalSessionNotFiledEnded
<1>1. ArrivalStep
  BY ArrivalKept
<1>2. CASE shell = "none"
  <2>1. row' = row
    BY <1>1, <1>2 DEF ArrivalStep
  <2>2. row.owner = NoOne
    BY <1>2 DEF OneProcess, Involved, Records, WellFormed, Rows
  <2> QED
    BY <2>1, <2>2 DEF Records, WellFormed, NoRow
<1>3. CASE shell = "running" /\ held[i] = "live"
  <2>1. row.status # "ended"
    BY <1>3 DEF LocalSessionNotFiledEnded
  <2> QED
    BY <1>3, <2>1, HolderEnds
<1> QED
  BY <1>1, <1>2, <1>3 DEF ArrivalStep

-----------------------------------------------------------------------------
(* The theorems.                                                           *)

Typed == seen \in [Incarnations -> Rows]

IInv ==
  /\ Plain /\ Typed /\ Records /\ Leased /\ Born /\ OneProcess
  /\ OnlyTheDeadAreReplaced /\ LocalSessionNotFiledEnded

LEMMA Starts == ASSUME Init PROVE IInv
<1> USE RowBounds DEF Init, NoRow, Rows, Statuses, Reasons
<1>1. Plain /\ Typed
  BY DEF Plain, Typed
<1>2. Records
  BY DEF Records, WellFormed
<1>3. Leased /\ Born /\ OneProcess
  BY DEF Leased, Alive, Born, Claims, OneProcess, Involved
<1>4. OnlyTheDeadAreReplaced /\ LocalSessionNotFiledEnded
  BY DEF OnlyTheDeadAreReplaced, Claims, LocalSessionNotFiledEnded
<1> QED
  BY <1>1, <1>2, <1>3, <1>4 DEF IInv

LEMMA SameBackend == ASSUME [Next]_vars PROVE backend' = backend
  BY DEF Next, vars, ShellExits, Boot, Crash, ShutdownDone, Shutdown, Create, InsertRow,
         TerminalEnds, ClientDetaches, FinalizerStarts, Finalize, FileEnd, FileMissingRow,
         Forget, Sweep, Reconcile, ListRows, ScanOrphans, Skip, Judge, Probe, Retire,
         Adopt, TakeOwnership, MarkAdopted

LEMMA Keeps == ASSUME IInv, [Next]_vars PROVE IInv' /\ EndStep
<1> USE DEF IInv
<1>1. RowStep /\ EndStep
  BY RowKept, EndKept
<1>2. SeenStep
  BY SeenKept DEF Typed
<1>3. PhaseStep /\ ClaimStep
  BY PhaseKept, ClaimKept DEF Typed
<1>4. Plain' /\ Typed' /\ Leased'
  BY <1>2, PlainKept, LeasedKept DEF Typed, SeenStep
<1>5. Records'
  BY <1>1, <1>2, RecordsKept
<1>6. Born' /\ OnlyTheDeadAreReplaced'
  BY <1>1, <1>2, <1>3, BornKept, OnlyTheDeadKept
<1>7. OneProcess' /\ LocalSessionNotFiledEnded'
  BY <1>1, <1>2, <1>3, SameBackend, OneProcessKept, LocalKept
<1> QED
  BY <1>1, <1>4, <1>5, <1>6, <1>7

\* The invariant the other theorems rest on.
THEOREM RowInvariant == Spec => []IInv
<1>1. IInv /\ [Next]_vars => IInv'
  BY Keeps
<1> QED
  BY <1>1, Starts, PTL DEF Spec

\* Every variable of the model keeps its type, for every set of processes.
THEOREM RowTypeCorrect == Spec => []TypeOK
<1>1. IInv => TypeOK
  BY DEF IInv, Plain, Typed, Records, WellFormed, TypeOK
<1> QED
  BY <1>1, RowInvariant, PTL

\* A reconciliation retires or adopts only what was its own process's or what
\* a process that is down left behind (maintenance.py, reconcile_instances).
THEOREM LivePeersLeftAlone == Spec => []OnlyTheDeadAreReplaced
<1>1. IInv => OnlyTheDeadAreReplaced
  BY DEF IInv
<1> QED
  BY <1>1, RowInvariant, PTL

\* The row of a local session that runs in some process does not say it ended.
THEOREM LiveRowNotEnded == Spec => []LocalSessionNotFiledEnded
<1>1. IInv => LocalSessionNotFiledEnded
  BY DEF IInv
<1> QED
  BY <1>1, RowInvariant, PTL

\* As long as a process is at a local session, only its finalizer files the
\* end (session.py, _on_session_close; store.py, term_session_stop_missing).
THEOREM HolderFilesTheEnd == Spec => OnlyTheHolderFiles
<1> DEFINE Step ==
      \A i \in Incarnations :
        backend = "local" /\ held[i] # "none"
        /\ row.status = "running" /\ row'.status = "ended"
          => held'[i] # held[i]
<1>1. IInv /\ [Next]_vars => Step
  BY Keeps, HolderEnds DEF IInv
<1>2. IInv /\ [Next]_vars => [Step]_vars
  BY <1>1
<1> QED
  BY <1>2, RowInvariant, PTL DEF Spec, OnlyTheHolderFiles
=============================================================================
