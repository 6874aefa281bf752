-------------------------- MODULE SessionActorProofs --------------------------
(***************************************************************************)
(* Theorems about SessionActor, for every set of viewers, every mailbox    *)
(* size and every number of chunks.  Shape says where calls come from and  *)
(* what the variables range over; the five properties are then proved one  *)
(* by one, each with the invariant that carries it.                        *)
(***************************************************************************)
EXTENDS SessionActor, FiniteSetTheorems, SequenceTheorems, TLAPS

MailShape ==
  /\ mailbox \in Seq(Calls) /\ putters \in Seq(Calls)
  /\ woken \subseteq Calls

ViewShape ==
  /\ job \in Calls \cup {Idle}
  /\ step = "capturing" => job \in Calls /\ job.op \in {"attach", "resync"}
  /\ end \in Nat /\ anchor \in Nat
  /\ seen \in [Clients -> Nat]
  /\ told \in [Clients -> {"nothing", "attached", "exit"}]
  /\ requests \in [Stoppers -> {"none", "waiting", "returned"}]
  /\ registered \subseteq Clients

Shape == MailShape /\ ViewShape

-----------------------------------------------------------------------------
(***************************************************************************)
(* The mailbox.                                                            *)
(***************************************************************************)
\* A call of an endpoint comes from a viewer.
LEMMA CallFields ==
  ASSUME NEW call \in Calls
  PROVE  /\ call.op \in {"attach", "resync", "detach"} => call.who \in Clients
         /\ call.op = "emit" => call.who = Reader
  BY DEF Calls

LEMMA PutShape ==
  ASSUME MailShape, NEW op, NEW who, [op |-> op, who |-> who] \in Calls, Put(op, who)
  PROVE  MailShape'
<1> DEFINE call == [op |-> op, who |-> who]
<1>1. putters' \in {putters, Append(putters, call)}
      /\ mailbox' \in {mailbox, Append(mailbox, call)} /\ woken' = woken
  BY DEF Put
<1>2. call \in Calls /\ mailbox \in Seq(Calls) /\ putters \in Seq(Calls)
      /\ woken \subseteq Calls
  BY DEF MailShape
<1> HIDE DEF call
<1>3. Append(mailbox, call) \in Seq(Calls) /\ Append(putters, call) \in Seq(Calls)
  BY <1>2
<1> QED
  BY <1>1, <1>2, <1>3 DEF MailShape

LEMMA WakeShape ==
  ASSUME NEW n \in Nat, Wake(n), putters \in Seq(Calls), woken \subseteq Calls
  PROVE  putters' \in Seq(Calls) /\ woken' \subseteq Calls
<1> DEFINE k == IF n < Len(putters) THEN n ELSE Len(putters)
<1>1. k \in 0 .. Len(putters)
  OBVIOUS
<1>2. SubSeq(putters, k + 1, Len(putters)) \in Seq(Calls)
  BY <1>1, SubSeqProperties
<1>3. {putters[i] : i \in 1 .. k} \subseteq Calls
  BY <1>1
<1> QED
  BY <1>2, <1>3 DEF Wake

LEMMA GetShape ==
  ASSUME MailShape, mailbox # <<>>, Get
  PROVE  MailShape'
<1>1. Tail(mailbox) \in Seq(Calls)
  BY DEF MailShape
<1> QED
  BY <1>1, WakeShape DEF MailShape, Get

LEMMA CancelShape ==
  ASSUME MailShape, NEW who, Cancel(who)
  PROVE  MailShape'
<1> DEFINE mine == {call \in woken : call.who = who}
           rest == Unparked(who)
           k == IF mine # {} /\ ~Full /\ rest # <<>> THEN 1 ELSE 0
<1>1. rest \in Seq(Calls)
  <2> DEFINE at == {i \in DOMAIN putters : putters[i].who = who}
             i == CHOOSE n \in at : TRUE
  <2>1. putters \in Seq(Calls)
    BY DEF MailShape
  <2>2. CASE at = {}
    BY <2>1, <2>2 DEF Unparked
  <2>3. CASE at # {}
    <3>1. i \in at
      BY <2>3
    <3>2. i \in 1 .. Len(putters)
      BY <3>1, <2>1
    <3> HIDE DEF i
    <3>3. SubSeq(putters, 1, i - 1) \in Seq(Calls)
      BY <3>2, <2>1, SubSeqProperties
    <3>4. SubSeq(putters, i + 1, Len(putters)) \in Seq(Calls)
      BY <3>2, <2>1, SubSeqProperties
    <3>5. rest = SubSeq(putters, 1, i - 1) \o SubSeq(putters, i + 1, Len(putters))
      BY <2>3 DEF Unparked, i
    <3> QED
      BY <3>3, <3>4, <3>5
  <2> QED
    BY <2>2, <2>3
<1> HIDE DEF rest
<1>2. k \in 0 .. Len(rest)
  BY <1>1
<1>3. k + 1 \in 1 .. Len(rest) + 1
  BY <1>2, <1>1
<1>4. SubSeq(rest, k + 1, Len(rest)) \in Seq(Calls)
  BY <1>1, <1>3, SubSeqProperties
<1>5. {rest[j] : j \in 1 .. k} \subseteq Calls
  BY <1>1, <1>2
<1>6. putters' = SubSeq(rest, k + 1, Len(rest)) /\ mailbox' = mailbox
      /\ woken' = (woken \ mine) \cup {rest[j] : j \in 1 .. k}
  BY DEF Cancel, rest
<1> QED
  BY <1>4, <1>5, <1>6 DEF MailShape

LEMMA RetryShape ==
  ASSUME MailShape, NEW call \in woken, Retry(call)
  PROVE  MailShape'
<1>1. call \in Calls /\ mailbox \in Seq(Calls) /\ putters \in Seq(Calls)
      /\ woken \subseteq Calls
  BY DEF MailShape
<1>2. Append(mailbox, call) \in Seq(Calls) /\ Append(putters, call) \in Seq(Calls)
  BY <1>1
<1>3. putters' \in {putters, Append(putters, call)}
      /\ mailbox' \in {mailbox, Append(mailbox, call)} /\ woken' \subseteq woken
  BY DEF Retry
<1> QED
  BY <1>1, <1>2, <1>3 DEF MailShape

LEMMA EndWorkerShape ==
  ASSUME MailShape, EndWorker
  PROVE  MailShape'
<1>1. Len(mailbox) \in Nat
  BY DEF MailShape
<1>2. mailbox' = <<>> /\ Wake(Len(mailbox))
  BY DEF EndWorker
<1> QED
  BY <1>1, <1>2, WakeShape DEF MailShape

\* What the worker takes off the mailbox is a call.
LEMMA TakenCall ==
  ASSUME MailShape, NEW op, Takes(op)
  PROVE  /\ Head(mailbox) \in Calls /\ Head(mailbox).op = op
         /\ op \in {"attach", "resync", "detach"} => Client \in Clients
         /\ MailShape'
<1>1. Head(mailbox) \in Calls /\ Head(mailbox).op = op
  BY DEF Takes, MailShape
<1>2. op \in {"attach", "resync", "detach"} => Client \in Clients
  BY <1>1, CallFields DEF Client
<1>3. mailbox # <<>> /\ Get
  BY DEF Takes
<1> QED
  BY <1>1, <1>2, <1>3, GetShape

LEMMA EndpointShape ==
  ASSUME MailShape, NEW op \in {"attach", "resync", "detach"},
         NEW c \in Clients, NEW next, Endpoint(op, c, next)
  PROVE  MailShape'
<1>1. [op |-> op, who |-> c] \in Calls
  BY DEF Calls
<1>2. CASE UNCHANGED mailVars
  BY <1>2 DEF MailShape, mailVars
<1>3. CASE Put(op, c)
  BY <1>1, <1>3, PutShape
<1> QED
  BY <1>2, <1>3 DEF Endpoint

LEMMA EmitAndStopAreCalls ==
  /\ [op |-> "emit", who |-> Reader] \in Calls
  /\ [op |-> "stop", who |-> Stopper] \in Calls
  BY DEF Calls

LEMMA MailStep ==
  ASSUME MailShape, [Next]_vars
  PROVE  MailShape'
<1>1. CASE UNCHANGED mailVars
  BY <1>1 DEF MailShape, mailVars
<1>2. CASE SkipCancelled
  BY <1>2, GetShape DEF SkipCancelled
<1>3. CASE \E op \in {"attach", "resync", "detach", "emit", "stop"} : Takes(op)
  BY <1>3, TakenCall
<1>4. CASE Captured
  BY <1>4 DEF Captured, MailShape
<1>5. CASE StopDrained \/ StopWaitTimesOut
  BY <1>5, EndWorkerShape DEF StopDrained, StopWaitTimesOut
<1>6. CASE StopTimesOut
  BY <1>6, CancelShape DEF StopTimesOut
<1>7. CASE CallStop
  BY <1>7, PutShape, EmitAndStopAreCalls DEF CallStop
<1>8. CASE ReadChunk
  BY <1>8, <1>1, PutShape, EmitAndStopAreCalls DEF ReadChunk
<1>9. CASE \E call \in woken : Retry(call)
  BY <1>9, RetryShape
<1>10. CASE \E c \in Clients : Join(c) \/ Repair(c) \/ Leave(c)
  BY <1>10, EndpointShape DEF Join, Repair, Leave
<1>11. CASE \E c \in Clients : GiveUpDetach(c)
  BY <1>11, CancelShape DEF GiveUpDetach
<1> HIDE DEF mailVars
<1>12. CASE Worker
  BY <1>12, <1>1, <1>2, <1>3, <1>4, <1>5 DEF Worker, ServeEmit, ServeAttachRefused,
     ServeAttachReplay, ServeCapture, ServeResyncRefused, ServeDetach, ServeStop,
     TmuxKilled
<1>13. CASE ReadLoop
  BY <1>13, <1>1, <1>8 DEF ReadLoop, BroadcastDirect, ReaderEnds, ReaderJoins
<1>14. CASE Finalizer
  BY <1>14, <1>1 DEF Finalizer, FinalizerCloses, ChildReaped, Persisted,
     NotifyExit, SayExit
<1>15. CASE \E c \in Clients : Viewer(c)
  BY <1>15, <1>1, <1>10, <1>11 DEF Viewer, ConnectionFails
<1>16. CASE ChildWrites \/ ChildExits \/ \E s \in Stoppers : RequestStop(s) \/ StopReturns(s)
  BY <1>16, <1>1 DEF ChildWrites, ChildExits, RequestStop, StopReturns
<1>17. CASE UNCHANGED vars
  BY <1>17, <1>1 DEF vars
<1> QED
  BY <1>5, <1>6, <1>7, <1>9, <1>12, <1>13, <1>14, <1>15, <1>16, <1>17 DEF Next, Timeouts

-----------------------------------------------------------------------------
(***************************************************************************)
(* What the steps do to the viewers.  Most touch neither the table nor     *)
(* what its viewers were given; at most they close a connection.           *)
(***************************************************************************)
Quiet ==
  /\ UNCHANGED <<job, end, anchor, seen, told, requests, registered, doubled>>
  /\ open' \subseteq open
  /\ step' = "capturing" => step = "capturing"

LEMMA QuietSteps ==
  ASSUME \/ SkipCancelled \/ ServeAttachRefused \/ ServeResyncRefused
         \/ TmuxKilled \/ StopTimesOut \/ CallStop
         \/ ReadChunk \/ ReaderEnds \/ ReaderJoins
         \/ FinalizerCloses \/ ChildReaped \/ Persisted
         \/ ChildWrites \/ ChildExits
         \/ \E call \in woken : Retry(call)
         \/ \E c \in Clients : Viewer(c)
         \/ UNCHANGED vars
  PROVE  Quiet
<1>1. CASE SkipCancelled \/ ServeAttachRefused \/ ServeResyncRefused
  BY <1>1 DEF SkipCancelled, ServeAttachRefused, ServeResyncRefused, Refuse, Quiet,
     workVars, stopVars, streamVars, viewVars
<1>2. CASE TmuxKilled \/ StopTimesOut \/ CallStop
  BY <1>2 DEF TmuxKilled, StopTimesOut, CallStop, Quiet,
     workVars, stopVars, streamVars, viewVars
<1>3. CASE ReadChunk \/ ReaderEnds \/ ReaderJoins
  BY <1>3 DEF ReadChunk, ReaderEnds, ReaderJoins, Quiet,
     workVars, stopVars, streamVars, viewVars
<1>4. CASE FinalizerCloses \/ ChildReaped \/ Persisted
  BY <1>4 DEF FinalizerCloses, ChildReaped, Persisted, Quiet,
     workVars, stopVars, streamVars, viewVars
<1>5. CASE ChildWrites \/ ChildExits
  BY <1>5 DEF ChildWrites, ChildExits, Quiet, workVars, stopVars, viewVars
<1>6. CASE \E call \in woken : Retry(call)
  BY <1>6 DEF Retry, Refuse, Quiet, workVars, stopVars, streamVars
<1>7. CASE \E c \in Clients : Viewer(c)
  BY <1>7 DEF Viewer, Join, Repair, Leave, GiveUpDetach, ConnectionFails, Endpoint,
     Refuse, Quiet, workVars, stopVars, streamVars
<1>8. CASE UNCHANGED vars
  BY <1>8 DEF vars, Quiet, workVars, stopVars, streamVars, viewVars
<1> QED
  BY <1>1, <1>2, <1>3, <1>4, <1>5, <1>6, <1>7, <1>8

\* Everything else a step can be.
Loud ==
  \/ ServeEmit \/ BroadcastDirect
  \/ ServeAttachReplay \/ ServeCapture \/ Captured \/ ServeDetach
  \/ ServeStop \/ StopDrained \/ StopWaitTimesOut \/ NotifyExit
  \/ \E s \in Stoppers : RequestStop(s) \/ StopReturns(s)

LEMMA LoudOrQuiet ==
  ASSUME [Next]_vars
  PROVE  Loud \/ Quiet
  BY QuietSteps DEF Next, Worker, Timeouts, ReadLoop, Finalizer, Loud

\* Admission of a viewer, and what it is given.
LEMMA GivenFacts ==
  ASSUME ViewShape, NEW c \in Clients, NEW drawn, GivenUpTo(c, drawn)
  PROVE  /\ seen' \in [Clients -> Nat]
         /\ seen'[c] \in {anchor, end}
         /\ drawn = 0 \/ anchor = end => seen'[c] = end
         /\ \A other \in Clients \ {c} : seen'[other] = seen[other]
         /\ drawn \in Nat /\ drawn <= anchor => doubled' = doubled
  BY DEF ViewShape, GivenUpTo

LEMMA AdmitFacts ==
  ASSUME ViewShape, NEW c \in Clients, NEW drawn, Admit(c, drawn)
  PROVE  /\ seen' \in [Clients -> Nat]
         /\ told' \in [Clients -> {"nothing", "attached", "exit"}]
         /\ open' \subseteq open
         /\ registered' \subseteq registered \cup (open \cap {c})
         /\ \A other \in Clients \ {c} : seen'[other] = seen[other]
         /\ seen'[c] \in {seen[c], anchor, end}
         /\ c \in open /\ (drawn = 0 \/ anchor = end) => seen'[c] = end
         /\ drawn \in Nat /\ drawn <= anchor => doubled' = doubled
<1>1. CASE c \in open
  BY <1>1, GivenFacts DEF Admit, ViewShape
<1>2. CASE c \notin open
  BY <1>2 DEF Admit, Refuse, ViewShape
<1> QED
  BY <1>1, <1>2

\* A step of the worker that ends in the repair or the admission of a viewer.
LEMMA CapturedFacts ==
  ASSUME ViewShape, Captured
  PROVE  \E c \in Clients, drawn \in Screens :
           /\ c = job.who
           /\ \/ job.op = "attach" /\ Admit(c, drawn)
              \/ /\ GivenUpTo(c, drawn) \/ UNCHANGED <<seen, doubled>>
                 /\ UNCHANGED <<open, registered, told>>
                 /\ job.op = "resync"
<1>1. job \in Calls /\ job.op \in {"attach", "resync"}
  BY DEF Captured, ViewShape
<1>2. job.who \in Clients
  BY <1>1, CallFields
<1> QED
  BY <1>1, <1>2 DEF Captured

LEMMA BroadcastFacts ==
  ASSUME ViewShape, Broadcast
  PROVE  /\ end' = end + 1
         /\ seen' \in [Clients -> Nat]
         /\ \A c \in Clients : c \in registered \cap open => seen'[c] = seen[c] + 1
         /\ registered' = registered \cap open
         /\ UNCHANGED <<open, told, doubled>>
  BY DEF Broadcast, ViewShape

LEMMA ViewStep ==
  ASSUME Shape, [Next]_vars
  PROVE  ViewShape'
<1> USE DEF Shape
<1>1. CASE Quiet
  BY <1>1 DEF Quiet, ViewShape
<1>2. CASE ServeEmit \/ BroadcastDirect
  <2>1. UNCHANGED <<job, step, anchor, requests>> /\ Broadcast
    BY <1>2 DEF ServeEmit, BroadcastDirect, workVars, stopVars
  <2> QED
    BY <2>1, BroadcastFacts DEF ViewShape
<1>3. CASE ServeAttachReplay
  <2>1. UNCHANGED <<job, step, end, requests>> /\ anchor' = end /\ Admit(Client, 0)
    BY <1>3 DEF ServeAttachReplay, stopVars, streamVars
  <2>2. Client \in Clients
    BY <1>3, TakenCall DEF ServeAttachReplay
  <2> QED
    BY <2>1, <2>2, AdmitFacts DEF ViewShape
<1>4. CASE ServeCapture
  <2>1. job' = Head(mailbox) /\ anchor' = end /\ step' = "capturing"
        /\ UNCHANGED <<end, seen, told, requests, registered>>
    BY <1>4 DEF ServeCapture, stopVars, streamVars, viewVars
  <2>2. Head(mailbox) \in Calls /\ Head(mailbox).op \in {"attach", "resync"}
    BY <1>4, TakenCall DEF ServeCapture
  <2> QED
    BY <2>1, <2>2 DEF ViewShape
<1>5. CASE Captured
  <2>1. job' = Idle /\ step' = "idle" /\ UNCHANGED <<anchor, end, requests>>
    BY <1>5 DEF Captured, stopVars, streamVars
  <2>2. PICK c \in Clients, drawn \in Screens :
           \/ Admit(c, drawn)
           \/ /\ GivenUpTo(c, drawn) \/ UNCHANGED <<seen, doubled>>
              /\ UNCHANGED <<open, registered, told>>
    BY <1>5, CapturedFacts
  <2>3. /\ seen' \in [Clients -> Nat] /\ registered' \subseteq Clients
        /\ told' \in [Clients -> {"nothing", "attached", "exit"}]
    <3>1. CASE Admit(c, drawn)
      BY <3>1, AdmitFacts DEF ViewShape
    <3>2. CASE GivenUpTo(c, drawn) /\ UNCHANGED <<open, registered, told>>
      BY <3>2, GivenFacts DEF ViewShape
    <3>3. CASE UNCHANGED <<seen, registered, told>>
      BY <3>3 DEF ViewShape
    <3> QED
      BY <2>2, <3>1, <3>2, <3>3
  <2> QED
    BY <2>1, <2>3 DEF ViewShape
<1>6. CASE ServeDetach
  BY <1>6 DEF ServeDetach, ViewShape, workVars, stopVars, streamVars
<1>7. CASE ServeStop
  <2>1. Head(mailbox) \in Calls
    BY <1>7, TakenCall DEF ServeStop
  <2> QED
    BY <1>7, <2>1 DEF ServeStop, ViewShape, stopVars, streamVars
<1>8. CASE StopDrained \/ StopWaitTimesOut
  BY <1>8 DEF StopDrained, StopWaitTimesOut, EndWorker, ViewShape, streamVars
<1>9. CASE NotifyExit
  BY <1>9 DEF NotifyExit, SayExit, ViewShape, workVars, stopVars, streamVars
<1>10. CASE \E s \in Stoppers : RequestStop(s) \/ StopReturns(s)
  BY <1>10 DEF RequestStop, StopReturns, ViewShape, workVars, streamVars, viewVars
<1> QED
  BY <1>1, <1>2, <1>3, <1>4, <1>5, <1>6, <1>7, <1>8, <1>9, <1>10, LoudOrQuiet DEF Loud

LEMMA ShapeInit == Init => Shape
<1>1. Init => <<>> \in Seq(Calls)
  OBVIOUS
<1> QED
  BY <1>1 DEF Init, Shape, MailShape, ViewShape

\* The variables range over what their comments say; in particular a call that
\* acts on a viewer comes from one.
THEOREM ShapeKept == Spec => []Shape
<1>1. Shape /\ [Next]_vars => Shape'
  BY MailStep, ViewStep DEF Shape
<1> QED
  BY <1>1, ShapeInit, PTL DEF Spec

-----------------------------------------------------------------------------
(***************************************************************************)
(* The cut point.  While a screen is captured the lock keeps the stream    *)
(* where it was, for every backend.                                        *)
(***************************************************************************)
CutHeld == Locked => anchor = end

LEMMA CutHeldStep ==
  ASSUME Shape, CutHeld, [Next]_vars
  PROVE  CutHeld'
<1> USE DEF Shape
<1>1. CASE Quiet
  BY <1>1 DEF Quiet, CutHeld, Locked
<1>2. CASE ServeEmit \/ BroadcastDirect
  <2>1. ~Locked /\ step' = step
    BY <1>2 DEF ServeEmit, BroadcastDirect, Takes, Locked, workVars
  <2> QED
    BY <2>1 DEF CutHeld, Locked
<1>3. CASE ServeAttachReplay
  BY <1>3 DEF ServeAttachReplay, Takes, CutHeld, Locked
<1>4. CASE ServeCapture
  BY <1>4 DEF ServeCapture, CutHeld, streamVars
<1>5. CASE Captured
  BY <1>5 DEF Captured, CutHeld, Locked
<1>6. CASE ServeDetach
  BY <1>6 DEF ServeDetach, CutHeld, Locked, workVars, streamVars
<1>7. CASE ServeStop
  BY <1>7 DEF ServeStop, CutHeld, Locked
<1>8. CASE StopDrained \/ StopWaitTimesOut
  BY <1>8 DEF StopDrained, StopWaitTimesOut, EndWorker, CutHeld, Locked
<1>9. CASE NotifyExit
  BY <1>9 DEF NotifyExit, SayExit, CutHeld, Locked, workVars, streamVars
<1>10. CASE \E s \in Stoppers : RequestStop(s) \/ StopReturns(s)
  BY <1>10 DEF RequestStop, StopReturns, CutHeld, Locked, workVars, streamVars
<1> QED
  BY <1>1, <1>2, <1>3, <1>4, <1>5, <1>6, <1>7, <1>8, <1>9, <1>10, LoudOrQuiet DEF Loud

-----------------------------------------------------------------------------
(***************************************************************************)
(* StreamContiguous is inductive with CutHeld: a broadcast moves the end   *)
(* of the stream and every viewer of the table by one chunk in one step;   *)
(* a replay brings a viewer to the end, and so does a screen, which gives  *)
(* no more than its anchor, because the stream has not moved since.        *)
(***************************************************************************)
LEMMA ContiguousStep ==
  ASSUME Shape, CutHeld, StreamContiguous, [Next]_vars
  PROVE  StreamContiguous'
<1> USE DEF Shape
<1>1. CASE Quiet
  BY <1>1 DEF Quiet, StreamContiguous
<1>2. CASE ServeEmit \/ BroadcastDirect
  <2>1. Broadcast
    BY <1>2 DEF ServeEmit, BroadcastDirect
  <2> QED
    BY <2>1, BroadcastFacts DEF ViewShape, StreamContiguous
<1>3. CASE ServeAttachReplay
  <2>1. end' = end /\ Admit(Client, 0)
    BY <1>3 DEF ServeAttachReplay, streamVars
  <2>2. Client \in Clients
    BY <1>3, TakenCall DEF ServeAttachReplay
  <2> QED
    BY <2>1, <2>2, AdmitFacts DEF ViewShape, StreamContiguous
<1>4. CASE ServeCapture
  BY <1>4 DEF ServeCapture, StreamContiguous, streamVars, viewVars
<1>5. CASE Captured
  <2>1. end' = end /\ anchor = end
    BY <1>5 DEF Captured, CutHeld, Locked, streamVars
  <2>2. PICK c \in Clients, drawn \in Screens :
           \/ Admit(c, drawn)
           \/ /\ GivenUpTo(c, drawn) \/ UNCHANGED <<seen, doubled>>
              /\ UNCHANGED <<open, registered, told>>
    BY <1>5, CapturedFacts
  <2>3. CASE Admit(c, drawn)
    BY <2>1, <2>3, AdmitFacts DEF ViewShape, StreamContiguous
  <2>4. CASE GivenUpTo(c, drawn) /\ UNCHANGED <<open, registered>>
    BY <2>1, <2>4, GivenFacts DEF ViewShape, StreamContiguous
  <2>5. CASE UNCHANGED <<seen, open, registered>>
    BY <2>1, <2>5 DEF StreamContiguous
  <2> QED
    BY <2>2, <2>3, <2>4, <2>5
<1>6. CASE ServeDetach
  BY <1>6 DEF ServeDetach, Refuse, StreamContiguous, streamVars
<1>7. CASE ServeStop
  BY <1>7 DEF ServeStop, StreamContiguous, streamVars
<1>8. CASE StopDrained \/ StopWaitTimesOut
  BY <1>8 DEF StopDrained, StopWaitTimesOut, EndWorker, Refuse, StreamContiguous,
     streamVars
<1>9. CASE NotifyExit
  BY <1>9 DEF NotifyExit, SayExit, StreamContiguous, streamVars
<1>10. CASE \E s \in Stoppers : RequestStop(s) \/ StopReturns(s)
  BY <1>10 DEF RequestStop, StopReturns, StreamContiguous, streamVars, viewVars
<1> QED
  BY <1>1, <1>2, <1>3, <1>4, <1>5, <1>6, <1>7, <1>8, <1>9, <1>10, LoudOrQuiet DEF Loud

\* Every viewer in the session's table has been given the stream up to its end.
THEOREM ViewersKeepUp == Spec => []StreamContiguous
<1>1. Init => StreamContiguous
  BY DEF Init, StreamContiguous
<1>2. Init => CutHeld
  BY DEF Init, CutHeld, Locked
<1>3. Shape /\ CutHeld /\ StreamContiguous /\ [Next]_vars
        => CutHeld' /\ StreamContiguous'
  BY CutHeldStep, ContiguousStep
<1> QED
  BY <1>1, <1>2, <1>3, ShapeKept, PTL DEF Spec

-----------------------------------------------------------------------------
(***************************************************************************)
(* With the lock held, a shadow screen fed by the stream shows exactly     *)
(* what precedes the anchor.  A tmux screen is drawn by the child.         *)
(***************************************************************************)
CutExact ==
  /\ doubled = {}
  /\ CutHeld

LEMMA CutStep ==
  ASSUME Backend = "local", Shape, CutExact, [Next]_vars
  PROVE  CutExact'
<1> USE DEF Shape
<1>0. CutHeld'
  BY CutHeldStep DEF CutExact
<1> SUFFICES doubled' = doubled
  BY <1>0 DEF CutExact
<1>1. CASE Quiet
  BY <1>1 DEF Quiet
<1>2. CASE ServeEmit \/ BroadcastDirect
  <2>1. Broadcast
    BY <1>2 DEF ServeEmit, BroadcastDirect
  <2> QED
    BY <2>1, BroadcastFacts
<1>3. CASE ServeAttachReplay
  <2>1. Admit(Client, 0)
    BY <1>3 DEF ServeAttachReplay
  <2>2. Client \in Clients
    BY <1>3, TakenCall DEF ServeAttachReplay
  <2> QED
    BY <2>1, <2>2, AdmitFacts DEF ViewShape
<1>4. CASE ServeCapture
  BY <1>4 DEF ServeCapture, viewVars
<1>5. CASE Captured
  <2>1. anchor = end
    BY <1>5 DEF Captured, CutExact, CutHeld, Locked
  <2>2. PICK c \in Clients, drawn \in Screens :
           \/ Admit(c, drawn)
           \/ GivenUpTo(c, drawn) \/ UNCHANGED <<seen, doubled>>
    BY <1>5, CapturedFacts
  <2>3. drawn \in Nat /\ drawn <= anchor
    BY <2>1 DEF Screens, ViewShape
  <2> QED
    BY <2>2, <2>3, AdmitFacts, GivenFacts
<1>6. CASE ServeDetach \/ ServeStop \/ StopDrained \/ StopWaitTimesOut
  BY <1>6 DEF ServeDetach, ServeStop, StopDrained, StopWaitTimesOut, EndWorker
<1>7. CASE NotifyExit \/ \E s \in Stoppers : RequestStop(s) \/ StopReturns(s)
  BY <1>7 DEF NotifyExit, SayExit, RequestStop, StopReturns, viewVars
<1> QED
  BY <1>1, <1>2, <1>3, <1>4, <1>5, <1>6, <1>7, LoudOrQuiet DEF Loud

\* A session without tmux never paints the same output twice: the docstring of
\* resync holds for it.
THEOREM LocalSnapshotIsCutPoint ==
  ASSUME Backend = "local"
  PROVE  Spec => []SnapshotIsCutPoint
<1>1. Init => CutExact
  BY DEF Init, CutExact, CutHeld, Locked
<1>2. Shape /\ CutExact /\ [Next]_vars => CutExact'
  BY CutStep
<1>3. CutExact => SnapshotIsCutPoint
  BY DEF CutExact, SnapshotIsCutPoint
<1> QED
  BY <1>1, <1>2, <1>3, ShapeKept, PTL DEF Spec

-----------------------------------------------------------------------------
(***************************************************************************)
(* The exit notice.  The finalizer marks the session closed before it      *)
(* speaks, so no attach begins after that; an attach that had begun holds  *)
(* the lock the notice waits for, so it is in the table when it is given.  *)
(***************************************************************************)
Ending == {"reaping", "persisting", "notifying", "done"}

ExitOrdered ==
  /\ finalizer \in Ending => closed
  /\ finalizer = "done" /\ Locked => job.op # "attach"
  /\ ExitReachesEveryViewer

LEMMA FinalizerMoves ==
  ASSUME [Next]_vars
  PROVE  \/ UNCHANGED <<finalizer, closed>>
         \/ finalizer = "none" /\ finalizer' = "created" /\ closed' = closed
         \/ finalizer = "created" /\ finalizer' = "reaping" /\ closed'
         \/ finalizer = "reaping" /\ finalizer' = "persisting" /\ closed' = closed
         \/ finalizer = "persisting" /\ finalizer' = "notifying" /\ closed' = closed
         \/ NotifyExit
<1>1. CASE Worker
  BY <1>1 DEF Worker, SkipCancelled, ServeEmit, ServeAttachRefused, ServeAttachReplay,
     ServeCapture, ServeResyncRefused, Captured, ServeDetach, ServeStop, TmuxKilled,
     StopDrained, EndWorker
<1>2. CASE Timeouts
  BY <1>2 DEF Timeouts, StopTimesOut, StartFinalizer, StopWaitTimesOut, EndWorker
<1>3. CASE CallStop \/ ReadLoop
  BY <1>3 DEF CallStop, ReadLoop, ReadChunk, BroadcastDirect, ReaderEnds,
     StartFinalizer, ReaderJoins
<1>4. CASE Finalizer
  BY <1>4 DEF Finalizer, FinalizerCloses, ChildReaped, Persisted
<1>5. CASE \/ \E call \in woken : Retry(call)
           \/ \E s \in Stoppers : RequestStop(s) \/ StopReturns(s)
           \/ ChildWrites \/ ChildExits
  BY <1>5 DEF Retry, RequestStop, StopReturns, ChildWrites, ChildExits
<1>6. CASE \E c \in Clients : Viewer(c)
  BY <1>6 DEF Viewer, Join, Repair, Leave, GiveUpDetach, ConnectionFails, Endpoint
<1>7. CASE UNCHANGED vars
  BY <1>7 DEF vars
<1> QED
  BY <1>1, <1>2, <1>3, <1>4, <1>5, <1>6, <1>7 DEF Next

\* Outside the notice, the finalizer does not become done in a step, and an
\* attach that holds the lock keeps it from being so.
LEMMA ExitStep ==
  ASSUME Shape, ExitOrdered, [Next]_vars
  PROVE  ExitOrdered'
<1> USE DEF Shape
<1>1. (finalizer \in Ending => closed)'
  BY FinalizerMoves DEF ExitOrdered, Ending, NotifyExit, SayExit
<1>2. CASE NotifyExit
  <2>1. ~Locked /\ step' = step
    BY <1>2 DEF NotifyExit, SayExit, workVars
  <2>2. \A c \in registered' \cap open' : told'[c] = "exit"
    BY <1>2 DEF NotifyExit, SayExit, ViewShape
  <2> QED
    BY <1>1, <2>1, <2>2 DEF ExitOrdered, ExitReachesEveryViewer, Locked
<1> SUFFICES ASSUME ~NotifyExit, finalizer' = "done"
             PROVE  /\ Locked' => job'.op # "attach"
                    /\ \A c \in registered' \cap open' : told'[c] = "exit"
  BY <1>1, <1>2 DEF ExitOrdered, ExitReachesEveryViewer
<1>3. finalizer = "done" /\ closed
  BY FinalizerMoves DEF ExitOrdered, Ending
<1>4. /\ Locked => job.op # "attach"
      /\ \A c \in registered \cap open : told[c] = "exit"
  BY <1>3 DEF ExitOrdered, ExitReachesEveryViewer
<1>5. CASE Quiet
  BY <1>4, <1>5 DEF Quiet, Locked
<1>6. CASE ServeEmit \/ BroadcastDirect
  <2>1. Broadcast /\ UNCHANGED <<job, step>>
    BY <1>6 DEF ServeEmit, BroadcastDirect, workVars
  <2> QED
    BY <1>4, <2>1, BroadcastFacts DEF Locked
<1>7. ~ServeAttachReplay
  BY <1>3 DEF ServeAttachReplay, RefusesAttach
<1>8. CASE ServeCapture
  <2>1. Takes("resync") /\ job' = Head(mailbox)
    BY <1>3, <1>8 DEF ServeCapture, RefusesAttach
  <2>2. job'.op = "resync"
    BY <2>1 DEF Takes
  <2> QED
    BY <1>4, <1>8, <2>2 DEF ServeCapture, viewVars
<1>9. CASE Captured
  <2>1. job.op # "attach" /\ step' = "idle"
    BY <1>4, <1>9 DEF Captured, Locked
  <2> QED
    BY <1>4, <1>9, <2>1 DEF Captured, Locked
<1>10. CASE ServeDetach
  BY <1>4, <1>10 DEF ServeDetach, Refuse, Locked, workVars
<1>11. CASE ServeStop
  BY <1>4, <1>11 DEF ServeStop, Locked
<1>12. CASE StopDrained \/ StopWaitTimesOut
  BY <1>4, <1>12 DEF StopDrained, StopWaitTimesOut, EndWorker, Refuse, Locked
<1>13. CASE \E s \in Stoppers : RequestStop(s) \/ StopReturns(s)
  BY <1>4, <1>13 DEF RequestStop, StopReturns, Locked, workVars, viewVars
<1> QED
  BY <1>5, <1>6, <1>7, <1>8, <1>9, <1>10, <1>11, <1>12, <1>13, LoudOrQuiet DEF Loud

\* Every viewer left in the table of a finalized session has been told "exit".
THEOREM EveryViewerToldExit == Spec => []ExitReachesEveryViewer
<1>1. Init => ExitOrdered
  BY DEF Init, ExitOrdered, ExitReachesEveryViewer, Ending, Locked
<1>2. Shape /\ ExitOrdered /\ [Next]_vars => ExitOrdered'
  BY ExitStep
<1>3. ExitOrdered => ExitReachesEveryViewer
  BY DEF ExitOrdered
<1> QED
  BY <1>1, <1>2, <1>3, ShapeKept, PTL DEF Spec

-----------------------------------------------------------------------------
(***************************************************************************)
(* Stopping.  A request returns once the worker has, and the worker only   *)
(* returns behind the finalizer: directly, or because it waited for a read *)
(* loop that ends behind it.  The one exception is a loop cancelled while  *)
(* it waited for the finalizer, and then the worker waits in its place.    *)
(***************************************************************************)
Finalized == finalizer = "done" \/ "finalizer" \in timedOut

StopOrdered ==
  /\ ActorClosed => Finalized
  /\ reader = "done" => finalizer = "done" \/ step = "finalizing"
  /\ \A s \in Stoppers : requests[s] = "returned" => ActorClosed

\* What the rest of the system does to the variables of StopOrdered.
Aside ==
  /\ UNCHANGED <<requests, timedOut>>
  /\ reader' = "done" => reader = "done"
  /\ step' = "over" <=> step = "over"
  /\ step' = "finalizing" <=> step = "finalizing"

LEMMA AsideSteps ==
  ASSUME [Next]_vars
  PROVE  \/ Aside \/ StopDrained \/ StopWaitTimesOut \/ StopTimesOut \/ ReaderJoins
         \/ \E s \in Stoppers : RequestStop(s) \/ StopReturns(s)
<1>1. CASE \/ SkipCancelled \/ ServeEmit \/ ServeAttachRefused
           \/ ServeAttachReplay \/ ServeCapture
  BY <1>1 DEF SkipCancelled, ServeEmit, ServeAttachRefused, ServeAttachReplay,
     ServeCapture, Takes, Aside, workVars, stopVars
<1>2. CASE ServeResyncRefused \/ Captured \/ ServeDetach \/ ServeStop \/ TmuxKilled
  BY <1>2 DEF ServeResyncRefused, Captured, ServeDetach, ServeStop, TmuxKilled,
     Takes, Aside, workVars, stopVars
<1>3. CASE CallStop \/ ReadChunk \/ BroadcastDirect \/ ReaderEnds
  BY <1>3 DEF CallStop, ReadChunk, BroadcastDirect, ReaderEnds, Aside,
     workVars, stopVars
<1>4. CASE Finalizer
  BY <1>4 DEF Finalizer, FinalizerCloses, ChildReaped, Persisted, NotifyExit, SayExit,
     Aside, workVars, stopVars
<1>5. CASE (\E call \in woken : Retry(call)) \/ ChildWrites \/ ChildExits
  BY <1>5 DEF Retry, ChildWrites, ChildExits, Aside, workVars, stopVars
<1>6. CASE \E c \in Clients : Viewer(c)
  BY <1>6 DEF Viewer, Join, Repair, Leave, GiveUpDetach, ConnectionFails, Endpoint,
     Aside, workVars, stopVars
<1>7. CASE UNCHANGED vars
  BY <1>7 DEF vars, Aside, workVars, stopVars
<1> QED
  BY <1>1, <1>2, <1>3, <1>4, <1>5, <1>6, <1>7 DEF Next, Worker, Timeouts, ReadLoop

LEMMA StopStep ==
  ASSUME Shape, StopOrdered, [Next]_vars
  PROVE  StopOrdered'
<1> USE DEF Shape, ActorClosed
<1>1. finalizer = "done" => finalizer' = "done"
  BY FinalizerMoves DEF NotifyExit, SayExit
<1>2. CASE Aside
  BY <1>1, <1>2 DEF Aside, StopOrdered, Finalized
<1>3. CASE StopDrained
  <2>1. finalizer = "done" /\ step' = "over"
    BY <1>3 DEF StopDrained, StopOrdered, EndWorker
  <2> QED
    BY <1>1, <1>3, <2>1 DEF StopDrained, EndWorker, StopOrdered, Finalized
<1>4. CASE StopWaitTimesOut
  <2>1. /\ step = "waiting" /\ step' = "over" /\ "finalizer" \in timedOut'
        /\ reader' = reader /\ requests' = requests
    BY <1>4 DEF StopWaitTimesOut, EndWorker
  <2> QED
    BY <1>1, <2>1 DEF StopOrdered, Finalized
<1>5. CASE StopTimesOut
  <2>1. step = "draining" /\ step' = "finalizing" /\ requests' = requests
    BY <1>5 DEF StopTimesOut
  <2> QED
    BY <2>1 DEF StopOrdered
<1>6. CASE ReaderJoins
  <2>1. finalizer = "done" /\ UNCHANGED <<step, requests, timedOut>>
    BY <1>6 DEF ReaderJoins, workVars, stopVars
  <2> QED
    BY <1>1, <2>1 DEF StopOrdered, Finalized
<1>7. CASE \E s \in Stoppers : RequestStop(s) \/ StopReturns(s)
  <2>1. PICK s \in Stoppers : RequestStop(s) \/ StopReturns(s)
    BY <1>7
  <2>2. UNCHANGED <<step, timedOut, reader, finalizer>>
    BY <2>1 DEF RequestStop, StopReturns, workVars
  <2>3. \A other \in Stoppers : requests'[other] = "returned" =>
          ActorClosed \/ requests[other] = "returned"
    BY <2>1 DEF RequestStop, StopReturns, ViewShape
  <2> QED
    BY <2>2, <2>3 DEF StopOrdered, Finalized
<1> QED
  BY <1>2, <1>3, <1>4, <1>5, <1>6, <1>7, AsideSteps

\* A stop that has returned left a finalized session, unless the bounded wait
\* for the finalizer ran out.
THEOREM StopWaitsForFinalizer == Spec => []StopMeansFinalized
<1>1. Init => StopOrdered
  BY DEF Init, StopOrdered, Finalized, ActorClosed
<1>2. Shape /\ StopOrdered /\ [Next]_vars => StopOrdered'
  BY StopStep
<1>3. StopOrdered => StopMeansFinalized
  BY DEF StopOrdered, StopMeansFinalized, Finalized
<1> QED
  BY <1>1, <1>2, <1>3, ShapeKept, PTL DEF Spec
-----------------------------------------------------------------------------
(***************************************************************************)
(* Ranges.  The stream never runs ahead of what the child wrote: a chunk   *)
(* is read only while there is one to read, and until it is broadcast the  *)
(* read loop reads no other.  A cancelled emit stays in the mailbox, where *)
(* it must not be served: the loop no longer waits for it.  The mailbox    *)
(* keeps its bound because a woken caller looks again before it puts.      *)
(***************************************************************************)
Steps == {"idle", "capturing", "killing", "draining", "finalizing", "waiting", "over"}
Loops == {"reading", "emitting", "direct", "joining", "done"}
Ends == {"none", "created", "reaping", "persisting", "notifying", "done"}
Doors == {"new", "joining", "attached", "resyncing", "repaired", "leaving", "gone"}

MailBound == Len(mailbox) <= MailboxSize /\ waiting \subseteq Callers

EndpointRange ==
  /\ status \in [Clients -> Doors]
  /\ open \subseteq Clients /\ doubled \subseteq Clients

WorkRange ==
  /\ step \in Steps /\ reader \in Loops /\ finalizer \in Ends
  /\ stopTask \in {"none", "created", "called"}
  /\ closed \in BOOLEAN
  /\ timedOut \subseteq {"reader", "finalizer"}

StreamRange ==
  /\ child \in {"running", "exited"}
  /\ written \in 0 .. MaxChunks
  /\ end <= written /\ anchor <= end
  /\ \A c \in Clients : seen[c] <= end

\* Until its chunk is broadcast, the read loop holds one that was not.
ChunkHeld ==
  /\ Reader \in waiting => reader = "emitting" /\ end < written
  /\ reader = "direct" => end < written

Ranges == MailBound /\ EndpointRange /\ WorkRange /\ StreamRange /\ ChunkHeld

LEMMA PutBound ==
  ASSUME MailShape, MailBound, NEW op, NEW who \in Callers, Put(op, who)
  PROVE  MailBound' /\ waiting' = waiting \cup {who}
<1>1. mailbox \in Seq(Calls) /\ MailboxSize \in Nat
  BY ActorBounds DEF MailShape
<1>2. CASE Full
  BY <1>2 DEF Put, MailBound
<1>3. CASE ~Full
  <2>1. Len(mailbox) < MailboxSize
    BY <1>1, <1>3 DEF Full
  <2>2. mailbox' = Append(mailbox, [op |-> op, who |-> who])
    BY <1>3 DEF Put
  <2>3. Len(mailbox') = Len(mailbox) + 1
    BY <1>1, <2>2
  <2> QED
    BY <1>1, <2>1, <2>3 DEF Put, MailBound
<1> QED
  BY <1>2, <1>3

LEMMA GetBound ==
  ASSUME MailShape, MailBound, mailbox # <<>>, Get
  PROVE  Len(mailbox') <= MailboxSize
  BY ActorBounds DEF MailShape, MailBound, Get

\* A caller begins to wait only with a put.
LEMMA BoundStep ==
  ASSUME MailShape, MailBound, [Next]_vars
  PROVE  MailBound'
<1>1. CASE UNCHANGED <<mailbox, waiting>>
  BY <1>1 DEF MailBound
<1>2. CASE SkipCancelled
  BY <1>2, GetBound DEF SkipCancelled, MailBound
<1>3. CASE Worker /\ mailbox # <<>> /\ Get /\ waiting' \subseteq waiting
  BY <1>3, GetBound DEF MailBound
<1>4. CASE Captured
  BY <1>4 DEF Captured, Answer, MailBound
<1>5. CASE StopDrained \/ StopWaitTimesOut
  BY <1>5, ActorBounds DEF StopDrained, StopWaitTimesOut, EndWorker, MailBound
<1>6. CASE StopTimesOut \/ \E c \in Clients : GiveUpDetach(c)
  BY <1>6 DEF StopTimesOut, GiveUpDetach, Cancel, MailBound
<1>7. CASE CallStop
  BY <1>7, PutBound DEF CallStop, Callers
<1>8. CASE ReadChunk
  BY <1>8, <1>1, PutBound DEF ReadChunk, Callers, mailVars
<1>9. CASE \E call \in woken : Retry(call)
  <2>1. PICK call \in woken : Retry(call)
    BY <1>9
  <2>2. CASE Full
    BY <2>1, <2>2 DEF Retry, MailBound
  <2>3. CASE ~Full
    <3>1. mailbox \in Seq(Calls) /\ MailboxSize \in Nat /\ call \in Calls
      BY ActorBounds DEF MailShape
    <3>2. Len(mailbox) < MailboxSize
      BY <2>3, <3>1 DEF Full
    <3>3. mailbox' = Append(mailbox, call) /\ waiting' \subseteq waiting
      BY <2>1, <2>3 DEF Retry
    <3> QED
      BY <3>1, <3>2, <3>3 DEF MailBound
  <2> QED
    BY <2>2, <2>3
<1>10. CASE \E c \in Clients : Join(c) \/ Repair(c) \/ Leave(c)
  <2>1. PICK c \in Clients : \/ UNCHANGED <<mailbox, waiting>>
                             \/ Put("attach", c) \/ Put("resync", c) \/ Put("detach", c)
    BY <1>10 DEF Join, Repair, Leave, Endpoint, mailVars
  <2> QED
    BY <1>1, <2>1, PutBound DEF Callers
<1>11. CASE Worker
  BY <1>1, <1>2, <1>3, <1>4, <1>5, <1>11 DEF Worker, ServeEmit, ServeAttachRefused,
     ServeAttachReplay, ServeCapture, ServeResyncRefused, ServeDetach, ServeStop,
     TmuxKilled, Takes, Answer, mailVars
<1>12. CASE ReadLoop
  BY <1>12, <1>1, <1>8 DEF ReadLoop, BroadcastDirect, ReaderEnds, ReaderJoins, mailVars
<1>13. CASE Finalizer
  BY <1>13, <1>1 DEF Finalizer, FinalizerCloses, ChildReaped, Persisted,
     NotifyExit, SayExit, mailVars
<1>14. CASE \E c \in Clients : Viewer(c)
  BY <1>14, <1>1, <1>6, <1>10 DEF Viewer, ConnectionFails, mailVars
<1>15. CASE ChildWrites \/ ChildExits \/ \E s \in Stoppers : RequestStop(s) \/ StopReturns(s)
  BY <1>15, <1>1 DEF ChildWrites, ChildExits, RequestStop, StopReturns, mailVars
<1>16. CASE UNCHANGED vars
  BY <1>16, <1>1 DEF vars, mailVars
<1> QED
  BY <1>5, <1>6, <1>7, <1>9, <1>11, <1>12, <1>13, <1>14, <1>15, <1>16 DEF Next, Timeouts

LEMMA RefuseRange ==
  ASSUME EndpointRange, NEW refused, Refuse(refused)
  PROVE  status' \in [Clients -> Doors] /\ open' \subseteq Clients
  BY DEF EndpointRange, Refuse, Doors

LEMMA AdmitRange ==
  ASSUME EndpointRange, NEW c \in Clients, NEW drawn, Admit(c, drawn)
  PROVE  EndpointRange'
<1>1. CASE c \in open
  BY <1>1 DEF Admit, GivenUpTo, EndpointRange, Doors
<1>2. CASE c \notin open
  BY <1>2, RefuseRange DEF Admit, EndpointRange
<1> QED
  BY <1>1, <1>2

LEMMA EndpointCallRange ==
  ASSUME EndpointRange, NEW op, NEW c \in Clients, NEW next \in Doors,
         Endpoint(op, c, next)
  PROVE  EndpointRange'
<1>1. CASE ActorClosed
  BY <1>1, RefuseRange DEF Endpoint, EndpointRange
<1>2. CASE ~ActorClosed
  BY <1>2 DEF Endpoint, EndpointRange
<1> QED
  BY <1>1, <1>2

LEMMA EndpointStep ==
  ASSUME Shape, EndpointRange, [Next]_vars
  PROVE  EndpointRange'
<1> USE DEF Shape
<1>1. CASE UNCHANGED <<status, open, doubled>>
  BY <1>1 DEF EndpointRange
<1>2. CASE ServeEmit \/ BroadcastDirect
  BY <1>2, <1>1 DEF ServeEmit, BroadcastDirect, Broadcast
<1>3. CASE ServeAttachRefused \/ ServeDetach
  BY <1>3, RefuseRange DEF ServeAttachRefused, ServeDetach, EndpointRange
<1>4. CASE ServeAttachReplay
  <2>1. Client \in Clients
    BY <1>4, TakenCall DEF ServeAttachReplay
  <2> QED
    BY <1>4, <2>1, AdmitRange DEF ServeAttachReplay
<1>5. CASE ServeResyncRefused
  BY <1>5 DEF ServeResyncRefused, EndpointRange, Doors
<1>6. CASE Captured
  <2>1. job.who \in Clients
    BY <1>6, CallFields DEF Captured, ViewShape
  <2>2. PICK drawn \in Screens :
           IF job.op = "attach" THEN Admit(job.who, drawn)
           ELSE /\ status' = [status EXCEPT ![job.who] = "repaired"]
                /\ doubled' \in {doubled, doubled \cup {job.who}}
                /\ UNCHANGED open
    BY <1>6 DEF Captured, GivenUpTo
  <2> QED
    BY <2>1, <2>2, AdmitRange DEF EndpointRange, Doors
<1>7. CASE StopDrained \/ StopWaitTimesOut
  BY <1>7, RefuseRange DEF StopDrained, StopWaitTimesOut, EndWorker, EndpointRange
<1>8. CASE \E call \in woken : Retry(call)
  <2>1. PICK call \in woken : Retry(call)
    BY <1>8
  <2>2. CASE Full
    BY <1>1, <2>1, <2>2 DEF Retry
  <2>3. CASE ~Full
    BY <2>1, <2>3, RefuseRange DEF Retry, EndpointRange
  <2> QED
    BY <2>2, <2>3
<1>9. CASE \E c \in Clients : Viewer(c)
  <2>1. PICK c \in Clients : Viewer(c)
    BY <1>9
  <2>2. {"joining", "resyncing", "leaving"} \subseteq Doors
    BY DEF Doors
  <2>3. CASE Join(c) \/ Repair(c) \/ Leave(c)
    BY <2>2, <2>3, EndpointCallRange DEF Join, Repair, Leave
  <2>4. CASE GiveUpDetach(c)
    BY <2>4, RefuseRange DEF GiveUpDetach, EndpointRange
  <2>5. CASE ConnectionFails(c)
    BY <2>5 DEF ConnectionFails, EndpointRange
  <2> QED
    BY <2>1, <2>3, <2>4, <2>5 DEF Viewer
<1>10. CASE Worker
  BY <1>1, <1>2, <1>3, <1>4, <1>5, <1>6, <1>7, <1>10 DEF Worker, SkipCancelled,
     ServeCapture, ServeStop, TmuxKilled, viewVars
<1>11. CASE StopTimesOut \/ CallStop
  BY <1>11, <1>1 DEF StopTimesOut, CallStop, viewVars
<1>12. CASE ReadLoop
  BY <1>12, <1>1, <1>2 DEF ReadLoop, ReadChunk, ReaderEnds, ReaderJoins, viewVars
<1>13. CASE Finalizer
  BY <1>13, <1>1 DEF Finalizer, FinalizerCloses, ChildReaped, Persisted,
     NotifyExit, SayExit, viewVars
<1>14. CASE ChildWrites \/ ChildExits \/ \E s \in Stoppers : RequestStop(s) \/ StopReturns(s)
  BY <1>14, <1>1 DEF ChildWrites, ChildExits, RequestStop, StopReturns, viewVars
<1>15. CASE UNCHANGED vars
  BY <1>15, <1>1 DEF vars, viewVars
<1> QED
  BY <1>7, <1>8, <1>9, <1>10, <1>11, <1>12, <1>13, <1>14, <1>15 DEF Next, Timeouts

LEMMA WorkStep ==
  ASSUME WorkRange, [Next]_vars
  PROVE  WorkRange'
<1>1. finalizer' \in Ends /\ closed' \in BOOLEAN
  BY FinalizerMoves DEF WorkRange, Ends, NotifyExit, SayExit
<1> DEFINE Rest == /\ step \in Steps /\ reader \in Loops
                   /\ stopTask \in {"none", "created", "called"}
                   /\ timedOut \subseteq {"reader", "finalizer"}
<1> SUFFICES Rest'
  BY <1>1 DEF WorkRange
<1>2. Rest
  BY DEF WorkRange
<1>3. CASE Worker
  BY <1>2, <1>3 DEF Worker, SkipCancelled, ServeEmit, ServeAttachRefused,
     ServeAttachReplay, ServeCapture, ServeResyncRefused, Captured, ServeDetach,
     ServeStop, TmuxKilled, StopDrained, EndWorker, workVars, stopVars, Steps, Loops
<1>4. CASE Timeouts
  BY <1>2, <1>4 DEF Timeouts, StopTimesOut, StopWaitTimesOut, EndWorker, Steps, Loops
<1>5. CASE CallStop \/ ReadLoop
  BY <1>2, <1>5 DEF CallStop, ReadLoop, ReadChunk, BroadcastDirect, ReaderEnds,
     ReaderJoins, workVars, stopVars, Loops
<1>6. CASE Finalizer
  BY <1>2, <1>6 DEF Finalizer, FinalizerCloses, ChildReaped, Persisted, NotifyExit,
     SayExit, workVars, stopVars
<1>7. CASE \/ \E call \in woken : Retry(call)
           \/ \E s \in Stoppers : RequestStop(s) \/ StopReturns(s)
           \/ ChildWrites \/ ChildExits
  BY <1>2, <1>7 DEF Retry, RequestStop, StopReturns, ChildWrites, ChildExits,
     workVars, stopVars
<1>8. CASE \E c \in Clients : Viewer(c)
  BY <1>2, <1>8 DEF Viewer, Join, Repair, Leave, GiveUpDetach, ConnectionFails,
     Endpoint, workVars, stopVars
<1>9. CASE UNCHANGED vars
  BY <1>2, <1>9 DEF vars, workVars, stopVars
<1> QED
  BY <1>3, <1>4, <1>5, <1>6, <1>7, <1>8, <1>9 DEF Next

\* A chunk that is broadcast is one the read loop holds.
LEMMA OnlyHeldChunks ==
  ASSUME MailShape, ChunkHeld, ServeEmit \/ BroadcastDirect
  PROVE  end < written
<1>1. CASE ServeEmit
  <2>1. Head(mailbox) \in Calls /\ Head(mailbox).op = "emit" /\ Head(mailbox).who \in waiting
    BY <1>1, TakenCall DEF ServeEmit, Takes
  <2> QED
    BY <2>1, CallFields DEF ChunkHeld
<1>2. CASE BroadcastDirect
  BY <1>2 DEF BroadcastDirect, ChunkHeld
<1> QED
  BY <1>1, <1>2

\* What becomes of the stream in a step that neither broadcasts nor writes.
LEMMA StreamMoves ==
  ASSUME [Next]_vars
  PROVE  \/ ServeEmit \/ BroadcastDirect
         \/ ChildWrites
         \/ UNCHANGED <<written, end>> /\ child' \in {child, "exited"}
<1>1. CASE Worker
  BY <1>1 DEF Worker, SkipCancelled, ServeAttachRefused, ServeAttachReplay,
     ServeCapture, ServeResyncRefused, Captured, ServeDetach, ServeStop, TmuxKilled,
     StopDrained, EndWorker, streamVars
<1>2. CASE Timeouts \/ CallStop
  BY <1>2 DEF Timeouts, StopTimesOut, StopWaitTimesOut, EndWorker, CallStop, streamVars
<1>3. CASE ReadLoop \/ ChildWrites \/ ChildExits
  BY <1>3 DEF ReadLoop, ReadChunk, ReaderEnds, ReaderJoins, ChildExits, streamVars
<1>4. CASE Finalizer
  BY <1>4 DEF Finalizer, FinalizerCloses, ChildReaped, Persisted, NotifyExit,
     SayExit, streamVars
<1>5. CASE \/ \E call \in woken : Retry(call)
           \/ \E s \in Stoppers : RequestStop(s) \/ StopReturns(s)
  BY <1>5 DEF Retry, RequestStop, StopReturns, streamVars
<1>6. CASE \E c \in Clients : Viewer(c)
  BY <1>6 DEF Viewer, Join, Repair, Leave, GiveUpDetach, ConnectionFails, Endpoint,
     streamVars
<1>7. CASE UNCHANGED vars
  BY <1>7 DEF vars, streamVars
<1> QED
  BY <1>1, <1>2, <1>3, <1>4, <1>5, <1>6, <1>7 DEF Next

LEMMA StreamStep ==
  ASSUME Shape, ChunkHeld, StreamRange, [Next]_vars
  PROVE  StreamRange'
<1> USE DEF Shape
<1>1. MaxChunks \in Nat /\ end \in Nat /\ anchor \in Nat /\ written \in Nat
      /\ seen \in [Clients -> Nat]
  BY ActorBounds DEF ViewShape, StreamRange
<1>2. CASE ServeEmit \/ BroadcastDirect
  <2>1. /\ end < written /\ Broadcast
        /\ UNCHANGED <<anchor, written, child>>
    BY <1>2, OnlyHeldChunks DEF ServeEmit, BroadcastDirect, Broadcast, workVars
  <2>2. end' = end + 1 /\ \A c \in Clients : seen'[c] \in {seen[c], seen[c] + 1}
    BY <1>1, <2>1 DEF Broadcast
  <2> QED
    BY <1>1, <2>1, <2>2 DEF StreamRange
<1>3. CASE ChildWrites
  BY <1>1, <1>3 DEF ChildWrites, StreamRange, workVars, viewVars
<1> SUFFICES ASSUME ~(ServeEmit \/ BroadcastDirect), ~ChildWrites
             PROVE  anchor' <= end /\ \A c \in Clients : seen'[c] <= end
  <2>1. \/ ServeEmit \/ BroadcastDirect \/ ChildWrites
        \/ UNCHANGED <<written, end>> /\ child' \in {child, "exited"}
    BY StreamMoves
  <2> QED
    BY <1>2, <1>3, <2>1 DEF StreamRange
<1>4. anchor <= end /\ \A c \in Clients : seen[c] <= end
  BY DEF StreamRange
<1>5. CASE UNCHANGED <<anchor, seen>>
  BY <1>4, <1>5
<1>6. CASE Quiet
  BY <1>5, <1>6 DEF Quiet
<1>7. CASE ServeAttachReplay
  <2>1. anchor' = end /\ Admit(Client, 0)
    BY <1>7 DEF ServeAttachReplay
  <2>2. Client \in Clients
    BY <1>7, TakenCall DEF ServeAttachReplay
  <2> QED
    BY <1>1, <1>4, <2>1, <2>2, AdmitFacts
<1>8. CASE ServeCapture
  BY <1>1, <1>4, <1>8 DEF ServeCapture, viewVars
<1>9. CASE Captured
  <2>1. PICK c \in Clients, drawn \in Screens :
           Admit(c, drawn) \/ GivenUpTo(c, drawn) \/ UNCHANGED seen
    BY <1>9, CapturedFacts
  <2>2. \A other \in Clients : seen'[other] <= end
    BY <1>1, <1>4, <2>1, AdmitFacts, GivenFacts
  <2> QED
    BY <1>4, <1>9, <2>2 DEF Captured
<1>10. CASE ServeDetach \/ ServeStop \/ StopDrained \/ StopWaitTimesOut
  BY <1>5, <1>10 DEF ServeDetach, ServeStop, StopDrained, StopWaitTimesOut, EndWorker,
     workVars
<1>11. CASE NotifyExit \/ \E s \in Stoppers : RequestStop(s) \/ StopReturns(s)
  BY <1>5, <1>11 DEF NotifyExit, SayExit, RequestStop, StopReturns, workVars, viewVars
<1> QED
  BY <1>6, <1>7, <1>8, <1>9, <1>10, <1>11, LoudOrQuiet DEF Loud

\* The loop waits for an answer only while it emits; whatever else moves it
\* finds it not waiting, or stops it from waiting.
LEMMA HeldStep ==
  ASSUME Shape, ChunkHeld, StreamRange, [Next]_vars
  PROVE  ChunkHeld'
<1> USE DEF Shape
<1>1. end \in Nat /\ written \in Nat
  BY ActorBounds DEF ViewShape, StreamRange
<1>2. CASE /\ UNCHANGED <<end, written, reader>>
           /\ Reader \in waiting' => Reader \in waiting
  BY <1>2 DEF ChunkHeld
<1>3. CASE ServeEmit
  BY <1>3 DEF ServeEmit, Answer, ChunkHeld
<1>4. CASE Worker
  <2>1. waiting' \subseteq waiting
    BY <1>4 DEF Worker, SkipCancelled, ServeEmit, ServeAttachRefused,
       ServeAttachReplay, ServeCapture, ServeResyncRefused, Captured, ServeDetach,
       ServeStop, TmuxKilled, StopDrained, EndWorker, Answer, mailVars
  <2>2. ServeEmit \/ UNCHANGED <<end, written, reader>>
    BY <1>4 DEF Worker, SkipCancelled, ServeAttachRefused, ServeAttachReplay,
       ServeCapture, ServeResyncRefused, Captured, ServeDetach, ServeStop, TmuxKilled,
       StopDrained, EndWorker, streamVars
  <2> QED
    BY <1>2, <1>3, <2>1, <2>2
<1>5. CASE StopWaitTimesOut
  BY <1>2, <1>5 DEF StopWaitTimesOut, EndWorker, streamVars
<1>6. CASE StopTimesOut
  BY <1>6 DEF StopTimesOut, Cancel, ChunkHeld
<1>7. CASE CallStop
  BY <1>2, <1>7 DEF CallStop, Put, Reader, Stopper, streamVars
<1>8. CASE ReadLoop
  BY <1>1, <1>8 DEF ReadLoop, ReadChunk, BroadcastDirect, ReaderEnds, ReaderJoins,
     Put, ChunkHeld, mailVars, streamVars
<1>9. CASE Finalizer
  BY <1>2, <1>9 DEF Finalizer, FinalizerCloses, ChildReaped, Persisted, NotifyExit,
     SayExit, mailVars, streamVars
<1>10. CASE \E call \in woken : Retry(call)
  BY <1>2, <1>10 DEF Retry, streamVars
<1>11. CASE \E c \in Clients : Viewer(c)
  <2>1. PICK c \in Clients : Viewer(c)
    BY <1>11
  <2>2. Reader # c
    BY ActorBounds
  <2>3. UNCHANGED <<end, written, reader>> /\ waiting' \subseteq waiting \cup {c}
    BY <2>1 DEF Viewer, Join, Repair, Leave, GiveUpDetach, ConnectionFails, Endpoint,
       Put, Cancel, mailVars, streamVars
  <2> QED
    BY <1>2, <2>2, <2>3
<1>12. CASE ChildWrites
  BY <1>1, <1>12 DEF ChildWrites, ChunkHeld, mailVars
<1>13. CASE ChildExits \/ \E s \in Stoppers : RequestStop(s) \/ StopReturns(s)
  BY <1>2, <1>13 DEF ChildExits, RequestStop, StopReturns, mailVars, streamVars
<1>14. CASE UNCHANGED vars
  BY <1>2, <1>14 DEF vars, mailVars, streamVars
<1> QED
  BY <1>4, <1>5, <1>6, <1>7, <1>8, <1>9, <1>10, <1>11, <1>12, <1>13, <1>14
  DEF Next, Timeouts

LEMMA RangesInit == Init => Ranges
<1> SUFFICES ASSUME Init PROVE Ranges
  OBVIOUS
<1>1. MailBound
  <2>1. mailbox = <<>> /\ Len(mailbox) = 0 /\ waiting = {}
    BY DEF Init
  <2> QED
    BY <2>1, ActorBounds DEF MailBound
<1>2. EndpointRange
  BY DEF Init, EndpointRange, Doors
<1>3. WorkRange
  BY DEF Init, WorkRange, Steps, Loops, Ends
<1>4. StreamRange /\ ChunkHeld
  BY ActorBounds DEF Init, StreamRange, ChunkHeld
<1> QED
  BY <1>1, <1>2, <1>3, <1>4 DEF Ranges

LEMMA RangesAreTypes ==
  ASSUME Shape, Ranges
  PROVE  TypeOK
<1>1. MaxChunks \in Nat
  BY ActorBounds
<1>2. /\ mailbox \in Seq(Calls) /\ Len(mailbox) <= MailboxSize
      /\ putters \in Seq(Calls) /\ woken \subseteq Calls /\ waiting \subseteq Callers
  BY DEF Shape, MailShape, Ranges, MailBound
<1>3. end \in 0 .. MaxChunks /\ anchor \in 0 .. MaxChunks /\ written \in 0 .. MaxChunks
  BY <1>1 DEF Shape, ViewShape, Ranges, StreamRange
<1>4. seen \in [Clients -> 0 .. MaxChunks]
  BY <1>1, <1>3 DEF Shape, ViewShape, Ranges, StreamRange
<1> QED
  BY <1>2, <1>3, <1>4 DEF TypeOK, Shape, ViewShape, Ranges, EndpointRange, WorkRange,
     StreamRange, Steps, Loops, Ends, Doors

\* Type correctness: the mailbox keeps its bound, the stream never runs ahead of
\* what the child wrote, and no viewer's share of it ahead of the stream.
THEOREM TypeCorrect == Spec => []TypeOK
<1>1. Shape /\ Ranges /\ [Next]_vars => Ranges'
  BY BoundStep, EndpointStep, WorkStep, StreamStep, HeldStep DEF Ranges, Shape
<1> QED
  BY <1>1, RangesInit, RangesAreTypes, ShapeKept, PTL DEF Spec

-----------------------------------------------------------------------------
(***************************************************************************)
(* Nobody is stranded.  A caller has at most one call, in the mailbox,     *)
(* parked or woken; if it is parked or woken its caller waits, and whoever *)
(* waits is found in one of the three or being served.                     *)
(***************************************************************************)
Members(queue) == {queue[i] : i \in DOMAIN queue}
Distinct(queue) == \A i, j \in DOMAIN queue : queue[i].who = queue[j].who => i = j

InBox == CallersIn(mailbox)
Outside == CallersIn(putters) \cup Awake
Queued == Members(mailbox) \cup Members(putters) \cup woken

OneCallEach ==
  /\ Distinct(mailbox) /\ Distinct(putters)
  /\ IsFiniteSet(woken) /\ \A a, b \in woken : a.who = b.who => a = b
  /\ InBox \cap Outside = {} /\ CallersIn(putters) \cap Awake = {}

NoWakeUpLost == putters # <<>> => Len(mailbox) + Cardinality(woken) >= MailboxSize

InLine == MailShape /\ MailBound /\ OneCallEach /\ NoWakeUpLost

\* The head of a queue leaves it; its tail is as distinct as it was.
LEMMA TailMembers ==
  ASSUME NEW queue \in Seq(Calls), queue # <<>>, Distinct(queue)
  PROVE  /\ Tail(queue) \in Seq(Calls) /\ Distinct(Tail(queue))
         /\ Len(Tail(queue)) = Len(queue) - 1
         /\ CallersIn(Tail(queue)) = CallersIn(queue) \ {Head(queue).who}
         /\ Members(Tail(queue)) \subseteq Members(queue)
<1>1. /\ Len(queue) \in Nat \ {0} /\ Len(Tail(queue)) = Len(queue) - 1
      /\ DOMAIN queue = 1 .. Len(queue) /\ DOMAIN Tail(queue) = 1 .. Len(queue) - 1
      /\ Tail(queue) \in Seq(Calls)
      /\ \A i \in DOMAIN Tail(queue) : Tail(queue)[i] = queue[i + 1]
      /\ Head(queue) = queue[1]
  OBVIOUS
<1>2. Distinct(Tail(queue))
  BY <1>1 DEF Distinct
<1>3. Members(Tail(queue)) \subseteq Members(queue)
  BY <1>1 DEF Members
<1>4. CallersIn(Tail(queue)) \subseteq CallersIn(queue) \ {Head(queue).who}
  BY <1>1 DEF CallersIn, Distinct
<1>5. CallersIn(queue) \ {Head(queue).who} \subseteq CallersIn(Tail(queue))
  <2> SUFFICES ASSUME NEW i \in DOMAIN queue, i # 1
               PROVE  queue[i].who \in CallersIn(Tail(queue))
    BY <1>1 DEF CallersIn
  <2>1. i - 1 \in DOMAIN Tail(queue) /\ Tail(queue)[i - 1] = queue[i]
    BY <1>1
  <2> QED
    BY <2>1 DEF CallersIn
<1> QED
  BY <1>1, <1>2, <1>3, <1>4, <1>5

LEMMA AppendMembers ==
  ASSUME NEW queue \in Seq(Calls), NEW call \in Calls, Distinct(queue),
         call.who \notin CallersIn(queue)
  PROVE  /\ Append(queue, call) \in Seq(Calls) /\ Distinct(Append(queue, call))
         /\ Len(Append(queue, call)) = Len(queue) + 1
         /\ CallersIn(Append(queue, call)) = CallersIn(queue) \cup {call.who}
         /\ Members(Append(queue, call)) = Members(queue) \cup {call}
<1> DEFINE longer == Append(queue, call)
<1>1. /\ Len(queue) \in Nat /\ Len(longer) = Len(queue) + 1 /\ longer \in Seq(Calls)
      /\ DOMAIN queue = 1 .. Len(queue) /\ DOMAIN longer = 1 .. Len(queue) + 1
      /\ \A i \in DOMAIN queue : longer[i] = queue[i]
      /\ longer[Len(queue) + 1] = call
  OBVIOUS
<1> HIDE DEF longer
<1>2. DOMAIN longer = DOMAIN queue \cup {Len(queue) + 1}
  BY <1>1
<1>3. Distinct(longer)
  BY <1>1, <1>2 DEF Distinct, CallersIn
<1>4. CallersIn(longer) = CallersIn(queue) \cup {call.who}
  BY <1>1, <1>2 DEF CallersIn
<1>5. Members(longer) = Members(queue) \cup {call}
  BY <1>1, <1>2 DEF Members
<1> QED
  BY <1>1, <1>3, <1>4, <1>5 DEF longer

LEMMA SuffixFacts ==
  ASSUME NEW queue \in Seq(Calls), NEW k \in 0 .. Len(queue)
  PROVE  LET rest == SubSeq(queue, k + 1, Len(queue))
         IN /\ rest \in Seq(Calls) /\ Len(rest) = Len(queue) - k
            /\ DOMAIN rest = 1 .. Len(queue) - k
            /\ \A i \in 1 .. Len(queue) - k : rest[i] = queue[i + k]
<1> DEFINE rest == SubSeq(queue, k + 1, Len(queue))
<1>1. Len(queue) \in Nat /\ k \in Nat /\ k <= Len(queue)
      /\ \A i \in k + 1 .. Len(queue) : queue[i] \in Calls
  OBVIOUS
<1>2. /\ rest \in Seq(Calls)
      /\ Len(rest) = IF k + 1 <= Len(queue) THEN Len(queue) - (k + 1) + 1 ELSE 0
      /\ \A i \in 1 .. Len(queue) - (k + 1) + 1 : rest[i] = queue[k + 1 + i - 1]
  BY <1>1, SubSeqProperties
<1> HIDE DEF rest
<1>3. Len(rest) = Len(queue) - k
  BY <1>1, <1>2
<1>4. DOMAIN rest = 1 .. Len(queue) - k
  BY <1>2, <1>3
<1>5. ASSUME NEW i \in 1 .. Len(queue) - k
      PROVE  rest[i] = queue[i + k]
  <2>1. k + 1 + i - 1 = i + k /\ i \in 1 .. Len(queue) - (k + 1) + 1
    BY <1>1
  <2> QED
    BY <1>2, <2>1
<1> QED
  BY <1>2, <1>3, <1>4, <1>5 DEF rest

\* A queue is what is cut off its front and what is left.
LEMMA CutMembers ==
  ASSUME NEW queue \in Seq(Calls), Distinct(queue), NEW k \in 0 .. Len(queue)
  PROVE  LET rest == SubSeq(queue, k + 1, Len(queue))
             front == {queue[i] : i \in 1 .. k}
         IN /\ rest \in Seq(Calls) /\ Distinct(rest)
            /\ Len(rest) = Len(queue) - k
            /\ CallersIn(queue) = CallersIn(rest) \cup {call.who : call \in front}
            /\ CallersIn(rest) \cap {call.who : call \in front} = {}
            /\ Members(queue) = Members(rest) \cup front
            /\ front \subseteq Calls
            /\ \A a, b \in front : a.who = b.who => a = b
<1> DEFINE rest == SubSeq(queue, k + 1, Len(queue))
           front == {queue[i] : i \in 1 .. k}
<1>1. /\ Len(queue) \in Nat /\ k \in Nat /\ k <= Len(queue)
      /\ DOMAIN queue = 1 .. Len(queue)
      /\ \A i \in DOMAIN queue : queue[i] \in Calls
  OBVIOUS
<1>2. /\ rest \in Seq(Calls) /\ Len(rest) = Len(queue) - k
      /\ DOMAIN rest = 1 .. Len(queue) - k
      /\ \A i \in DOMAIN rest : rest[i] = queue[i + k]
  BY SuffixFacts
<1> HIDE DEF rest
<1>3. Distinct(rest)
  <2> SUFFICES ASSUME NEW i \in DOMAIN rest, NEW j \in DOMAIN rest,
                      rest[i].who = rest[j].who
               PROVE  i = j
    BY DEF Distinct
  <2>1. i \in Nat /\ j \in Nat /\ i + k \in DOMAIN queue /\ j + k \in DOMAIN queue
    BY <1>1, <1>2
  <2>2. queue[i + k].who = queue[j + k].who
    BY <1>2
  <2>3. i + k = j + k
    BY <2>1, <2>2 DEF Distinct
  <2> QED
    BY <1>1, <2>1, <2>3
<1>4. \A i \in DOMAIN queue :
        i \in 1 .. k \/ (i - k \in DOMAIN rest /\ rest[i - k] = queue[i])
  BY <1>1, <1>2
<1>5. \A i \in DOMAIN rest : i + k \in DOMAIN queue /\ i + k \notin 1 .. k
  BY <1>1, <1>2
<1>6. 1 .. k \subseteq DOMAIN queue
  BY <1>1
<1>7. Members(queue) = Members(rest) \cup front
  <2>1. Members(queue) \subseteq Members(rest) \cup front
    BY <1>4 DEF Members
  <2>2. Members(rest) \cup front \subseteq Members(queue)
    BY <1>2, <1>5, <1>6 DEF Members
  <2> QED
    BY <2>1, <2>2
<1>8. CallersIn(queue) = CallersIn(rest) \cup {call.who : call \in front}
  <2>1. CallersIn(queue) \subseteq CallersIn(rest) \cup {call.who : call \in front}
    BY <1>4 DEF CallersIn
  <2>2. CallersIn(rest) \cup {call.who : call \in front} \subseteq CallersIn(queue)
    BY <1>2, <1>5, <1>6 DEF CallersIn
  <2> QED
    BY <2>1, <2>2
<1>9. CallersIn(rest) \cap {call.who : call \in front} = {}
  <2> SUFFICES ASSUME NEW i \in DOMAIN rest, NEW j \in 1 .. k, rest[i].who = queue[j].who
               PROVE  FALSE
    BY DEF CallersIn
  <2>1. i + k \in DOMAIN queue /\ j \in DOMAIN queue /\ queue[i + k].who = queue[j].who
    BY <1>2, <1>5, <1>6
  <2>2. i + k = j
    BY <2>1 DEF Distinct
  <2> QED
    BY <1>5, <2>2
<1>10. front \subseteq Calls /\ \A a, b \in front : a.who = b.who => a = b
  BY <1>1, <1>6 DEF Distinct
<1> QED
  BY <1>2, <1>3, <1>7, <1>8, <1>9, <1>10 DEF rest

\* A cancelled caller, and nobody else, leaves the queue of parked ones.
LEMMA UnparkedMembers ==
  ASSUME putters \in Seq(Calls), Distinct(putters), NEW who
  PROVE  /\ Unparked(who) \in Seq(Calls) /\ Distinct(Unparked(who))
         /\ CallersIn(Unparked(who)) = CallersIn(putters) \ {who}
         /\ Members(Unparked(who)) \subseteq Members(putters)
         /\ putters = <<>> => Unparked(who) = <<>>
<1> DEFINE at == {i \in DOMAIN putters : putters[i].who = who}
           i == CHOOSE n \in at : TRUE
           rest == Unparked(who)
<1>1. Len(putters) \in Nat /\ DOMAIN putters = 1 .. Len(putters)
  OBVIOUS
<1>2. CASE at = {}
  <2>1. rest = putters
    BY <1>2 DEF Unparked
  <2>2. who \notin CallersIn(putters)
    BY <1>2 DEF CallersIn
  <2> QED
    BY <2>1, <2>2
<1>3. CASE at # {}
  <2>1. i \in 1 .. Len(putters) /\ putters[i].who = who
    BY <1>1, <1>3
  <2>2. rest = SubSeq(putters, 1, i - 1) \o SubSeq(putters, i + 1, Len(putters))
    BY <1>3 DEF Unparked
  <2> HIDE DEF i, rest
  <2> DEFINE left == SubSeq(putters, 1, i - 1)
             right == SubSeq(putters, i + 1, Len(putters))
  <2>3. /\ left \in Seq(Calls) /\ Len(left) = i - 1 /\ DOMAIN left = 1 .. i - 1
        /\ \A n \in 1 .. i - 1 : left[n] = putters[n]
    BY <1>1, <2>1, SubSeqProperties
  <2>4. /\ right \in Seq(Calls) /\ Len(right) = Len(putters) - i
        /\ DOMAIN right = 1 .. Len(putters) - i
        /\ \A n \in 1 .. Len(putters) - i : right[n] = putters[n + i]
    <3>1. i \in 0 .. Len(putters)
      BY <1>1, <2>1
    <3> QED
      BY <3>1, SuffixFacts
  <2>5. rest = left \o right
    BY <2>2
  <2> HIDE DEF left, right
  <2>6. /\ rest \in Seq(Calls) /\ DOMAIN rest = 1 .. Len(putters) - 1
        /\ \A n \in 1 .. Len(putters) - 1 :
             rest[n] = IF n <= i - 1 THEN left[n] ELSE right[n - (i - 1)]
    <3>1. /\ rest \in Seq(Calls) /\ Len(rest) = Len(left) + Len(right)
          /\ \A n \in 1 .. Len(left) + Len(right) :
               rest[n] = IF n <= Len(left) THEN left[n] ELSE right[n - Len(left)]
      BY <2>3, <2>4, <2>5, ConcatProperties
    <3>2. Len(left) + Len(right) = Len(putters) - 1
      BY <1>1, <2>1, <2>3, <2>4
    <3> QED
      BY <2>3, <3>1, <3>2
  <2>7. \A n \in DOMAIN rest :
          /\ n < i => n \in DOMAIN putters /\ rest[n] = putters[n]
          /\ n >= i => n + 1 \in DOMAIN putters /\ rest[n] = putters[n + 1]
    BY <1>1, <2>1, <2>3, <2>4, <2>6
  <2>8. Distinct(rest)
    <3> SUFFICES ASSUME NEW m \in DOMAIN rest, NEW n \in DOMAIN rest,
                        rest[m].who = rest[n].who
                 PROVE  m = n
      BY DEF Distinct
    <3> DEFINE At(x) == IF x < i THEN x ELSE x + 1
    <3>1. m \in Nat /\ n \in Nat /\ i \in Nat
      BY <1>1, <2>1, <2>6
    <3>2. \A x \in DOMAIN rest : At(x) \in DOMAIN putters /\ rest[x] = putters[At(x)]
      BY <2>1, <2>6, <2>7
    <3>3. putters[At(m)].who = putters[At(n)].who
      BY <3>2
    <3> HIDE DEF At
    <3>4. At(m) = At(n)
      BY <1>1, <3>2, <3>3 DEF Distinct
    <3> QED
      BY <3>1, <3>4 DEF At
  <2>9. Members(rest) \subseteq Members(putters)
    BY <2>1, <2>6, <2>7 DEF Members
  <2>10. CallersIn(rest) \subseteq CallersIn(putters) \ {who}
    <3> SUFFICES ASSUME NEW n \in DOMAIN rest
                 PROVE  rest[n].who \in CallersIn(putters) /\ rest[n].who # who
      BY DEF CallersIn
    <3> DEFINE m == IF n < i THEN n ELSE n + 1
    <3>1. m \in DOMAIN putters /\ rest[n] = putters[m] /\ m # i
      BY <2>1, <2>6, <2>7
    <3> HIDE DEF m
    <3>2. putters[m].who # who
      BY <1>1, <2>1, <3>1 DEF Distinct
    <3> QED
      BY <3>1, <3>2 DEF CallersIn
  <2>11. CallersIn(putters) \ {who} \subseteq CallersIn(rest)
    <3> SUFFICES ASSUME NEW n \in DOMAIN putters, n # i
                 PROVE  putters[n].who \in CallersIn(rest)
      BY <2>1 DEF CallersIn
    <3>1. CASE n < i
      <4>1. n \in DOMAIN rest
        BY <1>1, <2>1, <2>6, <3>1
      <4> QED
        BY <2>7, <3>1, <4>1 DEF CallersIn
    <3>2. CASE n > i
      <4>1. n - 1 \in DOMAIN rest /\ n - 1 >= i /\ n - 1 + 1 = n
        BY <1>1, <2>1, <2>6, <3>2
      <4> QED
        BY <2>7, <4>1 DEF CallersIn
    <3> QED
      BY <1>1, <2>1, <3>1, <3>2
  <2>12. putters # <<>>
    BY <1>1, <2>1
  <2> QED
    BY <2>6, <2>8, <2>9, <2>10, <2>11, <2>12 DEF rest
<1> QED
  BY <1>2, <1>3
-----------------------------------------------------------------------------
(***************************************************************************)
(* What each way of touching the queues does to them.                      *)
(***************************************************************************)
LEMMA InLineTypes ==
  ASSUME InLine
  PROVE  /\ mailbox \in Seq(Calls) /\ putters \in Seq(Calls) /\ woken \subseteq Calls
         /\ Len(mailbox) \in Nat /\ Len(putters) \in Nat /\ MailboxSize \in Nat
         /\ MailboxSize > 0 /\ Cardinality(woken) \in Nat
         /\ DOMAIN putters = 1 .. Len(putters) /\ DOMAIN mailbox = 1 .. Len(mailbox)
  BY ActorBounds, FS_CardinalityType DEF InLine, MailShape, OneCallEach

LEMMA PutInLine ==
  ASSUME InLine, NEW op, NEW who \in Callers, [op |-> op, who |-> who] \in Calls,
         who \notin InBox \cup Outside, Put(op, who)
  PROVE  /\ InLine' /\ waiting' = waiting \cup {who}
         /\ InBox \subseteq InBox' /\ Outside \subseteq Outside'
         /\ InBox' \cup Outside' = InBox \cup Outside \cup {who}
         /\ Queued' = Queued \cup {[op |-> op, who |-> who]}
<1> DEFINE call == [op |-> op, who |-> who]
<1>1. /\ MailShape' /\ MailBound' /\ waiting' = waiting \cup {who} /\ woken' = woken
  BY PutShape, PutBound DEF InLine, Put
<1>2. call \in Calls /\ call.who = who
  OBVIOUS
<1>3. CASE Full
  <2>1. mailbox' = mailbox /\ putters' = Append(putters, call)
    BY <1>3 DEF Put
  <2> HIDE DEF call
  <2>2. /\ Distinct(putters') /\ CallersIn(putters') = CallersIn(putters) \cup {who}
        /\ Members(putters') = Members(putters) \cup {call}
    BY <1>2, <2>1, InLineTypes, AppendMembers DEF InLine, OneCallEach, Outside
  <2>3. OneCallEach'
    BY <1>1, <2>1, <2>2 DEF InLine, OneCallEach, InBox, Outside, Awake
  <2>4. NoWakeUpLost'
    BY <1>1, <1>3, <2>1, InLineTypes DEF NoWakeUpLost, Full
  <2> QED
    BY <1>1, <2>1, <2>2, <2>3, <2>4 DEF InLine, InBox, Outside, Awake, Queued, call
<1>4. CASE ~Full
  <2>1. putters' = putters /\ mailbox' = Append(mailbox, call)
    BY <1>4 DEF Put
  <2> HIDE DEF call
  <2>2. /\ Distinct(mailbox') /\ CallersIn(mailbox') = CallersIn(mailbox) \cup {who}
        /\ Members(mailbox') = Members(mailbox) \cup {call}
        /\ Len(mailbox') = Len(mailbox) + 1
    BY <1>2, <2>1, InLineTypes, AppendMembers DEF InLine, OneCallEach, InBox
  <2>3. OneCallEach'
    BY <1>1, <2>1, <2>2 DEF InLine, OneCallEach, InBox, Outside, Awake
  <2>4. NoWakeUpLost'
    BY <1>1, <2>1, <2>2, InLineTypes DEF InLine, NoWakeUpLost
  <2> QED
    BY <1>1, <2>1, <2>2, <2>3, <2>4 DEF InLine, InBox, Outside, Awake, Queued, call
<1> QED
  BY <1>3, <1>4

\* Waking moves callers from the parked to the woken and forgets nobody.
LEMMA WakeInLine ==
  ASSUME InLine, NEW n \in Nat, Wake(n)
  PROVE  /\ Distinct(putters') /\ IsFiniteSet(woken')
         /\ \A a, b \in woken' : a.who = b.who => a = b
         /\ (CallersIn(putters) \cap Awake = {})' /\ Outside' = Outside
         /\ Members(putters') \cup woken' = Members(putters) \cup woken
         /\ n = 1 /\ putters # <<>> => Cardinality(woken') = Cardinality(woken) + 1
         /\ n >= Len(putters) => putters' = <<>>
<1> DEFINE k == IF n < Len(putters) THEN n ELSE Len(putters)
           front == {putters[i] : i \in 1 .. k}
           rest == SubSeq(putters, k + 1, Len(putters))
<1> Len(putters) \in Nat
  BY InLineTypes
<1>1. k \in 0 .. Len(putters) /\ (n >= Len(putters) => k = Len(putters))
  OBVIOUS
<1>2. woken' = woken \cup front /\ putters' = rest
  BY DEF Wake
<1>3. /\ rest \in Seq(Calls) /\ Distinct(rest) /\ Len(rest) = Len(putters) - k
      /\ CallersIn(putters) = CallersIn(rest) \cup {call.who : call \in front}
      /\ CallersIn(rest) \cap {call.who : call \in front} = {}
      /\ Members(putters) = Members(rest) \cup front
      /\ front \subseteq Calls /\ \A a, b \in front : a.who = b.who => a = b
  BY <1>1, InLineTypes, CutMembers DEF InLine, OneCallEach
<1>4. IsFiniteSet(front)
  <2>1. IsFiniteSet(1 .. k)
    <3>1. 1 \in Int /\ k \in Int
      BY <1>1
    <3> QED
      BY <3>1, FS_Interval
  <2> DEFINE f == [i \in 1 .. k |-> putters[i]]
  <2>2. f \in Surjection(1 .. k, front)
    BY DEF Surjection
  <2> QED
    BY <2>1, <2>2, FS_Surjection
<1>5. n = 1 /\ putters # <<>> => front = {putters[1]} /\ putters[1].who \in CallersIn(putters)
  <2> SUFFICES ASSUME n = 1, putters # <<>>
               PROVE  front = {putters[1]} /\ putters[1].who \in CallersIn(putters)
    OBVIOUS
  <2>1. k = 1 /\ 1 \in DOMAIN putters
    BY InLineTypes
  <2> QED
    BY <2>1 DEF CallersIn
<1> HIDE DEF k, front, rest
<1>6. IsFiniteSet(woken')
  BY <1>2, <1>4, FS_Union DEF InLine, OneCallEach
<1>7. n = 1 /\ putters # <<>> => Cardinality(woken') = Cardinality(woken) + 1
  <2> SUFFICES ASSUME n = 1, putters # <<>>
               PROVE  Cardinality(woken') = Cardinality(woken) + 1
    OBVIOUS
  <2>1. putters[1] \notin woken
    BY <1>5 DEF InLine, OneCallEach, Awake
  <2> QED
    BY <1>2, <1>5, <2>1, FS_AddElement DEF InLine, OneCallEach
<1>8. \A a, b \in woken' : a.who = b.who => a = b
  BY <1>2, <1>3 DEF InLine, OneCallEach, Awake
<1>9. Awake' = Awake \cup {call.who : call \in front}
  BY <1>2 DEF Awake
<1>10. (CallersIn(putters) \cap Awake = {})' /\ Outside' = Outside
  BY <1>2, <1>3, <1>9 DEF InLine, OneCallEach, Outside
<1>11. n >= Len(putters) => putters' = <<>>
  BY <1>1, <1>2, <1>3, InLineTypes
<1> QED
  BY <1>2, <1>3, <1>6, <1>7, <1>8, <1>10, <1>11

LEMMA GetInLine ==
  ASSUME InLine, mailbox # <<>>, Get, waiting' \subseteq waiting
  PROVE  /\ InLine'
         /\ Head(mailbox).who \in InBox /\ Head(mailbox) \in Queued
         /\ InBox' = InBox \ {Head(mailbox).who}
         /\ Outside' = Outside /\ Queued' \subseteq Queued
<1>1. MailShape' /\ MailBound'
  BY GetShape, GetBound DEF InLine, MailBound
<1>2. mailbox' = Tail(mailbox) /\ Wake(1)
  BY DEF Get
<1>3. /\ Distinct(mailbox') /\ Len(mailbox') = Len(mailbox) - 1
      /\ InBox' = InBox \ {Head(mailbox).who} /\ Members(mailbox') \subseteq Members(mailbox)
  BY <1>2, InLineTypes, TailMembers DEF InLine, OneCallEach, InBox
<1>4. /\ Distinct(putters') /\ IsFiniteSet(woken')
      /\ \A a, b \in woken' : a.who = b.who => a = b
      /\ (CallersIn(putters) \cap Awake = {})' /\ Outside' = Outside
      /\ Members(putters') \cup woken' = Members(putters) \cup woken
      /\ putters # <<>> => Cardinality(woken') = Cardinality(woken) + 1
      /\ 1 >= Len(putters) => putters' = <<>>
  BY <1>2, WakeInLine
<1>5. OneCallEach'
  BY <1>3, <1>4 DEF InLine, OneCallEach
<1>6. NoWakeUpLost'
  <2>1. putters = <<>> => putters' = <<>>
    BY <1>4
  <2> QED
    BY <1>3, <1>4, <2>1, InLineTypes DEF InLine, NoWakeUpLost
<1>7. Head(mailbox).who \in InBox /\ Head(mailbox) \in Queued
  <2>1. Head(mailbox) = mailbox[1] /\ 1 \in DOMAIN mailbox
    BY InLineTypes
  <2> QED
    BY <2>1 DEF InBox, CallersIn, Queued, Members
<1> QED
  BY <1>1, <1>3, <1>4, <1>5, <1>6, <1>7 DEF InLine, Queued

LEMMA RetryInLine ==
  ASSUME InLine, NEW call \in woken, Retry(call)
  PROVE  /\ InLine' /\ call.who \in Awake /\ Queued' \subseteq Queued
         /\ Full => InBox' = InBox /\ Outside' = Outside
         /\ ~Full => /\ InBox' = InBox \cup {call.who}
                     /\ Outside' = Outside \ {call.who} /\ putters' = putters
         /\ ~Full => /\ Awake' = Awake \ {call.who}
                     /\ Len(mailbox') = Len(mailbox) + 1
                     /\ Cardinality(woken') = Cardinality(woken) - 1
<1>1. MailShape' /\ woken' = woken \ {call} /\ call \in Calls
  BY RetryShape, InLineTypes DEF InLine, Retry
<1>2. /\ IsFiniteSet(woken') /\ Cardinality(woken') = Cardinality(woken) - 1
      /\ Cardinality(woken') \in Nat
      /\ \A a, b \in woken' : a.who = b.who => a = b
  BY <1>1, FS_RemoveElement, FS_CardinalityType DEF InLine, OneCallEach
<1>3. Awake' = Awake \ {call.who} /\ call.who \in Awake
  BY <1>1 DEF InLine, OneCallEach, Awake
<1>4. call.who \notin InBox /\ call.who \notin CallersIn(putters)
  BY <1>3 DEF InLine, OneCallEach, Outside
<1>5. CASE Full
  <2>1. mailbox' = mailbox /\ putters' = Append(putters, call) /\ waiting' = waiting
    BY <1>5 DEF Retry
  <2>2. /\ Distinct(putters') /\ CallersIn(putters') = CallersIn(putters) \cup {call.who}
        /\ Members(putters') = Members(putters) \cup {call}
    BY <1>1, <1>4, <2>1, InLineTypes, AppendMembers DEF InLine, OneCallEach
  <2>3. InBox' = InBox /\ Outside' = Outside
    BY <1>3, <2>1, <2>2 DEF InBox, Outside
  <2>4. OneCallEach'
    BY <1>2, <1>3, <2>1, <2>2, <2>3 DEF InLine, OneCallEach
  <2>5. NoWakeUpLost' /\ MailBound'
    BY <1>2, <1>5, <2>1, InLineTypes DEF InLine, NoWakeUpLost, Full, MailBound
  <2> QED
    BY <1>1, <1>3, <1>5, <2>1, <2>2, <2>3, <2>4, <2>5 DEF InLine, Queued
<1>6. CASE ~Full
  <2>1. putters' = putters /\ mailbox' = Append(mailbox, call) /\ waiting' \subseteq waiting
    BY <1>6 DEF Retry
  <2>2. /\ Distinct(mailbox') /\ CallersIn(mailbox') = CallersIn(mailbox) \cup {call.who}
        /\ Members(mailbox') = Members(mailbox) \cup {call}
        /\ Len(mailbox') = Len(mailbox) + 1
    BY <1>1, <1>4, <2>1, InLineTypes, AppendMembers DEF InLine, OneCallEach, InBox
  <2>3. InBox' = InBox \cup {call.who} /\ Outside' = Outside \ {call.who}
    BY <1>3, <1>4, <2>1, <2>2 DEF InBox, Outside
  <2>4. OneCallEach'
    BY <1>2, <1>3, <2>1, <2>2, <2>3 DEF InLine, OneCallEach
  <2>5. Len(mailbox) < MailboxSize
    BY <1>6, InLineTypes DEF Full
  <2>6. NoWakeUpLost' /\ MailBound'
    BY <1>2, <2>1, <2>2, <2>5, InLineTypes DEF InLine, NoWakeUpLost, MailBound
  <2> QED
    BY <1>1, <1>2, <1>3, <1>6, <2>1, <2>2, <2>3, <2>4, <2>6 DEF InLine, Queued
<1> QED
  BY <1>5, <1>6

\* A cancelled caller hands on the wake-up it can no longer use.
LEMMA CancelInLine ==
  ASSUME InLine, NEW who, Cancel(who)
  PROVE  /\ InLine' /\ InBox' = InBox /\ Outside' = Outside \ {who}
         /\ Queued' \subseteq Queued /\ waiting' = waiting \ {who}
         /\ putters = <<>> => /\ putters' = <<>> /\ Awake' = Awake \ {who}
                              /\ Cardinality(woken') <= Cardinality(woken)
<1> DEFINE mine == {call \in woken : call.who = who}
           rest == Unparked(who)
           k == IF mine # {} /\ ~Full /\ rest # <<>> THEN 1 ELSE 0
           front == {rest[i] : i \in 1 .. k}
           left == SubSeq(rest, k + 1, Len(rest))
<1>1. /\ mailbox' = mailbox /\ waiting' = waiting \ {who} /\ putters' = left
      /\ woken' = (woken \ mine) \cup front
  BY DEF Cancel
<1>2. /\ rest \in Seq(Calls) /\ Distinct(rest)
      /\ CallersIn(rest) = CallersIn(putters) \ {who}
      /\ Members(rest) \subseteq Members(putters)
      /\ putters = <<>> => rest = <<>>
  BY InLineTypes, UnparkedMembers DEF InLine, OneCallEach
<1> HIDE DEF rest
<1>3. k \in 0 .. Len(rest) /\ (k = 0 \/ k = 1)
  BY <1>2
<1>4. /\ left \in Seq(Calls) /\ Distinct(left) /\ Len(left) = Len(rest) - k
      /\ CallersIn(rest) = CallersIn(left) \cup {call.who : call \in front}
      /\ CallersIn(left) \cap {call.who : call \in front} = {}
      /\ Members(rest) = Members(left) \cup front
      /\ front \subseteq Calls /\ \A a, b \in front : a.who = b.who => a = b
  BY <1>2, <1>3, CutMembers
<1>5. k = 0 => front = {} /\ left = rest
  <2> SUFFICES ASSUME k = 0 PROVE front = {} /\ left = rest
    OBVIOUS
  <2>1. left = SubSeq(rest, 1, Len(rest)) /\ front = {}
    OBVIOUS
  <2> QED
    BY <1>2, <2>1
<1>6. k = 1 => /\ front = {rest[1]} /\ rest[1].who \in CallersIn(rest)
               /\ mine # {} /\ ~Full
  <2>1. k = 1 => 1 \in DOMAIN rest /\ 1 .. k = {1} /\ mine # {} /\ ~Full
    BY <1>2
  <2> QED
    BY <2>1 DEF CallersIn
<1>7. mine = {} \/ \E call \in woken : mine = {call} /\ call.who = who
  BY DEF InLine, OneCallEach
<1> HIDE DEF mine, front, left
<1>8. MailShape' /\ MailBound'
  BY <1>1, CancelShape DEF InLine, MailBound
<1>9. /\ {call.who : call \in woken \ mine} = Awake \ {who}
      /\ \A a, b \in woken \ mine : a.who = b.who => a = b
  BY DEF mine, Awake, InLine, OneCallEach
<1>10. Awake' = (Awake \ {who}) \cup {call.who : call \in front}
  BY <1>1, <1>9 DEF Awake
<1>11. InBox' = InBox /\ Outside' = Outside \ {who} /\ Queued' \subseteq Queued
  <2>1. Outside' = CallersIn(left) \cup (Awake \ {who}) \cup {call.who : call \in front}
    BY <1>1, <1>10 DEF Outside
  <2>2. Queued' \subseteq Queued
    BY <1>1, <1>2, <1>4 DEF Queued
  <2> QED
    BY <1>1, <1>2, <1>4, <2>1, <2>2 DEF InBox, Outside
<1>12. /\ IsFiniteSet(woken \ mine) /\ IsFiniteSet(woken')
       /\ Cardinality(woken \ mine) = Cardinality(woken) - (IF mine = {} THEN 0 ELSE 1)
       /\ k = 0 => woken' = woken \ mine
       /\ k = 1 => Cardinality(woken') = Cardinality(woken)
       /\ Cardinality(woken') \in Nat
  <2>1. /\ IsFiniteSet(woken \ mine)
        /\ Cardinality(woken \ mine) = Cardinality(woken) - (IF mine = {} THEN 0 ELSE 1)
    <3>1. CASE mine = {}
      <4>1. woken \ mine = woken
        BY <3>1
      <4> QED
        BY <3>1, <4>1, InLineTypes DEF InLine, OneCallEach
    <3>2. CASE mine # {}
      BY <1>7, <3>2, FS_RemoveElement DEF InLine, OneCallEach
    <3> QED
      BY <3>1, <3>2
  <2>2. CASE k = 0
    <3>1. woken' = woken \ mine
      BY <1>1, <1>5, <2>2
    <3> QED
      BY <2>1, <2>2, <3>1, FS_CardinalityType
  <2>3. CASE k = 1
    <3>1. rest[1] \notin woken
      BY <1>2, <1>6, <2>3 DEF InLine, OneCallEach, Awake
    <3>2. woken' = (woken \ mine) \cup {rest[1]} /\ mine # {}
      BY <1>1, <1>6, <2>3
    <3>3. /\ IsFiniteSet(woken')
          /\ Cardinality(woken') = Cardinality(woken \ mine) + 1
      BY <2>1, <3>1, <3>2, FS_AddElement
    <3> QED
      BY <2>1, <2>3, <3>2, <3>3, InLineTypes
  <2> QED
    BY <1>3, <2>1, <2>2, <2>3
<1>13. \A a, b \in woken' : a.who = b.who => a = b
  BY <1>1, <1>2, <1>4, <1>9 DEF InLine, OneCallEach, Awake
<1>14. OneCallEach'
  <2>1. CallersIn(putters') \cap Awake' = {}
    BY <1>1, <1>2, <1>4, <1>10 DEF InLine, OneCallEach
  <2>2. (InBox \cap Outside = {})' /\ Distinct(mailbox') /\ Distinct(putters')
    BY <1>1, <1>4, <1>11 DEF InLine, OneCallEach
  <2> QED
    BY <1>12, <1>13, <2>1, <2>2 DEF OneCallEach
<1>15. NoWakeUpLost'
  <2> SUFFICES ASSUME putters' # <<>>
               PROVE  Len(mailbox) + Cardinality(woken') >= MailboxSize
    BY <1>1 DEF NoWakeUpLost
  <2>1. rest # <<>>
    <3> SUFFICES ASSUME rest = <<>> PROVE FALSE
      OBVIOUS
    <3>1. Len(rest) = 0
      OBVIOUS
    <3>2. Len(left) = 0
      BY <1>3, <1>4, <3>1
    <3> QED
      BY <1>1, <1>4, <3>2
  <2>2. Len(mailbox) + Cardinality(woken) >= MailboxSize
    BY <1>2, <2>1 DEF InLine, NoWakeUpLost
  <2>3. CASE Full
    BY <1>12, <2>3, InLineTypes DEF Full
  <2>4. CASE mine = {}
    <3>1. k = 0
      BY <2>4
    <3> QED
      BY <1>12, <2>2, <2>4, <3>1, InLineTypes
  <2>5. CASE ~Full /\ mine # {}
    <3>1. k = 1
      BY <2>1, <2>5
    <3> QED
      BY <1>12, <2>2, <3>1
  <2> QED
    BY <2>3, <2>4, <2>5
<1>16. putters = <<>> => /\ putters' = <<>> /\ Awake' = Awake \ {who}
                         /\ Cardinality(woken') <= Cardinality(woken)
  <2> SUFFICES ASSUME putters = <<>>
               PROVE  /\ putters' = <<>> /\ Awake' = Awake \ {who}
                      /\ Cardinality(woken') <= Cardinality(woken)
    OBVIOUS
  <2>1. rest = <<>> /\ k = 0
    BY <1>2
  <2>2. left = <<>> /\ front = {}
    BY <1>5, <2>1
  <2>3. Cardinality(woken') <= Cardinality(woken)
    <3>1. Cardinality(woken') = Cardinality(woken \ mine)
      BY <1>12, <2>1
    <3>2. Cardinality(woken) \in Nat
      BY InLineTypes
    <3> HIDE DEF k
    <3> QED
      BY <1>12, <3>1, <3>2
  <2> QED
    BY <1>1, <1>10, <2>2, <2>3
<1> QED
  BY <1>1, <1>8, <1>11, <1>14, <1>15, <1>16 DEF InLine

\* As many callers as calls, when no two calls are of one caller.
LEMMA CallersOfSet ==
  ASSUME NEW S, IsFiniteSet(S), \A a, b \in S : a.who = b.who => a = b
  PROVE  LET T == {call.who : call \in S}
         IN IsFiniteSet(T) /\ Cardinality(T) = Cardinality(S)
<1> DEFINE T == {call.who : call \in S}
           f == [call \in S |-> call.who]
<1>1. f \in [S -> T] /\ \A call \in S : f[call] = call.who
  OBVIOUS
<1> HIDE DEF f
<1>2. f \in Injection(S, T)
  BY <1>1 DEF Injection, IsInjective
<1>3. f \in Surjection(S, T)
  BY <1>1 DEF Surjection
<1> QED
  BY <1>2, <1>3, FS_Surjection

LEMMA CallersOfQueue ==
  ASSUME NEW queue \in Seq(Calls), Distinct(queue)
  PROVE  IsFiniteSet(CallersIn(queue)) /\ Cardinality(CallersIn(queue)) = Len(queue)
<1> DEFINE n == Len(queue)
           f == [i \in 1 .. n |-> queue[i].who]
<1>1. n \in Nat /\ DOMAIN queue = 1 .. n
  OBVIOUS
<1>2. IsFiniteSet(1 .. n) /\ Cardinality(1 .. n) = n
  <2> HIDE DEF n
  <2>1. 1 \in Int /\ n \in Int /\ n >= 0
    BY <1>1
  <2>2. IsFiniteSet(1 .. n) /\ Cardinality(1 .. n) = IF 1 > n THEN 0 ELSE n - 1 + 1
    BY <2>1, FS_Interval
  <2> QED
    BY <2>1, <2>2
<1>3. f \in [1 .. n -> CallersIn(queue)] /\ \A i \in 1 .. n : f[i] = queue[i].who
  BY <1>1 DEF CallersIn
<1> HIDE DEF f, n
<1>4. f \in Injection(1 .. n, CallersIn(queue))
  BY <1>1, <1>3 DEF Injection, IsInjective, Distinct
<1>5. f \in Surjection(1 .. n, CallersIn(queue))
  BY <1>1, <1>3 DEF Surjection, CallersIn
<1> QED
  BY <1>2, <1>4, <1>5, FS_Surjection DEF n

\* What _fail_pending leaves: whoever was parked is awake, and there is a place
\* for each of them.  This is what the bound on the viewers is for.
LEMMA EndWorkerInLine ==
  ASSUME InLine, EndWorker, Outside \subseteq Clients
  PROVE  /\ InLine' /\ InBox' = {} /\ Outside' = Outside /\ Queued' \subseteq Queued
         /\ putters' = <<>> /\ Awake' = Outside
         /\ Len(mailbox') + Cardinality(woken') <= MailboxSize
<1>1. mailbox' = <<>> /\ Wake(Len(mailbox)) /\ waiting' \subseteq waiting
  BY DEF EndWorker
<1>2. /\ Distinct(putters') /\ IsFiniteSet(woken')
      /\ \A a, b \in woken' : a.who = b.who => a = b
      /\ (CallersIn(putters) \cap Awake = {})' /\ Outside' = Outside
      /\ Members(putters') \cup woken' = Members(putters) \cup woken
      /\ Len(mailbox) >= Len(putters) => putters' = <<>>
  BY <1>1, InLineTypes, WakeInLine
<1>3. Len(putters) + Cardinality(woken) <= Cardinality(Outside)
      /\ Cardinality(Outside) <= Cardinality(Clients) /\ Cardinality(Outside) \in Nat
  <2>1. IsFiniteSet(Clients)
    BY ActorBounds
  <2>3. IsFiniteSet(CallersIn(putters)) /\ Cardinality(CallersIn(putters)) = Len(putters)
    BY InLineTypes, CallersOfQueue DEF InLine, OneCallEach
  <2>4. IsFiniteSet(Awake) /\ Cardinality(Awake) = Cardinality(woken)
    BY CallersOfSet DEF InLine, OneCallEach, Awake
  <2>5. CallersIn(putters) \cap Awake = {} /\ Cardinality({}) = 0
    BY FS_EmptySet DEF InLine, OneCallEach
  <2>6. Cardinality(Outside) = Len(putters) + Cardinality(woken) - 0
    BY <2>3, <2>4, <2>5, FS_Union DEF Outside
  <2>7. Cardinality(Outside) <= Cardinality(Clients) /\ IsFiniteSet(Outside)
    BY <2>1, FS_Subset
  <2> QED
    BY <2>6, <2>7, FS_CardinalityType, InLineTypes
<1>4. Cardinality(Clients) <= MailboxSize /\ Cardinality(Clients) \in Nat
  BY ActorBounds, FS_CardinalityType
<1>5. putters' = <<>>
  <2>1. CASE putters = <<>>
    BY <1>2, <2>1, InLineTypes
  <2>2. CASE putters # <<>>
    <3>1. Len(mailbox) + Cardinality(woken) >= MailboxSize
      BY <2>2 DEF InLine, NoWakeUpLost
    <3>2. Len(mailbox) >= Len(putters)
      BY <1>3, <1>4, <3>1, InLineTypes
    <3> QED
      BY <1>2, <3>2
  <2> QED
    BY <2>1, <2>2
<1>6. CallersIn(putters') = {} /\ Members(putters') = {}
  BY <1>5 DEF CallersIn, Members
<1>7. InBox' = {} /\ Members(mailbox') = {} /\ Distinct(mailbox') /\ Len(mailbox') = 0
  BY <1>1 DEF InBox, CallersIn, Members, Distinct
<1>8. Awake' = Outside
  BY <1>2, <1>6 DEF Outside
<1>9. Cardinality(woken') = Cardinality(Outside)
  <2>1. Cardinality({call.who : call \in woken'}) = Cardinality(woken')
    BY <1>2, CallersOfSet
  <2> QED
    BY <1>8, <2>1 DEF Awake
<1>10. OneCallEach'
  BY <1>2, <1>7 DEF OneCallEach
<1>11. NoWakeUpLost'
  BY <1>5 DEF NoWakeUpLost
<1>12. MailShape' /\ MailBound'
  BY <1>1, <1>7, EndWorkerShape, InLineTypes DEF InLine, MailBound
<1>13. Queued' \subseteq Queued
  BY <1>2, <1>7 DEF Queued
<1> QED
  <2>1. Len(mailbox') + Cardinality(woken') <= MailboxSize
    BY <1>3, <1>4, <1>7, <1>9, InLineTypes
  <2> QED
    BY <1>2, <1>5, <1>7, <1>8, <1>10, <1>11, <1>12, <1>13, <2>1 DEF InLine

-----------------------------------------------------------------------------
(***************************************************************************)
(* Who waits, and where: the callers between two calls have none of their  *)
(* own in the queues, so that the next one finds them there alone.         *)
(***************************************************************************)
Asking == {"joining", "resyncing", "leaving"}
StopCall == [op |-> "stop", who |-> Stopper]

Accounted ==
  /\ waiting \subseteq InBox \cup Outside \cup Served
  /\ Outside \cup Served \subseteq waiting
  /\ Served \cap (InBox \cup Outside) = {}

Engaged ==
  /\ \A c \in Clients : c \in waiting => status[c] \in Asking
  /\ \A c \in Clients : c \in InBox => status[c] \in Asking \cup {"gone"}
  /\ Reader \in InBox => reader \in {"emitting", "joining", "done"}
  /\ Stopper \in InBox \cup waiting => stopTask = "called"

\* Who is leaving has asked for nothing else.
LeavingAsksNoMore ==
  \A call \in Queued \cup {job} :
    call.op \in {"attach", "resync"} => status[call.who] # "leaving"

StopPhases ==
  /\ step \in {"idle", "over"} => job = Idle
  /\ step \in {"killing", "draining", "finalizing", "waiting"} => job = StopCall
  /\ step \in {"killing", "draining", "finalizing", "waiting", "over"} => stopTask = "called"
  /\ step = "waiting" => closed
  /\ closed \/ step = "finalizing" => finalizer # "none"
  /\ finalizer # "none" => reader \in {"joining", "done"}

Settled ==
  ActorClosed => /\ putters = <<>> /\ waiting \subseteq Awake
                 /\ Len(mailbox) + Cardinality(woken) <= MailboxSize

InPlace == InLine /\ Accounted /\ Engaged /\ LeavingAsksNoMore /\ Settled
Stranding == Shape /\ Ranges /\ StopPhases /\ InPlace

LEMMA CallKinds ==
  ASSUME NEW call \in Calls
  PROVE  /\ call.who \in Callers
         /\ call.op \in {"attach", "resync", "detach"} => call.who \in Clients
         /\ call.op = "emit" => call.who = Reader
         /\ call.op = "stop" => call = StopCall
         /\ call # Idle
  BY DEF Calls, Callers, StopCall, Idle

LEMMA ServedCall ==
  /\ job = Idle => Served = {}
  /\ job # Idle => Served = {job.who}
  BY DEF Served

LEMMA QueuedCalls ==
  ASSUME InLine
  PROVE  /\ Queued \subseteq Calls /\ InBox \cup Outside \subseteq Callers
         /\ \A call \in Queued : call.who \in InBox \cup Outside
<1>1. Members(mailbox) \subseteq Calls /\ Members(putters) \subseteq Calls /\ woken \subseteq Calls
  BY InLineTypes DEF Members
<1>2. /\ InBox = {call.who : call \in Members(mailbox)}
      /\ CallersIn(putters) = {call.who : call \in Members(putters)}
      /\ Awake = {call.who : call \in woken}
  BY DEF InBox, CallersIn, Members, Awake
<1>3. \A call \in Calls : call.who \in Callers
  BY CallKinds
<1> QED
  BY <1>1, <1>2, <1>3 DEF Queued, Outside

LEMMA StopPhasesStep ==
  ASSUME Stranding, [Next]_vars
  PROVE  StopPhases'
<1> USE DEF Stranding
<1>1. Reader \in waiting => finalizer = "none" /\ reader = "emitting"
  BY DEF Ranges, ChunkHeld, StopPhases
<1>2. CASE UNCHANGED <<job, step, stopTask, closed, finalizer, reader>>
  BY <1>2 DEF StopPhases
<1>3. CASE ServeEmit
  <2>1. Head(mailbox).who = Reader /\ Head(mailbox).who \in waiting
    BY <1>3, TakenCall, CallFields DEF ServeEmit, Takes, Shape
  <2> QED
    BY <1>1, <1>3, <2>1 DEF ServeEmit, StopPhases, workVars, stopVars
<1>4. CASE ServeCapture
  BY <1>4 DEF ServeCapture, Takes, StopPhases, stopVars
<1>5. CASE Captured
  BY <1>5 DEF Captured, StopPhases, stopVars
<1>6. CASE ServeStop
  <2>1. /\ Head(mailbox) \in Calls /\ Head(mailbox).op = "stop"
        /\ Head(mailbox).who \in waiting
    BY <1>6, TakenCall DEF ServeStop, Takes, Shape
  <2>2. Head(mailbox) = StopCall
    BY <2>1, CallKinds
  <2>3. stopTask = "called"
    BY <2>1, <2>2 DEF StopCall, InPlace, Engaged
  <2>4. /\ job' = StopCall /\ stopTask' = "called" /\ UNCHANGED <<closed, finalizer, reader>>
        /\ step' \in {"waiting", "killing", "draining"}
        /\ step' = "waiting" => closed
    BY <1>6, <2>2, <2>3 DEF ServeStop, stopVars
  <2> QED
    BY <2>4 DEF StopPhases
<1>7. CASE TmuxKilled
  BY <1>7 DEF TmuxKilled, StopPhases, stopVars
<1>8. CASE StopDrained \/ StopWaitTimesOut
  BY <1>8 DEF StopDrained, StopWaitTimesOut, EndWorker, StopPhases
<1>9. CASE StopTimesOut
  BY <1>9 DEF StopTimesOut, StartFinalizer, StopPhases
<1>10. CASE CallStop
  BY <1>10 DEF CallStop, StopPhases, workVars
<1>11. CASE ReadLoop
  BY <1>11 DEF ReadLoop, ReadChunk, BroadcastDirect, ReaderEnds, ReaderJoins,
     StartFinalizer, StopPhases, workVars, stopVars
<1>12. CASE Finalizer
  BY <1>12 DEF Finalizer, FinalizerCloses, ChildReaped, Persisted, NotifyExit, SayExit,
     StopPhases, workVars, stopVars
<1>13. CASE \E s \in Stoppers : RequestStop(s) \/ StopReturns(s)
  BY <1>13 DEF RequestStop, StopReturns, Stopping, StopPhases, workVars
<1>14. CASE (\E call \in woken : Retry(call)) \/ ChildWrites \/ ChildExits
  BY <1>2, <1>14 DEF Retry, ChildWrites, ChildExits, workVars, stopVars
<1>15. CASE \E c \in Clients : Viewer(c)
  BY <1>2, <1>15 DEF Viewer, Join, Repair, Leave, GiveUpDetach, ConnectionFails,
     Endpoint, workVars, stopVars
<1>16. CASE \/ SkipCancelled \/ ServeAttachRefused \/ ServeAttachReplay
            \/ ServeResyncRefused \/ ServeDetach
  BY <1>2, <1>16 DEF SkipCancelled, ServeAttachRefused, ServeAttachReplay,
     ServeResyncRefused, ServeDetach, workVars, stopVars
<1>17. CASE UNCHANGED vars
  BY <1>2, <1>17 DEF vars, workVars, stopVars
<1> QED
  BY <1>3, <1>4, <1>5, <1>6, <1>7, <1>8, <1>9, <1>10, <1>11, <1>12, <1>13, <1>14,
     <1>15, <1>16, <1>17 DEF Next, Worker, Timeouts

\* A step that leaves the queues alone.
LEMMA StillInPlace ==
  ASSUME Stranding, UNCHANGED <<mailbox, putters, woken, waiting, job>>,
         step' = "over" => step = "over",
         \A c \in Clients : \/ status'[c] = status[c]
                            \/ c \notin waiting /\ status'[c] = "gone",
         reader' = reader \/ reader \in {"reading", "direct"} \/ reader' \in {"joining", "done"},
         stopTask = "called" => stopTask' = "called"
  PROVE  InPlace'
<1> USE DEF Stranding
<1>1. /\ InBox' = InBox /\ Outside' = Outside /\ Served' = Served /\ Queued' = Queued
      /\ Awake' = Awake
  BY DEF InBox, Outside, Served, Queued, CallersIn, Members, Awake
<1>2. InLine'
  BY <1>1 DEF InPlace, InLine, MailShape, MailBound, OneCallEach, NoWakeUpLost
<1>3. Accounted'
  BY <1>1 DEF InPlace, Accounted
<1>4. Engaged'
  BY <1>1 DEF InPlace, Engaged
<1>5. LeavingAsksNoMore'
  <2> SUFFICES ASSUME NEW call \in Queued \cup {job}, call.op \in {"attach", "resync"}
               PROVE  status'[call.who] # "leaving"
    BY <1>1 DEF LeavingAsksNoMore
  <2>1. status[call.who] # "leaving"
    BY DEF InPlace, LeavingAsksNoMore
  <2>2. call.who \in Clients
    BY QueuedCalls, CallKinds DEF InPlace, Shape, ViewShape, Idle
  <2> QED
    BY <2>1, <2>2
<1>6. Settled'
  BY <1>1 DEF InPlace, Settled, ActorClosed
<1> QED
  BY <1>2, <1>3, <1>4, <1>5, <1>6 DEF InPlace

\* The worker takes the head of the mailbox: it answers it, starts to serve it,
\* or skips it because its caller has given up.
LEMMA TakeInPlace ==
  ASSUME Stranding, step = "idle", mailbox # <<>>, Get, step' # "over",
         LET who == Head(mailbox).who
         IN /\ \/ waiting' = waiting \ {who} /\ job' = job
               \/ waiting' = waiting /\ job' = Head(mailbox) /\ who \in waiting
            /\ \A c \in Clients : \/ status'[c] = status[c]
                                  \/ c = who /\ c \notin waiting' /\ status'[c] # "leaving"
            /\ reader' = reader \/ who = Reader
         , stopTask' = stopTask
  PROVE  InPlace'
<1> USE DEF Stranding
<1> DEFINE call == Head(mailbox)
<1>1. /\ InLine' /\ call.who \in InBox /\ call \in Queued
      /\ InBox' = InBox \ {call.who} /\ Outside' = Outside /\ Queued' \subseteq Queued
  BY GetInLine DEF InPlace
<1>2. call \in Calls /\ call # Idle /\ job = Idle /\ Served = {}
  <2>1. call \in Calls
    BY <1>1, QueuedCalls DEF InPlace
  <2> QED
    BY <2>1, CallKinds, ServedCall DEF StopPhases
<1>3. Served' = IF job' = Idle THEN {} ELSE {job'.who}
  BY DEF Served
<1> HIDE DEF call
<1>4. call.who \notin Outside
  BY <1>1 DEF InPlace, InLine, OneCallEach
<1>5. Accounted'
  BY <1>1, <1>2, <1>3, <1>4 DEF InPlace, Accounted, call
<1>6. Engaged'
  BY <1>1 DEF InPlace, Engaged, call
<1>7. LeavingAsksNoMore'
  <2> SUFFICES ASSUME NEW other \in Queued \cup {job}, other.op \in {"attach", "resync"}
               PROVE  status'[other.who] # "leaving"
    BY <1>1 DEF LeavingAsksNoMore, call
  <2>1. status[other.who] # "leaving"
    BY DEF InPlace, LeavingAsksNoMore
  <2>2. other.who \in Clients
    BY QueuedCalls, CallKinds DEF InPlace, Shape, ViewShape, Idle
  <2> QED
    BY <2>1, <2>2
<1>8. Settled'
  BY DEF Settled, ActorClosed
<1> QED
  BY <1>1, <1>5, <1>6, <1>7, <1>8 DEF InPlace

\* A caller between two calls makes one.
LEMMA PutInPlace ==
  ASSUME Stranding, NEW op, NEW who \in Callers, [op |-> op, who |-> who] \in Calls,
         who \notin InBox \cup waiting, Put(op, who),
         step # "over", step' = step, job' = job,
         \A c \in Clients \ {who} : status'[c] = status[c],
         who \in Clients => /\ status'[who] \in Asking
                            /\ op \in {"attach", "resync"} => status'[who] # "leaving",
         IF who = Reader THEN reader' = "emitting" ELSE reader' = reader,
         IF who = Stopper THEN stopTask' = "called" ELSE stopTask' = stopTask
  PROVE  InPlace'
<1> USE DEF Stranding
<1>1. who \notin Outside /\ who \notin Served
  BY DEF InPlace, Accounted
<1>2. /\ InLine' /\ waiting' = waiting \cup {who}
      /\ InBox \subseteq InBox' /\ Outside \subseteq Outside'
      /\ InBox' \cup Outside' = InBox \cup Outside \cup {who}
      /\ Queued' = Queued \cup {[op |-> op, who |-> who]}
  BY <1>1, PutInLine DEF InPlace
<1>3. Served' = Served
  BY DEF Served
<1>4. (InBox \cap Outside = {})'
  BY <1>2 DEF InLine, OneCallEach
<1>5. Accounted'
  BY <1>1, <1>2, <1>3, <1>4 DEF InPlace, Accounted
<1>6. Engaged'
  <2>1. InBox' \subseteq InBox \cup {who}
    BY <1>2, <1>4
  <2> QED
    BY <1>2, <2>1 DEF InPlace, Engaged
<1>7. LeavingAsksNoMore'
  <2> SUFFICES ASSUME NEW other \in Queued' \cup {job}, other.op \in {"attach", "resync"}
               PROVE  status'[other.who] # "leaving"
    BY DEF LeavingAsksNoMore
  <2>1. CASE other = [op |-> op, who |-> who]
    BY <2>1, CallKinds
  <2>2. CASE other \in Queued \cup {job}
    <3>1. other.who \in InBox \cup Outside \cup Served
      BY <2>2, QueuedCalls, ServedCall DEF InPlace, Idle
    <3>2. other.who \in Clients
      BY <2>2, QueuedCalls, CallKinds DEF InPlace, Shape, ViewShape, Idle
    <3>3. status[other.who] # "leaving"
      BY <2>2 DEF InPlace, LeavingAsksNoMore
    <3> QED
      BY <1>1, <3>1, <3>2, <3>3
  <2> QED
    BY <1>2, <2>1, <2>2
<1>8. Settled'
  BY DEF Settled, ActorClosed
<1> QED
  BY <1>2, <1>5, <1>6, <1>7, <1>8 DEF InPlace

\* A caller that gives up is not the one being served.
LEMMA CancelInPlace ==
  ASSUME Stranding, NEW who, who \notin Served, Cancel(who), job' = job,
         step' = "over" => step = "over",
         \A c \in Clients : \/ status'[c] = status[c]
                            \/ c = who /\ status'[c] = "gone",
         reader' = reader \/ reader' \in {"joining", "done"}, stopTask' = stopTask
  PROVE  InPlace'
<1> USE DEF Stranding
<1>1. /\ InLine' /\ InBox' = InBox /\ Outside' = Outside \ {who}
      /\ Queued' \subseteq Queued /\ waiting' = waiting \ {who}
      /\ putters = <<>> => /\ putters' = <<>> /\ Awake' = Awake \ {who}
                           /\ Cardinality(woken') <= Cardinality(woken)
      /\ mailbox' = mailbox
  BY CancelInLine DEF InPlace, Cancel
<1>2. Served' = Served
  BY DEF Served
<1>3. Accounted'
  BY <1>1, <1>2 DEF InPlace, Accounted
<1>4. Engaged'
  BY <1>1 DEF InPlace, Engaged
<1>5. LeavingAsksNoMore'
  <2> SUFFICES ASSUME NEW other \in Queued \cup {job}, other.op \in {"attach", "resync"}
               PROVE  status'[other.who] # "leaving"
    BY <1>1 DEF LeavingAsksNoMore
  <2>1. status[other.who] # "leaving"
    BY DEF InPlace, LeavingAsksNoMore
  <2>2. other.who \in Clients
    BY QueuedCalls, CallKinds DEF InPlace, Shape, ViewShape, Idle
  <2> QED
    BY <2>1, <2>2
<1>6. Settled'
  <2> SUFFICES ASSUME step = "over"
               PROVE  /\ putters' = <<>> /\ waiting' \subseteq Awake'
                      /\ Len(mailbox) + Cardinality(woken') <= MailboxSize
    BY <1>1 DEF Settled, ActorClosed
  <2>1. /\ putters = <<>> /\ waiting \subseteq Awake
        /\ Len(mailbox) + Cardinality(woken) <= MailboxSize
    BY DEF InPlace, Settled, ActorClosed
  <2>2. Cardinality(woken') \in Nat
    BY <1>1, FS_CardinalityType DEF InLine, OneCallEach
  <2> QED
    BY <1>1, <2>1, <2>2, InLineTypes DEF InPlace
<1> QED
  BY <1>1, <1>3, <1>4, <1>5, <1>6 DEF InPlace

\* Once the actor has closed, a woken caller finds its place.
LEMMA RetryInPlace ==
  ASSUME Stranding, NEW call \in woken, Retry(call)
  PROVE  InPlace'
<1> USE DEF Stranding
<1>1. /\ InLine' /\ call.who \in Awake /\ Queued' \subseteq Queued
      /\ Full => InBox' = InBox /\ Outside' = Outside
      /\ ~Full => /\ InBox' = InBox \cup {call.who}
                  /\ Outside' = Outside \ {call.who} /\ putters' = putters
      /\ ~Full => /\ Awake' = Awake \ {call.who}
                  /\ Len(mailbox') = Len(mailbox) + 1
                  /\ Cardinality(woken') = Cardinality(woken) - 1
  BY RetryInLine DEF InPlace
<1>2. UNCHANGED <<job, step, reader, stopTask>> /\ Served' = Served
  BY DEF Retry, Served, workVars, stopVars
<1>3. call.who \in Outside /\ call.who \in waiting /\ call.who \notin Served
  BY <1>1 DEF InPlace, Accounted, Outside
<1>4. CASE Full
  <2>1. waiting' = waiting /\ status' = status
    BY <1>4 DEF Retry
  <2>2. Accounted' /\ Engaged'
    BY <1>1, <1>2, <1>4, <2>1 DEF InPlace, Accounted, Engaged
  <2>3. LeavingAsksNoMore'
    BY <1>1, <1>2, <2>1 DEF InPlace, LeavingAsksNoMore
  <2>4. step # "over"
    <3> SUFFICES ASSUME step = "over" PROVE FALSE
      OBVIOUS
    <3>1. Len(mailbox) + Cardinality(woken) <= MailboxSize
      BY DEF InPlace, Settled, ActorClosed
    <3>2. Cardinality(woken) > 0
      BY InLineTypes, FS_EmptySet DEF InPlace, InLine, OneCallEach
    <3> QED
      BY <1>4, <3>1, <3>2, InLineTypes DEF Full, InPlace
  <2>5. Settled'
    BY <1>2, <2>4 DEF Settled, ActorClosed
  <2> QED
    BY <1>1, <2>2, <2>3, <2>5 DEF InPlace
<1>5. CASE ~Full
  <2>1. /\ waiting' = IF ActorClosed THEN waiting \ {call.who} ELSE waiting
        /\ Refuse(IF ActorClosed THEN {call.who} \cap Clients ELSE {})
    BY <1>5 DEF Retry
  <2>2. /\ \A c \in Clients : \/ status'[c] = status[c]
                              \/ c = call.who /\ ActorClosed /\ status'[c] = "gone"
    BY <2>1 DEF Refuse
  <2>3. Accounted'
    BY <1>1, <1>2, <1>3, <1>5, <2>1 DEF InPlace, Accounted
  <2>4. Engaged'
    <3>1. call.who = Reader => reader = "emitting"
      BY <1>3 DEF Ranges, ChunkHeld
    <3> QED
      BY <1>1, <1>2, <1>3, <1>5, <2>1, <2>2, <3>1 DEF InPlace, Engaged
  <2>5. LeavingAsksNoMore'
    <3> SUFFICES ASSUME NEW other \in Queued \cup {job}, other.op \in {"attach", "resync"}
                 PROVE  status'[other.who] # "leaving"
      BY <1>1, <1>2 DEF LeavingAsksNoMore
    <3>1. status[other.who] # "leaving"
      BY DEF InPlace, LeavingAsksNoMore
    <3>2. other.who \in Clients
      BY QueuedCalls, CallKinds DEF InPlace, Shape, ViewShape, Idle
    <3> QED
      BY <2>2, <3>1, <3>2
  <2>6. Settled'
    <3> SUFFICES ASSUME step = "over"
                 PROVE  /\ putters' = <<>> /\ waiting' \subseteq Awake'
                        /\ Len(mailbox') + Cardinality(woken') <= MailboxSize
      BY <1>2 DEF Settled, ActorClosed
    <3>1. /\ putters = <<>> /\ waiting \subseteq Awake
          /\ Len(mailbox) + Cardinality(woken) <= MailboxSize
      BY DEF InPlace, Settled, ActorClosed
    <3> QED
      BY <1>1, <1>5, <2>1, <3>1, InLineTypes DEF InPlace, ActorClosed
  <2> QED
    BY <1>1, <2>3, <2>4, <2>5, <2>6 DEF InPlace
<1> QED
  BY <1>4, <1>5

\* When the worker ends, the read loop waits for nothing and the stop is being
\* served: only viewers are parked or woken.
LEMMA EndInPlace ==
  ASSUME Stranding, StopDrained \/ StopWaitTimesOut
  PROVE  InPlace'
<1> USE DEF Stranding
<1>1. /\ EndWorker /\ reader' = reader /\ stopTask' = stopTask
      /\ \/ step = "draining" /\ reader = "done"
         \/ step \in {"finalizing", "waiting"}
  BY DEF StopDrained, StopWaitTimesOut, EndWorker
<1>2. job = StopCall /\ Served = {Stopper} /\ Reader \notin waiting
  <2>1. job = StopCall
    BY <1>1 DEF StopPhases
  <2>2. job # Idle /\ job.who = Stopper
    BY <2>1 DEF StopCall, Idle
  <2>3. Reader \notin waiting
    BY <1>1 DEF StopPhases, Ranges, ChunkHeld
  <2> QED
    BY <2>1, <2>2, <2>3, ServedCall
<1>3. Outside \subseteq Clients
  BY <1>2, QueuedCalls DEF InPlace, Accounted, Callers
<1>4. /\ InLine' /\ InBox' = {} /\ Outside' = Outside /\ Queued' \subseteq Queued
      /\ putters' = <<>> /\ Awake' = Outside
      /\ Len(mailbox') + Cardinality(woken') <= MailboxSize
  BY <1>1, <1>3, EndWorkerInLine DEF InPlace
<1>5. /\ job' = Idle /\ step' = "over" /\ Served' = {}
      /\ waiting' = waiting \ ((InBox \cap waiting) \cup {Stopper})
      /\ Refuse((InBox \cap waiting) \cap Clients)
  BY <1>1 DEF EndWorker, InBox, CallersIn, Served
<1>6. waiting' = Outside
  BY <1>2, <1>3, <1>5, ActorBounds DEF InPlace, Accounted, InLine, OneCallEach
<1>7. \A c \in Clients : status'[c] = IF c \in InBox \cap waiting THEN "gone" ELSE status[c]
  BY <1>5 DEF Refuse
<1>8. Accounted'
  BY <1>4, <1>5, <1>6 DEF Accounted
<1>9. Engaged'
  BY <1>1, <1>2, <1>3, <1>4, <1>6, <1>7 DEF InPlace, Engaged, Accounted, InLine,
     OneCallEach, StopPhases
<1>10. LeavingAsksNoMore'
  <2> SUFFICES ASSUME NEW other \in Queued, other.op \in {"attach", "resync"}
               PROVE  status'[other.who] # "leaving"
    BY <1>4, <1>5 DEF LeavingAsksNoMore, Idle
  <2>1. status[other.who] # "leaving"
    BY DEF InPlace, LeavingAsksNoMore
  <2>2. other.who \in Clients
    BY QueuedCalls, CallKinds DEF InPlace
  <2> QED
    BY <1>7, <2>1, <2>2
<1>11. Settled'
  BY <1>4, <1>6 DEF Settled
<1> QED
  BY <1>4, <1>8, <1>9, <1>10, <1>11 DEF InPlace

LEMMA CapturedInPlace ==
  ASSUME Stranding, Captured
  PROVE  InPlace'
<1> USE DEF Stranding
<1>1. /\ job \in Calls /\ job.op \in {"attach", "resync"} /\ step = "capturing"
  BY DEF Captured, Shape, ViewShape
<1>2. job # Idle /\ job.who \in Clients /\ Served = {job.who}
  BY <1>1, CallKinds, ServedCall
<1>3. /\ UNCHANGED <<mailbox, putters, woken, reader, stopTask>>
      /\ waiting' = waiting \ {job.who} /\ job' = Idle /\ step' = "idle"
  BY DEF Captured, Answer, stopVars
<1>4. \A c \in Clients : \/ status'[c] = status[c]
                         \/ c = job.who /\ status'[c] # "leaving"
  <2>1. status \in [Clients -> Doors]
    BY DEF Ranges, EndpointRange
  <2>2. \/ status' = [status EXCEPT ![job.who] = "attached"]
        \/ status' = [status EXCEPT ![job.who] = "repaired"]
        \/ Refuse({job.who})
    BY DEF Captured, Admit
  <2> QED
    BY <1>2, <2>1, <2>2 DEF Refuse
<1>5. /\ InBox' = InBox /\ Outside' = Outside /\ Queued' = Queued /\ Served' = {}
      /\ Awake' = Awake
  BY <1>3 DEF InBox, Outside, Served, Queued, CallersIn, Members, Awake
<1>6. InLine'
  BY <1>3, <1>5 DEF InPlace, InLine, MailShape, MailBound, OneCallEach, NoWakeUpLost
<1>7. Accounted'
  BY <1>2, <1>3, <1>5 DEF InPlace, Accounted
<1>8. Engaged'
  BY <1>2, <1>3, <1>4, <1>5 DEF InPlace, Engaged, Accounted
<1>9. LeavingAsksNoMore'
  <2> SUFFICES ASSUME NEW other \in Queued, other.op \in {"attach", "resync"}
               PROVE  status'[other.who] # "leaving"
    BY <1>3, <1>5 DEF LeavingAsksNoMore, Idle
  <2>1. status[other.who] # "leaving"
    BY DEF InPlace, LeavingAsksNoMore
  <2>2. other.who \in Clients
    BY QueuedCalls, CallKinds DEF InPlace
  <2> QED
    BY <1>4, <2>1, <2>2
<1>10. Settled'
  BY <1>3 DEF Settled, ActorClosed
<1> QED
  BY <1>6, <1>7, <1>8, <1>9, <1>10 DEF InPlace

LEMMA ServeInPlace ==
  ASSUME Stranding,
         \/ SkipCancelled \/ ServeEmit \/ ServeAttachRefused \/ ServeAttachReplay
         \/ ServeCapture \/ ServeResyncRefused \/ ServeDetach \/ ServeStop
  PROVE  InPlace'
<1> USE DEF Stranding
<1>1. status \in [Clients -> Doors]
  BY DEF Ranges, EndpointRange
<1>2. CASE SkipCancelled
  <2>1. /\ step = "idle" /\ mailbox # <<>> /\ Get
        /\ waiting' = waiting \ {Head(mailbox).who}
        /\ UNCHANGED <<job, step, status, reader, stopTask>>
    BY <1>2 DEF SkipCancelled, workVars, stopVars, viewVars
  <2> QED
    BY <2>1, TakeInPlace
<1>3. CASE ServeEmit
  <2>1. Head(mailbox).who = Reader
    BY <1>3, TakenCall, CallFields DEF ServeEmit, Shape
  <2>2. /\ step = "idle" /\ mailbox # <<>> /\ Get
        /\ waiting' = waiting \ {Head(mailbox).who}
        /\ UNCHANGED <<job, step, status, stopTask>>
    BY <1>3, <2>1 DEF ServeEmit, Takes, Answer, Broadcast, workVars, stopVars
  <2> QED
    BY <2>1, <2>2, TakeInPlace
<1>4. CASE ServeCapture \/ ServeStop
  <2>1. /\ step = "idle" /\ mailbox # <<>> /\ Get /\ Head(mailbox).who \in waiting
        /\ waiting' = waiting /\ job' = Head(mailbox) /\ step' # "over"
        /\ UNCHANGED <<status, reader, stopTask>>
    BY <1>4 DEF ServeCapture, ServeStop, Takes, stopVars, viewVars
  <2> QED
    BY <2>1, TakeInPlace
<1>5. CASE ServeAttachRefused \/ ServeAttachReplay \/ ServeResyncRefused \/ ServeDetach
  <2>1. /\ step = "idle" /\ mailbox # <<>> /\ Get /\ Client \in Clients
        /\ waiting' = waiting \ {Client}
        /\ UNCHANGED <<job, step, reader, stopTask>>
    BY <1>5, TakenCall DEF ServeAttachRefused, ServeAttachReplay, ServeResyncRefused,
       ServeDetach, Takes, Answer, Shape, workVars, stopVars
  <2>2. \/ status' = [status EXCEPT ![Client] = "attached"]
        \/ status' = [status EXCEPT ![Client] = "repaired"]
        \/ Refuse({Client})
    BY <1>5 DEF ServeAttachRefused, ServeAttachReplay, ServeResyncRefused, ServeDetach,
       Admit
  <2>3. \A c \in Clients : \/ status'[c] = status[c]
                           \/ c = Client /\ c \notin waiting' /\ status'[c] # "leaving"
    BY <1>1, <2>1, <2>2 DEF Refuse
  <2> QED
    BY <2>1, <2>3, TakeInPlace DEF Client
<1> QED
  BY <1>2, <1>3, <1>4, <1>5

LEMMA ViewerInPlace ==
  ASSUME Stranding, NEW c \in Clients, Viewer(c)
  PROVE  InPlace'
<1> USE DEF Stranding
<1>1. status \in [Clients -> Doors] /\ c # Reader /\ c # Stopper /\ c \in Callers
  BY ActorBounds DEF Ranges, EndpointRange, Callers
<1>2. CASE ConnectionFails(c)
  BY <1>2, StillInPlace DEF ConnectionFails, mailVars, workVars, stopVars
<1>3. CASE GiveUpDetach(c)
  <2>1. c \notin Served
    <3> SUFFICES ASSUME job # Idle, job.who = c PROVE FALSE
      BY ServedCall
    <3>1. job \in Calls /\ job.op \in {"attach", "resync"}
      BY <1>1 DEF Shape, ViewShape, StopPhases, StopCall, Ranges, WorkRange, Steps
    <3> QED
      BY <1>3, <3>1 DEF GiveUpDetach, InPlace, LeavingAsksNoMore
  <2>2. /\ Cancel(c) /\ UNCHANGED <<job, step, reader, stopTask>> /\ Refuse({c})
    BY <1>3 DEF GiveUpDetach, workVars, stopVars
  <2> QED
    BY <2>1, <2>2, CancelInPlace DEF Refuse
<1>4. CASE Join(c) \/ Repair(c) \/ Leave(c)
  <2>1. /\ status[c] \in {"new", "attached", "repaired"}
        /\ UNCHANGED <<job, step, reader, stopTask>>
    BY <1>4 DEF Join, Repair, Leave, Endpoint, workVars, stopVars
  <2>2. c \notin InBox \cup waiting
    BY <2>1 DEF InPlace, Engaged, Asking
  <2>3. CASE ActorClosed
    <3>1. Refuse({c}) /\ UNCHANGED mailVars
      BY <1>4, <2>3 DEF Join, Repair, Leave, Endpoint
    <3> QED
      BY <2>1, <2>2, <3>1, StillInPlace DEF Refuse, mailVars
  <2>4. CASE ~ActorClosed
    <3>1. PICK op \in {"attach", "resync", "detach"}, next \in Asking :
             /\ Put(op, c) /\ status' = [status EXCEPT ![c] = next]
             /\ op # "detach" => next # "leaving"
      BY <1>4, <2>4 DEF Join, Repair, Leave, Endpoint, Asking
    <3>2. [op |-> op, who |-> c] \in Calls
      BY DEF Calls
    <3> QED
      BY <1>1, <2>1, <2>2, <2>4, <3>1, <3>2, PutInPlace DEF ActorClosed
  <2> QED
    BY <2>3, <2>4
<1> QED
  BY <1>2, <1>3, <1>4 DEF Viewer

LEMMA InPlaceStep ==
  ASSUME Stranding, [Next]_vars
  PROVE  InPlace'
<1> USE DEF Stranding
<1>1. CASE Worker
  <2>1. CASE TmuxKilled
    BY <2>1, StillInPlace DEF TmuxKilled, mailVars, stopVars, viewVars
  <2> QED
    BY <1>1, <2>1, ServeInPlace, CapturedInPlace, EndInPlace DEF Worker
<1>2. CASE StopTimesOut
  <2>1. job = StopCall /\ Served = {Stopper}
    <3>1. job = StopCall
      BY <1>2 DEF StopTimesOut, StopPhases
    <3> QED
      BY <3>1, ServedCall DEF StopCall, Idle
  <2>2. /\ Cancel(Reader) /\ reader' \in {"joining", "done"} /\ step' = "finalizing"
        /\ UNCHANGED <<job, status, stopTask>>
    BY <1>2 DEF StopTimesOut, viewVars
  <2> QED
    BY <2>1, <2>2, CancelInPlace DEF Reader, Stopper
<1>3. CASE CallStop
  <2>1. Stopper \notin InBox \cup waiting /\ step # "over"
    BY <1>3 DEF CallStop, InPlace, Engaged, StopPhases
  <2>2. /\ Put("stop", Stopper) /\ stopTask' = "called"
        /\ UNCHANGED <<job, step, reader, status>>
    BY <1>3 DEF CallStop, workVars, viewVars
  <2>3. Stopper \in Callers /\ Stopper \notin Clients /\ Stopper # Reader
    BY ActorBounds DEF Callers, Stopper, Reader
  <2> QED
    BY <2>1, <2>2, <2>3, EmitAndStopAreCalls, PutInPlace
<1>4. CASE ReadChunk
  <2>1. reader = "reading" /\ UNCHANGED <<job, step, stopTask, status>>
    BY <1>4 DEF ReadChunk, workVars, stopVars, viewVars
  <2>2. Reader \notin InBox \cup waiting
    BY <2>1 DEF InPlace, Engaged, Ranges, ChunkHeld
  <2>3. Reader \in Callers /\ Reader \notin Clients /\ Stopper # Reader
    BY ActorBounds DEF Callers, Stopper, Reader
  <2>4. CASE Stopping \/ ActorClosed
    BY <1>4, <2>1, <2>4, StillInPlace DEF ReadChunk, mailVars
  <2>5. CASE ~(Stopping \/ ActorClosed)
    <3>1. Put("emit", Reader) /\ reader' = "emitting" /\ step # "over"
      BY <1>4, <2>5 DEF ReadChunk, ActorClosed
    <3> QED
      BY <2>1, <2>2, <2>3, <3>1, EmitAndStopAreCalls, PutInPlace
  <2> QED
    BY <2>4, <2>5
<1>5. CASE BroadcastDirect \/ ReaderEnds \/ ReaderJoins
  <2>1. /\ UNCHANGED <<mailbox, putters, woken, waiting, job, step, status, stopTask>>
        /\ reader \in {"reading", "direct"} \/ reader' \in {"joining", "done"}
    BY <1>5 DEF BroadcastDirect, Broadcast, ReaderEnds, ReaderJoins, mailVars, workVars,
       stopVars, viewVars
  <2> QED
    BY <2>1, StillInPlace
<1>6. CASE \/ Finalizer \/ ChildWrites \/ ChildExits \/ UNCHANGED vars
           \/ \E s \in Stoppers : StopReturns(s)
  <2>1. UNCHANGED <<mailbox, putters, woken, waiting, job, step, status, stopTask, reader>>
    BY <1>6 DEF Finalizer, FinalizerCloses, ChildReaped, Persisted, NotifyExit, SayExit,
       ChildWrites, ChildExits, StopReturns, vars, mailVars, workVars, stopVars, viewVars
  <2> QED
    BY <2>1, StillInPlace
<1>7. CASE \E s \in Stoppers : RequestStop(s)
  <2>1. /\ UNCHANGED <<mailbox, putters, woken, waiting, job, step, status, reader>>
        /\ stopTask = "called" => stopTask' = "called"
    BY <1>7 DEF RequestStop, Stopping, mailVars, workVars, viewVars
  <2> QED
    BY <2>1, StillInPlace
<1> QED
  BY <1>1, <1>2, <1>3, <1>4, <1>5, <1>6, <1>7, RetryInPlace, EndInPlace, ViewerInPlace
  DEF Next, Timeouts, ReadLoop

LEMMA StrandingInit == Init => Stranding
<1> SUFFICES ASSUME Init PROVE Stranding
  OBVIOUS
<1>1. /\ Shape /\ Ranges /\ MailShape /\ MailBound
  BY ShapeInit, RangesInit DEF Shape, Ranges
<1>2. /\ mailbox = <<>> /\ putters = <<>> /\ woken = {} /\ waiting = {} /\ job = Idle
      /\ step = "idle" /\ stopTask = "none" /\ reader = "reading"
      /\ finalizer = "none" /\ closed = FALSE
  BY DEF Init
<1>3. InBox = {} /\ Outside = {} /\ Served = {} /\ Queued = {} /\ IsFiniteSet(woken)
  BY <1>2, FS_EmptySet DEF InBox, Outside, Served, Queued, CallersIn, Members, Awake
<1>4. InLine
  BY <1>1, <1>2, <1>3 DEF InLine, OneCallEach, NoWakeUpLost, Distinct, CallersIn, Awake
<1>5. Accounted /\ Engaged /\ Settled /\ StopPhases
  BY <1>2, <1>3 DEF Accounted, Engaged, Settled, StopPhases, ActorClosed
<1>6. LeavingAsksNoMore
  BY <1>2, <1>3 DEF LeavingAsksNoMore, Idle
<1> QED
  BY <1>1, <1>4, <1>5, <1>6 DEF Stranding, InPlace

\* No caller that awaits an answer is lost sight of, no wake-up is lost while a
\* place is free, and the worker ends only with everybody awake who still waits
\* and a place for each: the safety behind EveryCallAnswered, for any number of
\* viewers a mailbox has room for.
THEOREM NobodyLeftBehind == Spec => []NobodyStranded
<1>1. Stranding /\ [Next]_vars => Stranding'
  <2>1. Stranding /\ [Next]_vars => Shape' /\ Ranges'
    BY MailStep, ViewStep, BoundStep, EndpointStep, WorkStep, StreamStep, HeldStep
    DEF Stranding, Shape, Ranges
  <2> QED
    BY <2>1, StopPhasesStep, InPlaceStep DEF Stranding
<1>2. Stranding => NobodyStranded
  BY DEF Stranding, InPlace, InLine, NoWakeUpLost, Accounted, Settled, InBox, Outside,
     NobodyStranded
<1> QED
  BY <1>1, <1>2, StrandingInit, PTL DEF Spec
=============================================================================
