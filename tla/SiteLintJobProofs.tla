------------------------- MODULE SiteLintJobProofs -------------------------
(***************************************************************************)
(* What becomes of a SiteLint job.  In both modes, whatever crashes, fails *)
(* or is delivered again, no job is forgotten.  start_scan implements      *)
(* JobLifecycle: with repeats where several processes may handle one job,  *)
(* and without in inline mode with one API process (Solo), where a job is  *)
(* scanned once, its bundles are of that scan, and a baseline_diff is      *)
(* against an earlier scan of the job that was named.                      *)
(***************************************************************************)
EXTENDS SiteLintProofs, FiniteSetTheorems

\* A process that has no row in hand has read no status.
SeenOK ==
    \A p \in Procs : at[p].pc \in {"idle", "insert", "reselect"} => at[p].seen = "absent"

Open == {"queued", "running"}

CareInv == SeenOK /\ NoJobForgotten

Waits(j) == \E i \in 1 .. Len(queue) : queue[i].job = j
Holds(p, j) == at[p].job = j /\ at[p].seen = "queued"

-----------------------------------------------------------------------------
(* No job is forgotten                                                     *)

LEMMA InitCare == ASSUME Init PROVE CareInv
BY DEF Init, CareInv, SeenOK, NoJobForgotten, Idle, Absent

\* What another process has in hand stays in hand, so it is enough to look at
\* what p lets go of, at the messages, and at jobs that are opened.
LEMMA CareStays ==
    ASSUME CareInv, NEW p \in Procs,
           \A q \in Procs \ {p} : at'[q] = at[q],
           at'[p].pc \in {"idle", "insert", "reselect"} => at'[p].seen = "absent",
           \A j \in JobIds : Waits(j) => InHand(j)',
           abandoned \subseteq abandoned',
           \A j \in JobIds : Holds(p, j) =>
               InHand(j)' \/ j \in abandoned' \/ rows'[j].status \notin Open,
           \A j \in JobIds : rows'[j].status \in Open => rows[j].status \in Open \/ InHand(j)'
    PROVE  CareInv'
<1>1. SeenOK'
  BY DEF CareInv, SeenOK
<1>2. ASSUME NEW j \in JobIds, rows'[j].status \in Open
      PROVE  InHand(j)' \/ j \in abandoned'
  <2>1. CASE InHand(j)'
    BY <2>1
  <2>2. CASE rows[j].status \in Open /\ j \notin abandoned
    <3>1. InHand(j)
      BY <2>2 DEF CareInv, NoJobForgotten, Open
    <3>2. CASE Waits(j)
      BY <3>2
    <3>3. CASE Holds(p, j)
      BY <1>2, <3>3
    <3>4. CASE \E q \in Procs \ {p} : Holds(q, j)
      BY <3>4 DEF InHand, Holds
    <3> QED BY <3>1, <3>2, <3>3, <3>4 DEF InHand, Waits, Holds
  <2> QED BY <1>2, <2>1, <2>2
<1> QED BY <1>1, <1>2 DEF CareInv, NoJobForgotten, Open

\* Messages that stay in the queue stay in hand.
LEMMA QueueInHand ==
    ASSUME queue' = queue
    PROVE  \A j \in JobIds : Waits(j) => InHand(j)'
BY DEF InHand, Waits

LEMMA SubmitCare ==
    ASSUME IInv, CareInv, NEW p \in Apis, NEW loop \in OnLoop, NEW r \in Requests,
           Submit(p, loop, r)
    PROVE  CareInv'
<1>1. p \in Procs /\ at \in [Procs -> Locals]
  BY DEF Procs, IInv, TypeOK
<1>2. at[p].pc = "idle" /\ queue' = queue /\ abandoned' = abandoned /\ rows' = rows
  BY DEF Submit, Found
<1>3. /\ \A q \in Procs \ {p} : at'[q] = at[q]
      /\ at'[p].pc = "act" \/ (at'[p].pc = "insert" /\ at'[p].seen = "absent")
  BY <1>1 DEF Submit, Found, Idle
<1>4. at[p].seen = "absent"
  BY <1>1, <1>2 DEF CareInv, SeenOK
<1> QED BY <1>1, <1>2, <1>3, <1>4, QueueInHand, CareStays DEF Holds

LEMMA ReselectCare ==
    ASSUME IInv, CareInv, NEW p \in Apis, Reselect(p)
    PROVE  CareInv'
<1>1. p \in Procs /\ at \in [Procs -> Locals]
  BY DEF Procs, IInv, TypeOK
<1>2. at[p].pc = "reselect" /\ queue' = queue /\ abandoned' = abandoned /\ rows' = rows
  BY DEF Reselect, Found
<1>3. /\ \A q \in Procs \ {p} : at'[q] = at[q]
      /\ at'[p].pc = "act"
  BY <1>1 DEF Reselect, Found, Idle
<1>4. at[p].seen = "absent"
  BY <1>1, <1>2 DEF CareInv, SeenOK
<1> QED BY <1>1, <1>2, <1>3, <1>4, QueueInHand, CareStays DEF Holds

LEMMA InsertCare ==
    ASSUME IInv, CareInv, NEW p \in Procs, Insert(p)
    PROVE  CareInv'
<1>1. at \in [Procs -> Locals] /\ rows \in [JobIds -> {Absent} \cup RowType]
  BY DEF IInv, TypeOK
<1>2. at[p].pc = "insert" /\ queue' = queue /\ abandoned' = abandoned
  BY DEF Insert
<1>3. at[p].seen = "absent"
  BY <1>2 DEF CareInv, SeenOK
<1>4. CASE at' = [at EXCEPT ![p].pc = "reselect"] /\ UNCHANGED rows
  <2>1. (\A q \in Procs \ {p} : at'[q] = at[q]) /\ at'[p].seen = "absent"
    BY <1>1, <1>3, <1>4 DEF Locals
  <2> QED BY <1>2, <1>3, <1>4, <2>1, QueueInHand, CareStays DEF Holds
<1>5. ASSUME NEW j \in JobIds, NEW row,
             rows' = [rows EXCEPT ![j] = row],
             at' = [at EXCEPT ![p].pc = "act", ![p].job = j, ![p].seen = "queued"]
      PROVE  CareInv'
  <2>1. /\ \A q \in Procs \ {p} : at'[q] = at[q]
        /\ at'[p].pc = "act" /\ at'[p].job = j /\ at'[p].seen = "queued"
    BY <1>1, <1>5 DEF Locals
  <2>2. InHand(j)'
    BY <2>1 DEF InHand
  <2>3. \A i \in JobIds \ {j} : rows'[i] = rows[i]
    BY <1>1, <1>5
  <2> QED BY <1>2, <1>3, <2>1, <2>2, <2>3, QueueInHand, CareStays DEF Holds
<1> QED BY <1>4, <1>5 DEF Insert

\* A process whose job was not queued when it read it lets go of nothing.
LEMMA AnswerCare ==
    ASSUME IInv, CareInv, NEW p \in Procs, Answer(p)
    PROVE  CareInv'
<1>1. at \in [Procs -> Locals]
  BY DEF IInv, TypeOK
<1>2. /\ at[p].seen # "queued" /\ queue' = queue /\ abandoned' = abandoned /\ rows' = rows
      /\ at' = [at EXCEPT ![p] = Idle]
  BY DEF Answer, Return
<1>3. (\A q \in Procs \ {p} : at'[q] = at[q]) /\ at'[p].seen = "absent"
  BY <1>1, <1>2 DEF Idle
<1> QED BY <1>2, <1>3, QueueInHand, CareStays DEF Holds

\* The job is in the message now.
LEMMA DispatchCare ==
    ASSUME IInv, CareInv, NEW p \in Procs, Dispatch(p)
    PROVE  CareInv'
<1> DEFINE m == [job |-> at[p].job, req |-> at[p].req]
<1>1. at \in [Procs -> Locals] /\ queue \in Seq(Messages)
  BY DEF IInv, TypeOK
<1>2. /\ queue' = Append(queue, m) /\ abandoned' = abandoned /\ rows' = rows
      /\ at' = [at EXCEPT ![p] = Idle]
  BY DEF Dispatch, Return
<1>3. (\A q \in Procs \ {p} : at'[q] = at[q]) /\ at'[p].seen = "absent"
  BY <1>1, <1>2 DEF Idle
<1>4. m.job = at[p].job
  OBVIOUS
<1> HIDE DEF m
<1>5. /\ Len(queue) \in Nat /\ Len(queue') = Len(queue) + 1
      /\ queue'[Len(queue) + 1] = m
      /\ \A i \in 1 .. Len(queue) : queue'[i] = queue[i]
  BY <1>1, <1>2
<1>6. \A i \in 1 .. Len(queue) : i \in 1 .. Len(queue') /\ queue'[i] = queue[i]
  BY <1>5
<1>7. \A j \in JobIds : Waits(j) => InHand(j)'
  BY <1>6 DEF InHand, Waits
<1>8. \A j \in JobIds : Holds(p, j) => InHand(j)'
  <2>1. PICK n \in 1 .. Len(queue') : queue'[n] = m
    BY <1>5
  <2> QED BY <2>1, <1>4 DEF InHand, Holds
<1> QED BY <1>2, <1>3, <1>7, <1>8, CareStays

\* A process that goes on with its job.
LEMMA WorkCare ==
    ASSUME IInv, CareInv, NEW p \in Procs,
           (\A q \in Procs \ {p} : at'[q] = at[q]),
           at'[p].pc \in {"scan", "put", "finish"},
           at'[p].job = at[p].job, at'[p].seen = at[p].seen,
           queue' = queue, abandoned' = abandoned,
           (\A j \in JobIds : rows'[j].status \in Open => rows[j].status \in Open \/ Holds(p, j))
    PROVE  CareInv'
<1>1. \A j \in JobIds : Holds(p, j) => InHand(j)'
  BY DEF InHand, Holds
<1> QED BY <1>1, QueueInHand, CareStays

LEMMA MarkRunningCare ==
    ASSUME IInv, CareInv, NEW p \in Procs, MarkRunning(p)
    PROVE  CareInv'
<1>1. at \in [Procs -> Locals] /\ rows \in [JobIds -> {Absent} \cup RowType]
  BY DEF IInv, TypeOK
<1>2. /\ at[p].seen = "queued" /\ queue' = queue /\ abandoned' = abandoned
      /\ rows' = [rows EXCEPT ![at[p].job].status = "running",
                              ![at[p].job].result = rows[at[p].job].result]
      /\ at' = [at EXCEPT ![p].pc = "scan"]
  BY DEF MarkRunning, SetStatus
<1>3. /\ \A q \in Procs \ {p} : at'[q] = at[q]
      /\ at'[p].pc = "scan" /\ at'[p].job = at[p].job /\ at'[p].seen = at[p].seen
  BY <1>1, <1>2 DEF Locals
<1>4. \A j \in JobIds : j # at[p].job => rows'[j] = rows[j]
  BY <1>1, <1>2
<1> QED BY <1>2, <1>3, <1>4, WorkCare DEF Holds

LEMMA ScanCare ==
    ASSUME IInv, CareInv, NEW p \in Procs, Scan(p)
    PROVE  CareInv'
<1>1. at \in [Procs -> Locals]
  BY DEF IInv, TypeOK
<1>2. /\ queue' = queue /\ abandoned' = abandoned /\ rows' = rows
      /\ at' = [at EXCEPT ![p].pc = "put", ![p].run = Len(scans')]
  BY DEF Scan
<1>3. /\ \A q \in Procs \ {p} : at'[q] = at[q]
      /\ at'[p].pc = "put" /\ at'[p].job = at[p].job /\ at'[p].seen = at[p].seen
  BY <1>1, <1>2 DEF Locals
<1> QED BY <1>2, <1>3, WorkCare

LEMMA PutCare ==
    ASSUME IInv, CareInv, NEW p \in Procs, Put(p)
    PROVE  CareInv'
<1>1. at \in [Procs -> Locals]
  BY DEF IInv, TypeOK
<1>2. PICK doc : at' = [at EXCEPT ![p].pc = "finish", ![p].doc = doc]
  BY DEF Put
<1>3. queue' = queue /\ abandoned' = abandoned /\ rows' = rows
  BY DEF Put
<1>4. /\ \A q \in Procs \ {p} : at'[q] = at[q]
      /\ at'[p].pc = "finish" /\ at'[p].job = at[p].job /\ at'[p].seen = at[p].seen
  BY <1>1, <1>2 DEF Locals
<1> QED BY <1>3, <1>4, WorkCare

\* A process that lets its job go, completed or abandoned.
LEMMA FinishCare ==
    ASSUME IInv, CareInv, NEW p \in Procs, Finish(p)
    PROVE  CareInv'
<1>1. at \in [Procs -> Locals] /\ rows \in [JobIds -> {Absent} \cup RowType]
  BY DEF IInv, TypeOK
<1>2. PICK doc : rows' = [rows EXCEPT ![at[p].job].status = "completed",
                                      ![at[p].job].result = doc]
  BY DEF Finish, SetStatus
<1>3. queue' = queue /\ abandoned' = abandoned /\ at' = [at EXCEPT ![p] = Idle]
  BY DEF Finish, Return
<1>4. (\A q \in Procs \ {p} : at'[q] = at[q]) /\ at'[p].seen = "absent"
  BY <1>1, <1>3 DEF Idle
<1>5. \A j \in JobIds : IF j = at[p].job THEN rows'[j].status = "completed"
                                         ELSE rows'[j] = rows[j]
  BY <1>1, <1>2 DEF Absent, RowType
<1> QED BY <1>3, <1>4, <1>5, QueueInHand, CareStays DEF Holds, Open

LEMMA AbandonCare ==
    ASSUME IInv, CareInv, NEW p \in Procs,
           at' = [at EXCEPT ![p] = Idle], rows' = rows, queue' = queue,
           abandoned \subseteq abandoned',
           at[p].job # None => at[p].job \in abandoned'
    PROVE  CareInv'
<1>1. at \in [Procs -> Locals]
  BY DEF IInv, TypeOK
<1>2. (\A q \in Procs \ {p} : at'[q] = at[q]) /\ at'[p].seen = "absent"
  BY <1>1 DEF Idle
<1>3. \A j \in JobIds : Holds(p, j) => j \in abandoned'
  BY SiteLintAssumption DEF Holds
<1> QED BY <1>2, <1>3, QueueInHand, CareStays

LEMMA LoopRefusesScanCare ==
    ASSUME IInv, CareInv, NEW p \in Procs, LoopRefusesScan(p)
    PROVE  CareInv'
BY AbandonCare DEF LoopRefusesScan

LEMMA FaultyCare ==
    ASSUME IInv, CareInv, NEW p \in Procs, Faulty(p)
    PROVE  CareInv'
<1>1. Fault(p) /\ rows' = rows /\ queue' = queue
  BY DEF Faulty, Crash, ScanRaises, DispatchRaises
<1> QED BY <1>1, AbandonCare DEF Fault

\* A message that leaves the queue is in the hand of the worker that took it.
LEMMA TakeCare ==
    ASSUME IInv, CareInv, NEW p \in Procs, Take(p)
    PROVE  CareInv'
<1> DEFINE m == Head(queue)
<1>1. at \in [Procs -> Locals] /\ queue \in Seq(Messages)
  BY DEF IInv, TypeOK
<1>2. /\ at[p].pc = "idle" /\ queue # <<>> /\ abandoned' = abandoned /\ rows' = rows
      /\ at' = [at EXCEPT ![p] = [Idle EXCEPT !.pc = "act", !.req = m.req, !.job = m.job,
                                              !.seen = "queued"]]
      /\ queue' = Tail(queue) \/ queue' = Append(Tail(queue), m)
  BY DEF Take
<1>3. /\ \A q \in Procs \ {p} : at'[q] = at[q]
      /\ at'[p].pc = "act" /\ at'[p].job = m.job /\ at'[p].seen = "queued"
  BY <1>1, <1>2 DEF Idle
<1>4. at[p].seen = "absent"
  BY <1>2 DEF CareInv, SeenOK
<1>5. /\ m = queue[1]
      /\ Tail(queue) \in Seq(Messages) /\ Len(Tail(queue)) = Len(queue) - 1
      /\ \A i \in 1 .. Len(Tail(queue)) : Tail(queue)[i] = queue[i + 1]
      /\ Len(queue) \in Nat
  BY <1>1, <1>2
<1> HIDE DEF m
<1>6. /\ Len(Tail(queue)) \in Nat /\ Len(Tail(queue)) <= Len(queue')
      /\ \A i \in 1 .. Len(Tail(queue)) : queue'[i] = Tail(queue)[i]
  BY <1>2, <1>5
<1>7. Len(queue') \in Nat
  BY <1>2, <1>5
<1>8. ASSUME NEW j \in JobIds, Waits(j)
      PROVE  InHand(j)'
  <2>1. PICK i \in 1 .. Len(queue) : queue[i].job = j
    BY <1>8 DEF Waits
  <2>2. CASE i = 1
    BY <1>3, <1>5, <2>1, <2>2 DEF InHand
  <2>3. CASE i # 1
    <3>1. i - 1 \in 1 .. Len(Tail(queue)) /\ i - 1 + 1 = i
      BY <1>5, <2>3
    <3>2. Tail(queue)[i - 1] = queue[i]
      BY <1>5, <3>1
    <3>3. i - 1 \in 1 .. Len(queue') /\ queue'[i - 1] = queue[i]
      BY <1>6, <1>7, <3>1, <3>2
    <3>4. \E k \in 1 .. Len(queue') : queue'[k].job = j
      BY <2>1, <3>3
    <3> QED BY <3>4 DEF InHand
  <2> QED BY <2>2, <2>3
<1> QED BY <1>2, <1>3, <1>4, <1>8, CareStays DEF Holds

LEMMA NextCare ==
    ASSUME IInv, CareInv, [Next]_vars
    PROVE  CareInv'
<1>1. ASSUME NEW p \in Apis, NEW loop \in OnLoop, NEW r \in Requests, Submit(p, loop, r)
      PROVE  CareInv'
  BY <1>1, SubmitCare
<1>2. ASSUME NEW p \in Apis, StartScan(p)
      PROVE  CareInv'
  <2>1. p \in Procs
    BY DEF Procs
  <2> QED BY <1>2, <2>1, InsertCare, ReselectCare, AnswerCare, DispatchCare, MarkRunningCare,
             ScanCare, LoopRefusesScanCare, PutCare, FinishCare DEF StartScan
<1>3. ASSUME NEW p \in Apis, NEW j \in JobIds, ZipReport(p, j)
      PROVE  CareInv'
  BY <1>3 DEF ZipReport, CareInv, SeenOK, NoJobForgotten, InHand
<1>4. ASSUME NEW p \in Workers, RunTask(p)
      PROVE  CareInv'
  <2>1. p \in Procs
    BY DEF Procs
  <2> QED BY <1>4, <2>1, TakeCare, MarkRunningCare, ScanCare, PutCare, FinishCare DEF RunTask
<1>5. ASSUME NEW p \in Procs, Faulty(p)
      PROVE  CareInv'
  BY <1>5, FaultyCare
<1>6. CASE UNCHANGED vars
  BY <1>6 DEF vars, CareInv, SeenOK, NoJobForgotten, InHand
<1> QED BY <1>1, <1>2, <1>3, <1>4, <1>5, <1>6 DEF Next

\* No job is forgotten, in both modes and for any number of processes, calls,
\* redeliveries and faults: until it is completed it is in a message, in the
\* hand of a process, or one of its own handlers crashed or raised.
THEOREM SiteLintNoJobForgotten == Spec => []NoJobForgotten
<1>1. Init => CareInv
  BY InitCare
<1>2. IInv /\ CareInv /\ [Next]_vars => CareInv'
  BY NextCare
<1>3. CareInv => NoJobForgotten
  BY DEF CareInv
<1> QED BY <1>1, <1>2, <1>3, SiteLintInvariant, PTL DEF Spec

-----------------------------------------------------------------------------
(* Inline mode, one API process                                            *)

Solo == ~AsyncMode /\ \A p, q \in Apis : p = q

\* Nothing is queued for workers, so they never do anything.
WorkersRest == queue = <<>> /\ \A w \in Workers : at[w].pc = "idle"

Unscanned(j) == \A n \in DOMAIN scans : scans[n].job # j

\* The row of the job in hand is as the process left it, and its scan is the last.
SoloHand(p) ==
    /\ at[p].pc = "act" /\ at[p].seen = "queued" => rows[at[p].job].status = "queued"
    /\ at[p].pc \in {"scan", "put", "finish"} => rows[at[p].job].status = "running"
    /\ at[p].pc = "scan" => Unscanned(at[p].job)
    /\ at[p].pc \in {"put", "finish"} =>
        at[p].run = Len(scans) /\ shots[at[p].job] = at[p].run

\* A job that did not start was not scanned; only a completed one has a result,
\* and the screenshots are still those of that scan.
SoloRow(j) ==
    /\ rows[j].status \in {"absent", "queued"} => Unscanned(j)
    /\ rows[j].result # None => rows[j].status = "completed" /\ shots[j] = rows[j].result.run

ReportsMade == \A d \in objects : d \in Reports => d.run \in DOMAIN scans

OneScanEach == \A m, n \in DOMAIN scans : scans[m].job = scans[n].job => m = n

SoloInv ==
    /\ WorkersRest
    /\ \A p \in Apis : SoloHand(p)
    /\ \A j \in JobIds : SoloRow(j)
    /\ OneScanEach /\ ReportsMade /\ BundleIsOfOneScan /\ DiffAgainstBaseline

LEMMA InitSolo == ASSUME Init PROVE SoloInv
<1>1. queue = <<>> /\ scans = <<>> /\ objects = {} /\ \A p \in Procs : at[p].pc = "idle"
  BY DEF Init, Idle
<1>2. WorkersRest /\ \A p \in Apis : SoloHand(p)
  BY <1>1 DEF WorkersRest, SoloHand, Procs
<1>3. \A j \in JobIds : SoloRow(j)
  BY <1>1 DEF Init, SoloRow, Unscanned, Absent
<1>4. OneScanEach /\ ReportsMade /\ BundleIsOfOneScan /\ DiffAgainstBaseline
  BY <1>1 DEF OneScanEach, ReportsMade, BundleIsOfOneScan, DiffAgainstBaseline
<1> QED BY <1>2, <1>3, <1>4 DEF SoloInv

\* A step of the API process that neither scans nor stores.
LEMMA SoloStays ==
    ASSUME Solo, IInv, SoloInv, NEW p \in Apis,
           (\A q \in Procs \ {p} : at'[q] = at[q]),
           queue' = queue, scans' = scans, shots' = shots, objects' = objects,
           SoloHand(p)', (\A j \in JobIds : SoloRow(j)')
    PROVE  SoloInv'
<1>1. WorkersRest'
  BY SiteLintAssumption DEF SoloInv, WorkersRest, Procs
<1>2. \A q \in Apis : q = p
  BY DEF Solo
<1>3. OneScanEach' /\ ReportsMade' /\ BundleIsOfOneScan' /\ DiffAgainstBaseline'
  BY DEF SoloInv, OneScanEach, ReportsMade, BundleIsOfOneScan, DiffAgainstBaseline
<1> QED BY <1>1, <1>2, <1>3 DEF SoloInv

LEMMA SoloRowsStay ==
    ASSUME SoloInv, rows' = rows, scans' = scans, shots' = shots
    PROVE  \A j \in JobIds : SoloRow(j)'
BY DEF SoloInv, SoloRow, Unscanned

LEMMA FoundSolo ==
    ASSUME Solo, IInv, SoloInv, NEW p \in Apis, NEW loop, NEW r, NEW j \in JobIds,
           Found(p, loop, r, j), UNCHANGED <<objects, shots, queue, scans>>
    PROVE  SoloInv'
<1>1. at \in [Procs -> Locals] /\ p \in Procs
  BY DEF IInv, TypeOK, Procs
<1>2. /\ rows' = rows
      /\ at'[p].pc = "act" /\ at'[p].job = j /\ at'[p].seen = rows[j].status
      /\ \A q \in Procs \ {p} : at'[q] = at[q]
  BY <1>1 DEF Found, Idle
<1>3. SoloHand(p)'
  BY <1>2 DEF SoloHand
<1> QED BY <1>2, <1>3, SoloRowsStay, SoloStays

LEMMA SubmitSolo ==
    ASSUME Solo, IInv, SoloInv, NEW p \in Apis, NEW loop \in OnLoop, NEW r \in Requests,
           Submit(p, loop, r)
    PROVE  SoloInv'
<1>1. UNCHANGED <<objects, shots, queue, scans>>
  BY DEF Submit
<1>2. CASE \E j \in JobIds : Found(p, loop, r, j)
  BY <1>1, <1>2, FoundSolo
<1>3. CASE /\ at' = [at EXCEPT ![p] = [Idle EXCEPT !.pc = "insert", !.loop = loop, !.req = r]]
           /\ UNCHANGED rows
  <2>1. at \in [Procs -> Locals] /\ p \in Procs
    BY DEF IInv, TypeOK, Procs
  <2>2. at'[p].pc = "insert" /\ \A q \in Procs \ {p} : at'[q] = at[q]
    BY <1>3, <2>1 DEF Idle
  <2>3. SoloHand(p)'
    BY <2>2 DEF SoloHand
  <2> QED BY <1>1, <1>3, <2>2, <2>3, SoloRowsStay, SoloStays
<1> QED BY <1>2, <1>3 DEF Submit

LEMMA ReselectSolo ==
    ASSUME Solo, IInv, SoloInv, NEW p \in Apis, Reselect(p)
    PROVE  SoloInv'
BY FoundSolo DEF Reselect

\* The process goes idle and leaves tables, scans and objects alone.
LEMMA IdleSolo ==
    ASSUME Solo, IInv, SoloInv, NEW p \in Apis, at' = [at EXCEPT ![p] = Idle],
           UNCHANGED <<rows, objects, shots, queue, scans>>
    PROVE  SoloInv'
<1>1. at \in [Procs -> Locals] /\ p \in Procs
  BY DEF IInv, TypeOK, Procs
<1>2. at'[p].pc = "idle" /\ \A q \in Procs \ {p} : at'[q] = at[q]
  BY <1>1 DEF Idle
<1>3. SoloHand(p)'
  BY <1>2 DEF SoloHand
<1> QED BY <1>2, <1>3, SoloRowsStay, SoloStays

\* A new row is of a job that was never scanned.
LEMMA InsertSolo ==
    ASSUME Solo, IInv, SoloInv, NEW p \in Apis, Insert(p)
    PROVE  SoloInv'
<1>1. /\ at \in [Procs -> Locals] /\ p \in Procs
      /\ rows \in [JobIds -> {Absent} \cup RowType]
  BY DEF IInv, TypeOK, Procs
<1>2. UNCHANGED <<objects, shots, queue, scans>>
  BY DEF Insert
<1>3. CASE at' = [at EXCEPT ![p].pc = "reselect"] /\ UNCHANGED rows
  <2>1. at'[p].pc = "reselect" /\ \A q \in Procs \ {p} : at'[q] = at[q]
    BY <1>1, <1>3 DEF Locals
  <2>2. SoloHand(p)'
    BY <2>1 DEF SoloHand
  <2> QED BY <1>2, <1>3, <2>1, <2>2, SoloRowsStay, SoloStays
<1>4. ASSUME NEW j \in JobIds, NEW row, row.status = "queued", row.result = None, ~Exists(j),
             rows' = [rows EXCEPT ![j] = row],
             at' = [at EXCEPT ![p].pc = "act", ![p].job = j, ![p].seen = "queued"]
      PROVE  SoloInv'
  <2>1. /\ at'[p].pc = "act" /\ at'[p].job = j
        /\ \A q \in Procs \ {p} : at'[q] = at[q]
    BY <1>1, <1>4 DEF Locals
  <2>2. /\ rows'[j].status = "queued" /\ rows'[j].result = None
        /\ \A i \in JobIds \ {j} : rows'[i] = rows[i]
    BY <1>1, <1>4
  <2>3. SoloHand(p)'
    BY <2>1, <2>2 DEF SoloHand
  <2>4. Unscanned(j)
    BY <1>4 DEF SoloInv, SoloRow, Exists
  <2>5. \A i \in JobIds : SoloRow(i)'
    BY <1>2, <2>2, <2>4 DEF SoloInv, SoloRow, Unscanned
  <2> QED BY <1>2, <2>1, <2>3, <2>5, SoloStays
<1>5. ASSUME NEW j \in JobIds, ~Exists(j),
             rows' = [rows EXCEPT ![j] =
                [status |-> "queued", key |-> KeyOf(at[p].req), url |-> at[p].req.url,
                 base |-> at[p].req.base, result |-> None]],
             at' = [at EXCEPT ![p].pc = "act", ![p].job = j, ![p].seen = "queued"]
      PROVE  SoloInv'
  BY <1>4, <1>5
<1> QED BY <1>3, <1>5 DEF Insert

LEMMA MarkRunningSolo ==
    ASSUME Solo, IInv, SoloInv, NEW p \in Apis, MarkRunning(p)
    PROVE  SoloInv'
<1> DEFINE j == at[p].job
<1>1. /\ at \in [Procs -> Locals] /\ p \in Procs
      /\ rows \in [JobIds -> {Absent} \cup RowType]
  BY DEF IInv, TypeOK, Procs
<1>2. /\ UNCHANGED <<objects, shots, queue, scans>>
      /\ at[p].pc = "act" /\ at[p].seen = "queued"
      /\ rows' = [rows EXCEPT ![j].status = "running", ![j].result = rows[j].result]
      /\ at' = [at EXCEPT ![p].pc = "scan"]
  BY DEF MarkRunning, SetStatus
<1>3. HasKey(j, at[p].req)
  BY <1>1, <1>2 DEF IInv, HandsOK, HandOK
<1>4. j \in JobIds /\ rows[j].status = "queued"
  BY <1>2, <1>3 DEF HasKey, SoloInv, SoloHand
<1>5. Unscanned(j) /\ rows[j].result = None
  BY <1>4 DEF SoloInv, SoloRow
<1>6. /\ rows'[j].status = "running" /\ rows'[j].result = None
      /\ \A i \in JobIds \ {j} : rows'[i] = rows[i]
  BY <1>1, <1>2, <1>4, <1>5 DEF Absent, RowType
<1>7. /\ at'[p].pc = "scan" /\ at'[p].job = j
      /\ \A q \in Procs \ {p} : at'[q] = at[q]
  BY <1>1, <1>2 DEF Locals
<1> HIDE DEF j
<1>8. SoloHand(p)'
  BY <1>2, <1>5, <1>6, <1>7 DEF SoloHand, Unscanned
<1>9. \A i \in JobIds : SoloRow(i)'
  BY <1>2, <1>6 DEF SoloInv, SoloRow, Unscanned
<1> QED BY <1>2, <1>7, <1>8, <1>9, SoloStays

\* One more scan, of the job in hand, which had none: alone it is of its job,
\* and every result and diff is of an earlier one.
LEMMA OneMoreScan ==
    ASSUME IInv, SoloInv, NEW p \in Apis, at[p].pc = "scan",
           scans' = Append(scans, [job |-> at[p].job, url |-> at[p].req.url]),
           rows' = rows, objects' = objects,
           shots' \in {shots, [shots EXCEPT ![at[p].job] = Len(scans')]}
    PROVE  /\ Len(scans') \in DOMAIN scans'
           /\ OneScanEach' /\ ReportsMade' /\ BundleIsOfOneScan' /\ DiffAgainstBaseline'
           /\ \A j \in JobIds : SoloRow(j)'
<1> DEFINE j == at[p].job
           s == [job |-> at[p].job, url |-> at[p].req.url]
<1>1. /\ rows \in [JobIds -> {Absent} \cup RowType] /\ p \in Procs
      /\ scans \in Seq([job : JobIds, url : Urls]) /\ shots \in [JobIds -> Nat]
      /\ objects \subseteq Reports \cup Bundles
  BY DEF IInv, TypeOK, Procs
<1>2. HasKey(j, at[p].req) /\ at[p].req \in Requests
  BY <1>1 DEF IInv, HandsOK, HandOK
<1>3. j \in JobIds /\ rows[j].status = "running" /\ Unscanned(j)
  BY <1>2 DEF HasKey, SoloInv, SoloHand
<1>4. rows[j].result = None
  BY <1>3 DEF SoloInv, SoloRow
<1>5. s \in [job : JobIds, url : Urls] /\ s.job = j
  BY <1>2 DEF HasKey, Urls
<1> HIDE DEF s, j
<1>6. /\ scans' \in Seq([job : JobIds, url : Urls])
      /\ Len(scans) \in Nat /\ Len(scans') = Len(scans) + 1
      /\ DOMAIN scans' = 1 .. Len(scans') /\ DOMAIN scans = 1 .. Len(scans)
      /\ scans'[Len(scans')] = s
      /\ \A n \in 1 .. Len(scans) : scans'[n] = scans[n]
  BY <1>1, <1>5 DEF s
<1>7. \A n \in DOMAIN scans' : n = Len(scans') \/ (n \in DOMAIN scans /\ scans'[n] = scans[n])
  BY <1>6
<1>8. \A n \in DOMAIN scans : scans[n].job # j
  BY <1>3 DEF Unscanned
<1>9. OneScanEach'
  <2> SUFFICES ASSUME NEW m \in DOMAIN scans', NEW n \in DOMAIN scans',
                      scans'[m].job = scans'[n].job
               PROVE  m = n
    BY DEF OneScanEach
  <2>1. CASE m = Len(scans')
    BY <1>5, <1>6, <1>7, <1>8, <2>1
  <2>2. CASE n = Len(scans')
    BY <1>5, <1>6, <1>7, <1>8, <2>2
  <2>3. CASE m \in DOMAIN scans /\ n \in DOMAIN scans
    BY <1>7, <1>6, <2>3 DEF SoloInv, OneScanEach
  <2> QED BY <1>7, <2>1, <2>2, <2>3
<1>10. DiffAgainstBaseline'
  <2> SUFFICES ASSUME NEW d \in objects, d \in Reports, d.diff # None, d.diff.against # 0
               PROVE  /\ d.diff.against < d.run
                      /\ scans'[d.diff.against].job = d.diff.of
                      /\ \E e \in objects : e \in Reports /\ e.run = d.diff.against
    BY DEF DiffAgainstBaseline
  <2>1. /\ d.diff.against < d.run
        /\ scans[d.diff.against].job = d.diff.of
        /\ \E e \in objects : e \in Reports /\ e.run = d.diff.against
    BY DEF SoloInv, DiffAgainstBaseline
  <2>2. d.diff.against \in DOMAIN scans
    BY <2>1 DEF SoloInv, ReportsMade
  <2> QED BY <1>6, <2>1, <2>2
<1>11. ASSUME NEW i \in JobIds PROVE SoloRow(i)'
  <2>1. SoloRow(i)
    BY DEF SoloInv
  <2>2. rows'[i].status \in {"absent", "queued"} => Unscanned(i)'
    <3> SUFFICES ASSUME rows[i].status \in {"absent", "queued"}, NEW n \in DOMAIN scans'
                 PROVE  scans'[n].job # i
      BY DEF Unscanned
    <3>1. i # j
      BY <1>3
    <3> QED BY <1>5, <1>6, <1>7, <2>1, <3>1 DEF SoloRow, Unscanned
  <2>3. rows'[i].result # None => shots'[i] = shots[i]
    BY <1>1, <1>4 DEF j
  <2> QED BY <2>1, <2>2, <2>3 DEF SoloRow
<1>12. BundleIsOfOneScan'
  BY DEF SoloInv, BundleIsOfOneScan
<1>13. Len(scans') \in DOMAIN scans'
  BY <1>6
<1>14. ReportsMade'
  BY <1>6 DEF SoloInv, ReportsMade
<1> QED BY <1>9, <1>10, <1>11, <1>12, <1>13, <1>14

LEMMA ScanSolo ==
    ASSUME Solo, IInv, SoloInv, NEW p \in Apis, Scan(p)
    PROVE  SoloInv'
<1> DEFINE j == at[p].job
<1>1. /\ at \in [Procs -> Locals] /\ p \in Procs /\ shots \in [JobIds -> Nat]
  BY DEF IInv, TypeOK, Procs
<1>2. /\ UNCHANGED <<rows, objects, queue>>
      /\ at[p].pc = "scan"
      /\ scans' = Append(scans, [job |-> j, url |-> at[p].req.url])
      /\ shots' = [shots EXCEPT ![j] = Len(scans')]
      /\ at' = [at EXCEPT ![p].pc = "put", ![p].run = Len(scans')]
  BY DEF Scan
<1>3. j \in JobIds /\ rows[j].status = "running"
  BY <1>1, <1>2 DEF IInv, HandsOK, HandOK, HasKey, SoloInv, SoloHand
<1>4. /\ OneScanEach' /\ ReportsMade' /\ BundleIsOfOneScan' /\ DiffAgainstBaseline'
      /\ \A i \in JobIds : SoloRow(i)'
  BY <1>2, OneMoreScan
<1>5. /\ at'[p].pc = "put" /\ at'[p].job = j /\ at'[p].run = Len(scans')
      /\ \A q \in Procs \ {p} : at'[q] = at[q]
  BY <1>1, <1>2 DEF Locals
<1>6. shots'[j] = Len(scans')
  BY <1>1, <1>2, <1>3
<1> HIDE DEF j
<1>7. SoloHand(p)'
  BY <1>2, <1>3, <1>5, <1>6 DEF SoloHand
<1>8. WorkersRest'
  BY <1>2, <1>5, SiteLintAssumption DEF SoloInv, WorkersRest, Procs
<1>9. \A q \in Apis : q = p
  BY DEF Solo
<1> QED BY <1>4, <1>7, <1>8, <1>9 DEF SoloInv

\* The scan raises, on the loop or off it: the job stays running, without a result.
LEMMA ScanFailsSolo ==
    ASSUME Solo, IInv, SoloInv, NEW p \in Apis, at[p].pc = "scan",
           scans' = Append(scans, [job |-> at[p].job, url |-> at[p].req.url]),
           rows' = rows, objects' = objects, queue' = queue,
           shots' \in {shots, [shots EXCEPT ![at[p].job] = Len(scans')]},
           at' = [at EXCEPT ![p] = Idle]
    PROVE  SoloInv'
<1>1. /\ OneScanEach' /\ ReportsMade' /\ BundleIsOfOneScan' /\ DiffAgainstBaseline'
      /\ \A i \in JobIds : SoloRow(i)'
  BY OneMoreScan
<1>2. at \in [Procs -> Locals] /\ p \in Procs
  BY DEF IInv, TypeOK, Procs
<1>3. at'[p].pc = "idle" /\ \A q \in Procs \ {p} : at'[q] = at[q]
  BY <1>2 DEF Idle
<1>4. SoloHand(p)'
  BY <1>3 DEF SoloHand
<1>5. WorkersRest'
  BY <1>3, SiteLintAssumption DEF SoloInv, WorkersRest, Procs
<1>6. \A q \in Apis : q = p
  BY DEF Solo
<1> QED BY <1>1, <1>4, <1>5, <1>6 DEF SoloInv

\* The baseline's report is of an earlier scan than the last, which is of the
\* job in hand, and that job has no result yet.
LEMMA PutSolo ==
    ASSUME Solo, IInv, SoloInv, NEW p \in Apis, Put(p)
    PROVE  SoloInv'
<1> DEFINE doc == [run |-> at[p].run, diff |-> BaselineDiff(p)]
           b == at[p].req.base
<1>1. /\ at \in [Procs -> Locals] /\ p \in Procs
      /\ scans \in Seq([job : JobIds, url : Urls])
      /\ rows \in [JobIds -> {Absent} \cup RowType]
  BY DEF IInv, TypeOK, Procs
<1>2. /\ UNCHANGED <<rows, shots, queue, scans>>
      /\ at[p].pc = "put" /\ objects' = objects \cup {doc}
      /\ at' = [at EXCEPT ![p].pc = "finish", ![p].doc = doc]
  BY DEF Put
<1>3. /\ at[p].job \in JobIds /\ rows[at[p].job].status = "running"
      /\ at[p].run = Len(scans) /\ shots[at[p].job] = at[p].run
      /\ at[p].run \in DOMAIN scans /\ scans[at[p].run].job = at[p].job
      /\ at[p].req \in Requests
  <2>1. /\ HasKey(at[p].job, at[p].req) /\ at[p].req \in Requests
        /\ at[p].run \in DOMAIN scans
        /\ scans[at[p].run] = [job |-> at[p].job, url |-> at[p].req.url]
    BY <1>1, <1>2 DEF IInv, HandsOK, HandOK
  <2>2. /\ rows[at[p].job].status = "running"
        /\ at[p].run = Len(scans) /\ shots[at[p].job] = at[p].run
    BY <1>2 DEF SoloInv, SoloHand
  <2>3. scans[at[p].run].job = at[p].job
    BY <2>1
  <2> QED BY <2>1, <2>2, <2>3 DEF HasKey
<1>4. doc.run = at[p].run /\ doc.diff = BaselineDiff(p) /\ doc \notin Bundles
  <2>1. ASSUME NEW z \in Bundles PROVE doc # z
    <3>1. DOMAIN z = {"run", "shots"} /\ DOMAIN doc = {"run", "diff"}
      BY DEF Bundles
    <3> QED BY <3>1
  <2> QED BY <2>1
<1>5. p \notin Workers
  BY SiteLintAssumption
<1>6. ASSUME doc.diff # None, doc.diff.against # 0
      PROVE  /\ doc.diff.against < doc.run
             /\ scans[doc.diff.against].job = doc.diff.of
             /\ \E e \in objects : e \in Reports /\ e.run = doc.diff.against
  <2>1. b # None /\ BaselineDiff(p) =
            [of |-> b, against |-> IF rows[b].result = None THEN 0 ELSE rows[b].result.run]
    BY <1>4, <1>5, <1>6 DEF BaselineDiff
  <2>2. b \in JobIds
    BY <1>3, <2>1, SiteLintAssumption DEF Bases
  <2>3. rows[b].result # None /\ doc.diff.of = b /\ doc.diff.against = rows[b].result.run
    BY <1>4, <1>6, <2>1
  <2>4. /\ rows[b].result \in objects /\ rows[b].result \in Reports
        /\ rows[b].result.run \in DOMAIN scans /\ scans[rows[b].result.run].job = b
    BY <1>1, <2>2, <2>3 DEF IInv, ResultsOK, ResultReadable, ResultAnswersJob, RowType, Absent
  <2>5. rows[b].status = "completed"
    BY <2>2, <2>3 DEF SoloInv, SoloRow
  <2>6. rows[b].result.run # Len(scans)
    BY <1>3, <2>4, <2>5
  <2>7. rows[b].result.run < Len(scans)
    <3>1. rows[b].result.run \in 1 .. Len(scans) /\ Len(scans) \in Nat
      BY <1>1, <2>4
    <3> QED BY <2>6, <3>1
  <2> QED BY <1>3, <1>4, <2>3, <2>4, <2>7
<1> HIDE DEF doc
<1>7. DiffAgainstBaseline'
  <2> SUFFICES ASSUME NEW d \in objects', d \in Reports, d.diff # None, d.diff.against # 0
               PROVE  /\ d.diff.against < d.run
                      /\ scans[d.diff.against].job = d.diff.of
                      /\ \E e \in objects : e \in Reports /\ e.run = d.diff.against
    BY <1>2 DEF DiffAgainstBaseline
  <2>1. CASE d = doc
    BY <1>6, <2>1
  <2>2. CASE d \in objects
    BY <2>2 DEF SoloInv, DiffAgainstBaseline
  <2> QED BY <1>2, <2>1, <2>2
<1>8. BundleIsOfOneScan' /\ ReportsMade' /\ OneScanEach'
  BY <1>2, <1>3, <1>4 DEF SoloInv, BundleIsOfOneScan, ReportsMade, OneScanEach
<1>9. /\ at'[p].pc = "finish" /\ at'[p].job = at[p].job /\ at'[p].run = at[p].run
      /\ \A q \in Procs \ {p} : at'[q] = at[q]
  BY <1>1, <1>2 DEF Locals
<1>10. SoloHand(p)'
  BY <1>2, <1>3, <1>9 DEF SoloHand
<1>11. WorkersRest'
  BY <1>2, <1>9, SiteLintAssumption DEF SoloInv, WorkersRest, Procs
<1>12. \A j \in JobIds : SoloRow(j)'
  BY <1>2, SoloRowsStay
<1>13. \A q \in Apis : q = p
  BY DEF Solo
<1> QED BY <1>7, <1>8, <1>10, <1>11, <1>12, <1>13 DEF SoloInv

LEMMA FinishSolo ==
    ASSUME Solo, IInv, SoloInv, NEW p \in Apis, Finish(p)
    PROVE  SoloInv'
<1> DEFINE j == at[p].job
           doc == at[p].doc
<1>1. /\ at \in [Procs -> Locals] /\ p \in Procs
      /\ rows \in [JobIds -> {Absent} \cup RowType]
  BY DEF IInv, TypeOK, Procs
<1>2. /\ UNCHANGED <<objects, shots, queue, scans>>
      /\ at[p].pc = "finish"
      /\ rows' = [rows EXCEPT ![j].status = "completed",
                              ![j].result = IF doc = None THEN rows[j].result ELSE doc]
      /\ at' = [at EXCEPT ![p] = Idle]
  BY DEF Finish, SetStatus, Return
<1>3. HasKey(j, at[p].req) /\ doc \in Reports /\ doc.run = at[p].run
  BY <1>1, <1>2 DEF IInv, HandsOK, HandOK
<1>4. j \in JobIds /\ shots[j] = at[p].run /\ doc # None
  BY <1>2, <1>3, SiteLintAssumption DEF HasKey, SoloInv, SoloHand
<1>5. rows[j] \in RowType
  BY <1>1, <1>3 DEF HasKey, Exists, Absent
<1>6. /\ rows'[j].status = "completed" /\ rows'[j].result = doc
      /\ \A i \in JobIds \ {j} : rows'[i] = rows[i]
  BY <1>1, <1>2, <1>4, <1>5 DEF RowType
<1>7. at'[p].pc = "idle" /\ \A q \in Procs \ {p} : at'[q] = at[q]
  BY <1>1, <1>2 DEF Idle
<1>8. SoloHand(p)'
  BY <1>7 DEF SoloHand
<1> HIDE DEF j, doc
<1>9. \A i \in JobIds : SoloRow(i)'
  BY <1>2, <1>3, <1>4, <1>6 DEF SoloInv, SoloRow, Unscanned
<1> QED BY <1>2, <1>7, <1>8, <1>9, SoloStays

LEMMA ZipReportSolo ==
    ASSUME IInv, SoloInv, NEW j \in JobIds, NEW p \in Apis, ZipReport(p, j)
    PROVE  SoloInv'
<1>1. /\ UNCHANGED <<rows, shots, queue, at, scans>>
      /\ rows[j].result # None /\ objects' = objects \cup {Bundle(j)}
  BY DEF ZipReport
<1>2. Bundle(j).run = Bundle(j).shots
  BY <1>1 DEF Bundle, SoloInv, SoloRow
<1>3. Bundle(j) \notin Reports
  <2>1. ASSUME NEW d \in Reports PROVE Bundle(j) # d
    <3>1. DOMAIN d = {"run", "diff"} /\ DOMAIN Bundle(j) = {"run", "shots"}
      BY DEF Reports, Bundle
    <3> QED BY <3>1
  <2> QED BY <2>1
<1>4. WorkersRest' /\ (\A q \in Apis : SoloHand(q)') /\ (\A i \in JobIds : SoloRow(i)') /\ OneScanEach'
  BY <1>1 DEF SoloInv, WorkersRest, SoloHand, SoloRow, Unscanned, OneScanEach
<1>5. ReportsMade' /\ BundleIsOfOneScan'
  BY <1>1, <1>2, <1>3 DEF SoloInv, ReportsMade, BundleIsOfOneScan
<1>6. DiffAgainstBaseline'
  BY <1>1, <1>3 DEF SoloInv, DiffAgainstBaseline
<1> QED BY <1>4, <1>5, <1>6 DEF SoloInv

LEMMA FaultySolo ==
    ASSUME Solo, IInv, SoloInv, NEW p \in Apis, Faulty(p)
    PROVE  SoloInv'
<1>1. CASE Crash(p) \/ DispatchRaises(p)
  BY <1>1, IdleSolo DEF Crash, DispatchRaises, Fault
<1>2. CASE ScanRaises(p)
  BY <1>2, ScanFailsSolo DEF ScanRaises, Fault
<1> QED BY <1>1, <1>2 DEF Faulty

LEMMA NextSolo ==
    ASSUME Solo, IInv, SoloInv, [Next]_vars
    PROVE  SoloInv'
<1>1. ASSUME NEW p \in Apis, NEW loop \in OnLoop, NEW r \in Requests, Submit(p, loop, r)
      PROVE  SoloInv'
  BY <1>1, SubmitSolo
<1>2. ASSUME NEW p \in Apis, StartScan(p)
      PROVE  SoloInv'
  <2>1. CASE Answer(p)
    BY <2>1, IdleSolo DEF Answer, Return
  <2>2. CASE LoopRefusesScan(p)
    BY <2>2, ScanFailsSolo DEF LoopRefusesScan
  <2>3. ~Dispatch(p)
    BY DEF Dispatch, Solo
  <2> QED BY <1>2, <2>1, <2>2, <2>3, InsertSolo, ReselectSolo, MarkRunningSolo, ScanSolo,
             PutSolo, FinishSolo DEF StartScan
<1>3. ASSUME NEW p \in Apis, NEW j \in JobIds, ZipReport(p, j)
      PROVE  SoloInv'
  BY <1>3, ZipReportSolo
<1>4. ASSUME NEW w \in Workers
      PROVE  ~RunTask(w) /\ ~Faulty(w)
  <2>1. queue = <<>> /\ at[w].pc = "idle"
    BY DEF SoloInv, WorkersRest
  <2> QED BY <2>1 DEF RunTask, Take, MarkRunning, Scan, Put, Finish,
                      Faulty, Crash, ScanRaises, DispatchRaises
<1>5. ASSUME NEW p \in Procs, Faulty(p)
      PROVE  SoloInv'
  BY <1>4, <1>5, FaultySolo DEF Procs
<1>6. CASE UNCHANGED vars
  BY <1>6 DEF vars, SoloInv, WorkersRest, SoloHand, SoloRow, Unscanned, OneScanEach,
              ReportsMade, BundleIsOfOneScan, DiffAgainstBaseline
<1> QED BY <1>1, <1>2, <1>3, <1>4, <1>5, <1>6 DEF Next

\* Inline mode with one API process: while a scan is under way its job is the
\* one in hand and has no result; a job that has one was scanned by that scan.
THEOREM SoloInvariant == ASSUME Solo PROVE Spec => []SoloInv
<1>1. Init => SoloInv
  BY InitSolo
<1>2. IInv /\ SoloInv /\ [Next]_vars => SoloInv'
  BY NextSolo
<1> QED BY <1>1, <1>2, SiteLintInvariant, PTL DEF Spec

\* A job is scanned at most once, whatever is repeated, crashes or raises.
THEOREM SoloScannedOnce == ASSUME Solo PROVE Spec => []ScannedOnce
<1>1. ASSUME SoloInv PROVE ScannedOnce
  <2> SUFFICES ASSUME NEW j \in JobIds
               PROVE  Cardinality({n \in DOMAIN scans : scans[n].job = j}) <= 1
    BY DEF ScannedOnce
  <2> DEFINE S == {n \in DOMAIN scans : scans[n].job = j}
  <2>1. \A m, n \in S : m = n
    BY <1>1 DEF SoloInv, OneScanEach
  <2>2. CASE S = {}
    BY <2>2, FS_EmptySet
  <2>3. CASE \E n : n \in S
    <3>1. PICK n : n \in S
      BY <2>3
    <3>2. S = {n}
      BY <2>1, <3>1
    <3> HIDE DEF S
    <3>3. Cardinality(S) = 1
      BY <3>2, FS_Singleton
    <3> QED BY <3>3 DEF S
  <2> QED BY <2>2, <2>3
<1> QED BY <1>1, SoloInvariant, PTL

\* An exported bundle holds the screenshots of the scan its report is about,
\* whenever get_report builds it.
THEOREM SoloBundleIsOfOneScan == ASSUME Solo PROVE Spec => []BundleIsOfOneScan
<1>1. SoloInv => BundleIsOfOneScan
  BY DEF SoloInv
<1> QED BY <1>1, SoloInvariant, PTL

\* _baseline_diff compares with a report of the job that was named, of an
\* earlier scan, also when the job names itself.
THEOREM SoloDiffAgainstBaseline == ASSUME Solo PROVE Spec => []DiffAgainstBaseline
<1>1. SoloInv => DiffAgainstBaseline
  BY DEF SoloInv
<1> QED BY <1>1, SoloInvariant, PTL

-----------------------------------------------------------------------------
(* start_scan implements JobLifecycle                                      *)

\* The callers' view of key k.
Phase(k) == IF HasRow(k) THEN rows[RowOf(k)].status ELSE "absent"
Report(k) == IF HasRow(k) THEN rows[RowOf(k)].result ELSE None

\* Rows are one per key, so the row of a key is the one that has it.
LEMMA RowOfKey ==
    ASSUME KeysUnique, NEW j \in JobIds, Exists(j)
    PROVE  /\ Phase(rows[j].key) = rows[j].status
           /\ Report(rows[j].key) = rows[j].result
<1> DEFINE k == rows[j].key
<1>1. HasRow(k)
  BY DEF HasRow
<1>2. RowOf(k) \in JobIds /\ Exists(RowOf(k)) /\ rows[RowOf(k)].key = k
  BY DEF RowOf
<1>3. RowOf(k) = j
  BY <1>2 DEF KeysUnique
<1> QED BY <1>1, <1>3 DEF Phase, Report

LEMMA RowOfKeyNext ==
    ASSUME KeysUnique', NEW j \in JobIds, Exists(j)', NEW k, k = rows'[j].key
    PROVE  Phase(k)' = rows'[j].status /\ Report(k)' = rows'[j].result
<1>1. HasRow(k)'
  BY DEF HasRow
<1>2. RowOf(k)' \in JobIds /\ Exists(RowOf(k))' /\ rows'[RowOf(k)'].key = k
  BY DEF RowOf, Exists
<1>3. RowOf(k)' = j
  BY <1>2 DEF KeysUnique, Exists
<1> QED BY <1>1, <1>3 DEF Phase, Report

\* When one row is written, the view of its key changes with it and no other.
LEMMA OneRowWritten ==
    ASSUME KeysUnique, KeysUnique', RowsGrow, NEW j \in JobIds, Exists(j)',
           (\A i \in JobIds \ {j} : rows'[i] = rows[i]),
           NEW k, k = rows'[j].key
    PROVE  /\ Phase(k)' = rows'[j].status /\ Report(k)' = rows'[j].result
           /\ Exists(j) => Phase(k) = rows[j].status /\ Report(k) = rows[j].result
           /\ ~Exists(j) => Phase(k) = "absent" /\ Report(k) = None
           /\ \A h \in Keys \ {k} : Phase(h)' = Phase(h) /\ Report(h)' = Report(h)
<1>1. Phase(k)' = rows'[j].status /\ Report(k)' = rows'[j].result
  BY RowOfKeyNext
<1>2. Exists(j) => Phase(k) = rows[j].status /\ Report(k) = rows[j].result
  BY RowOfKey DEF RowsGrow
<1>3. ASSUME ~Exists(j) PROVE ~HasRow(k)
  <2> SUFFICES ASSUME NEW i \in JobIds, Exists(i), rows[i].key = k PROVE FALSE
    BY DEF HasRow
  <2>1. i # j /\ rows'[i] = rows[i]
    BY <1>3
  <2> QED BY <2>1 DEF KeysUnique, Exists
<1>4. ASSUME NEW h \in Keys \ {k}
      PROVE  Phase(h)' = Phase(h) /\ Report(h)' = Report(h)
  <2>1. CASE \E i \in JobIds : Exists(i) /\ rows[i].key = h
    <3>1. PICK i \in JobIds : Exists(i) /\ rows[i].key = h
      BY <2>1
    <3>2. i # j
      BY <1>4, <3>1 DEF RowsGrow
    <3>3. Exists(i)' /\ rows'[i] = rows[i]
      BY <3>1, <3>2 DEF Exists
    <3> QED BY <3>1, <3>3, RowOfKey, RowOfKeyNext
  <2>2. CASE ~ \E i \in JobIds : Exists(i) /\ rows[i].key = h
    <3>1. ~HasRow(h)
      BY <2>2 DEF HasRow
    <3>2. ~HasRow(h)'
      <4> SUFFICES ASSUME NEW i \in JobIds, Exists(i)', rows'[i].key = h PROVE FALSE
        BY DEF HasRow
      <4>1. i # j
        BY <1>4
      <4> QED BY <2>2, <4>1 DEF Exists
    <3> QED BY <3>1, <3>2 DEF Phase, Report
  <2> QED BY <2>1, <2>2
<1> QED BY <1>1, <1>2, <1>3, <1>4 DEF Phase, Report

LEMMA SameTableSameView ==
    ASSUME rows' = rows
    PROVE  \A k : Phase(k)' = Phase(k) /\ Report(k)' = Report(k)
BY DEF Phase, Report, HasRow, RowOf, Exists

Others(k) == \A h \in Keys \ {k} : Phase(h)' = Phase(h) /\ Report(h)' = Report(h)

\* What happens to the view of key k is a step of JobLifecycle.
LEMMA ViewCreates ==
    ASSUME NEW k \in Keys, Others(k), Phase(k) = "absent", Phase(k)' = "queued",
           Report(k)' = Report(k)
    PROVE  Lifecycle!Create(k)
<1>1. [h \in Keys |-> Phase(h)]' = [[h \in Keys |-> Phase(h)] EXCEPT ![k] = "queued"]
  BY DEF Others
<1>2. [h \in Keys |-> Report(h)]' = [h \in Keys |-> Report(h)]
  BY DEF Others
<1> QED BY <1>1, <1>2 DEF Lifecycle!Create, Lifecycle!Enter, Phase, Report

LEMMA ViewBegins ==
    ASSUME NEW k \in Keys, Others(k), Phase(k) # "absent",
           Phase(k) = "queued" \/ AsyncMode \/ Cardinality(Apis) > 1,
           Phase(k)' = "running", Report(k)' = Report(k)
    PROVE  Lifecycle!Begin(k)
<1>1. [h \in Keys |-> Phase(h)]' = [[h \in Keys |-> Phase(h)] EXCEPT ![k] = "running"]
  BY DEF Others
<1>2. [h \in Keys |-> Report(h)]' = [h \in Keys |-> Report(h)]
  BY DEF Others
<1> QED BY <1>1, <1>2 DEF Lifecycle!Begin, Lifecycle!Enter, Phase, Report

LEMMA ViewCompletes ==
    ASSUME NEW k \in Keys, Others(k), Phase(k) # "absent",
           Phase(k) = "running" \/ AsyncMode \/ Cardinality(Apis) > 1,
           Phase(k)' = "completed", Report(k)' \in Reports
    PROVE  Lifecycle!Complete(k)
<1>1. [h \in Keys |-> Phase(h)]' = [[h \in Keys |-> Phase(h)] EXCEPT ![k] = "completed"]
  BY DEF Others
<1>2. [h \in Keys |-> Report(h)]' = [[h \in Keys |-> Report(h)] EXCEPT ![k] = Report(k)']
  BY DEF Others
<1>3. [h \in Keys |-> Report(h)]'[k] = Report(k)'
  OBVIOUS
<1> QED BY <1>1, <1>2, <1>3 DEF Lifecycle!Complete, Lifecycle!Enter, Phase, Report

LEMMA InsertView ==
    ASSUME IInv, IInv', NEW p \in Procs, Insert(p)
    PROVE  (\E k \in Keys : Lifecycle!Create(k)) \/ rows' = rows
<1>1. /\ rows \in [JobIds -> {Absent} \cup RowType] /\ at[p].req \in Requests
      /\ KeysUnique /\ KeysUnique'
  BY DEF IInv, TypeOK, HandsOK, HandOK, Insert
<1>2. ASSUME NEW j \in JobIds, ~Exists(j),
             rows' = [rows EXCEPT ![j] =
                [status |-> "queued", key |-> KeyOf(at[p].req), url |-> at[p].req.url,
                 base |-> at[p].req.base, result |-> None]]
      PROVE  \E k \in Keys : Lifecycle!Create(k)
  <2> DEFINE k == KeyOf(at[p].req)
  <2>1. k \in Keys
    BY <1>1 DEF Keys
  <2>2. /\ rows'[j].status = "queued" /\ rows'[j].key = k /\ rows'[j].result = None
        /\ \A i \in JobIds \ {j} : rows'[i] = rows[i]
    BY <1>1, <1>2
  <2>3. PICK c \in Keys : c = k
    BY <2>1
  <2>4. Exists(j)' /\ RowsGrow
    BY <1>2, <2>2 DEF Exists, RowsGrow
  <2> HIDE DEF k
  <2>5. Phase(c) = "absent" /\ Phase(c)' = "queued" /\ Report(c)' = Report(c) /\ Others(c)
    BY <1>1, <1>2, <2>2, <2>3, <2>4, OneRowWritten DEF Others
  <2> QED BY <2>5, ViewCreates
<1> QED BY <1>2 DEF Insert

LEMMA MarkRunningView ==
    ASSUME IInv, IInv', NEW p \in Procs, MarkRunning(p),
           rows[at[p].job].status = "queued" \/ AsyncMode \/ Cardinality(Apis) > 1
    PROVE  \E k \in Keys : Lifecycle!Begin(k)
<1>0. PICK j \in JobIds : j = at[p].job
  BY DEF MarkRunning, IInv, HandsOK, HandOK, HasKey
<1>1. /\ rows \in [JobIds -> {Absent} \cup RowType]
      /\ KeysUnique /\ KeysUnique'
  BY DEF IInv, TypeOK
<1>2. rows' = [rows EXCEPT ![j].status = "running", ![j].result = rows[j].result]
  BY <1>0 DEF MarkRunning, SetStatus
<1>3. HasKey(j, at[p].req) /\ at[p].req \in Requests
  BY <1>0 DEF MarkRunning, IInv, HandsOK, HandOK
<1>4. PICK k \in Keys : k = KeyOf(at[p].req)
  BY <1>3 DEF Keys
<1>5. j \in JobIds /\ Exists(j) /\ rows[j].key = k /\ rows[j] \in RowType
  BY <1>1, <1>3, <1>4 DEF HasKey, Exists, Absent
<1>6. /\ rows'[j].status = "running" /\ rows'[j].key = k /\ rows'[j].result = rows[j].result
      /\ \A i \in JobIds \ {j} : rows'[i] = rows[i]
  BY <1>1, <1>2, <1>5 DEF RowType
<1>7. Exists(j)' /\ RowsGrow
  BY <1>5, <1>6 DEF Exists, RowsGrow
<1>8. /\ Phase(k) = rows[j].status /\ Report(k) = rows[j].result
      /\ Phase(k)' = "running" /\ Report(k)' = rows[j].result /\ Others(k)
  BY <1>1, <1>5, <1>6, <1>7, OneRowWritten DEF Others
<1>9. Phase(k) # "absent" /\ (Phase(k) = "queued" \/ AsyncMode \/ Cardinality(Apis) > 1)
  BY <1>0, <1>5, <1>8 DEF Exists
<1>10. Lifecycle!Begin(k)
  BY <1>8, <1>9, ViewBegins
<1> QED BY <1>10

LEMMA FinishView ==
    ASSUME IInv, IInv', NEW p \in Procs, Finish(p),
           rows[at[p].job].status = "running" \/ AsyncMode \/ Cardinality(Apis) > 1
    PROVE  \E k \in Keys : Lifecycle!Complete(k)
<1> DEFINE doc == at[p].doc
<1>0. PICK j \in JobIds : j = at[p].job
  BY DEF Finish, IInv, HandsOK, HandOK, HasKey
<1>1. /\ rows \in [JobIds -> {Absent} \cup RowType]
      /\ KeysUnique /\ KeysUnique'
  BY DEF IInv, TypeOK
<1>2. rows' = [rows EXCEPT ![j].status = "completed",
                           ![j].result = IF doc = None THEN rows[j].result ELSE doc]
  BY <1>0 DEF Finish, SetStatus
<1>3. HasKey(j, at[p].req) /\ at[p].req \in Requests /\ doc \in Reports
  BY <1>0 DEF Finish, IInv, HandsOK, HandOK
<1>4. PICK k \in Keys : k = KeyOf(at[p].req)
  BY <1>3 DEF Keys
<1>5. j \in JobIds /\ Exists(j) /\ rows[j].key = k /\ rows[j] \in RowType /\ doc # None
  BY <1>1, <1>3, <1>4, SiteLintAssumption DEF HasKey, Exists, Absent
<1>6. /\ rows'[j].status = "completed" /\ rows'[j].key = k /\ rows'[j].result = doc
      /\ \A i \in JobIds \ {j} : rows'[i] = rows[i]
  BY <1>1, <1>2, <1>5 DEF RowType
<1>7. Exists(j)' /\ RowsGrow
  BY <1>5, <1>6 DEF Exists, RowsGrow
<1> HIDE DEF doc
<1>8. /\ Phase(k) = rows[j].status
      /\ Phase(k)' = "completed" /\ Report(k)' = doc /\ Others(k)
  BY <1>1, <1>5, <1>6, <1>7, OneRowWritten DEF Others
<1>9. Phase(k) # "absent" /\ (Phase(k) = "running" \/ AsyncMode \/ Cardinality(Apis) > 1)
  BY <1>0, <1>5, <1>8 DEF Exists
<1>10. Lifecycle!Complete(k)
  BY <1>3, <1>8, <1>9, ViewCompletes
<1> QED BY <1>10

LEMMA InitView == ASSUME Init PROVE Lifecycle!Init
BY DEF Init, Lifecycle!Init, HasRow, Exists, Absent

\* A step that leaves the table alone is a stutter; one that writes a row finds
\* it in the state JobLifecycle asks for, or repeats are allowed.
LEMMA NextView ==
    ASSUME IInv, IInv', [Next]_vars,
           AsyncMode \/ Cardinality(Apis) > 1 \/ SoloInv
    PROVE  [Lifecycle!Next]_(Lifecycle!vars)
<1>1. ASSUME rows' = rows
      PROVE  UNCHANGED Lifecycle!vars
  BY <1>1 DEF Lifecycle!vars, HasRow, RowOf, Exists
<1>2. ASSUME NEW p \in Apis, StartScan(p)
      PROVE  Lifecycle!Next \/ rows' = rows
  <2>1. p \in Procs
    BY DEF Procs
  <2>2. CASE Insert(p)
    BY <2>1, <2>2, InsertView DEF Lifecycle!Next
  <2>3. CASE MarkRunning(p)
    <3>1. rows[at[p].job].status = "queued" \/ AsyncMode \/ Cardinality(Apis) > 1
      BY <2>3 DEF SoloInv, SoloHand, MarkRunning
    <3> QED BY <2>1, <2>3, <3>1, MarkRunningView DEF Lifecycle!Next
  <2>4. CASE Finish(p)
    <3>1. rows[at[p].job].status = "running" \/ AsyncMode \/ Cardinality(Apis) > 1
      BY <2>4 DEF SoloInv, SoloHand, Finish
    <3> QED BY <2>1, <2>4, <3>1, FinishView DEF Lifecycle!Next
  <2> QED BY <1>2, <2>2, <2>3, <2>4 DEF StartScan, Reselect, Found, Answer, Dispatch, Scan,
                                        LoopRefusesScan, Put
<1>3. ASSUME NEW p \in Workers, RunTask(p)
      PROVE  Lifecycle!Next \/ rows' = rows
  <2>1. p \in Procs
    BY DEF Procs
  <2>2. SoloInv => queue = <<>> /\ at[p].pc = "idle"
    BY DEF SoloInv, WorkersRest
  <2>3. CASE MarkRunning(p)
    <3>1. AsyncMode \/ Cardinality(Apis) > 1
      BY <2>2, <2>3 DEF MarkRunning
    <3> QED BY <2>1, <2>3, <3>1, MarkRunningView DEF Lifecycle!Next
  <2>4. CASE Finish(p)
    <3>1. AsyncMode \/ Cardinality(Apis) > 1
      BY <2>2, <2>4 DEF Finish
    <3> QED BY <2>1, <2>4, <3>1, FinishView DEF Lifecycle!Next
  <2> QED BY <1>3, <2>3, <2>4 DEF RunTask, Take, Scan, Put
<1>4. ASSUME NEW p \in Apis, NEW loop \in OnLoop, NEW r \in Requests, Submit(p, loop, r)
      PROVE  rows' = rows
  BY <1>4 DEF Submit, Found
<1>5. ASSUME NEW p \in Apis, NEW j \in JobIds, ZipReport(p, j)
      PROVE  rows' = rows
  BY <1>5 DEF ZipReport
<1>6. ASSUME NEW p \in Procs, Faulty(p)
      PROVE  rows' = rows
  BY <1>6 DEF Faulty, Crash, ScanRaises, DispatchRaises
<1>7. CASE UNCHANGED vars
  BY <1>1, <1>7 DEF vars
<1> QED BY <1>1, <1>2, <1>3, <1>4, <1>5, <1>6, <1>7 DEF Next

\* start_scan implements JobLifecycle, for any finite number of API processes,
\* workers, keys and faults: with repeats in async mode or with several API
\* processes, and without them, so that nothing completed runs again, in
\* inline mode with one.
THEOREM SiteLintImplementsLifecycle == ASSUME IsFiniteSet(Apis) PROVE Spec => LifecycleSpec
<1>1. Init => Lifecycle!Init
  BY InitView
<1>2. CASE AsyncMode \/ Cardinality(Apis) > 1
  <2>1. IInv /\ IInv' /\ [Next]_vars => [Lifecycle!Next]_(Lifecycle!vars)
    BY <1>2, NextView
  <2> QED BY <1>1, <2>1, SiteLintInvariant, PTL DEF Spec, LifecycleSpec, Lifecycle!Spec
<1>3. CASE ~(AsyncMode \/ Cardinality(Apis) > 1)
  <2>1. Solo
    <3> SUFFICES ASSUME NEW p \in Apis, NEW q \in Apis, p # q PROVE FALSE
      BY <1>3 DEF Solo
    <3>1. Cardinality({p, q}) = 2
      <4>1. IsFiniteSet({p}) /\ Cardinality({p}) = 1
        BY FS_Singleton
      <4>2. Cardinality({p} \cup {q}) = Cardinality({p}) + 1
        BY <4>1, FS_AddElement
      <4>3. {p} \cup {q} = {p, q}
        OBVIOUS
      <4> QED BY <4>1, <4>2, <4>3
    <3>2. Cardinality({p, q}) <= Cardinality(Apis)
      BY FS_Subset
    <3>3. Cardinality(Apis) \in Nat
      BY FS_CardinalityType
    <3> QED BY <1>3, <3>1, <3>2, <3>3
  <2>2. IInv /\ IInv' /\ SoloInv /\ [Next]_vars => [Lifecycle!Next]_(Lifecycle!vars)
    BY NextView
  <2>3. Spec => []SoloInv
    BY <2>1, SoloInvariant
  <2> QED BY <1>1, <2>2, <2>3, SiteLintInvariant, PTL DEF Spec, LifecycleSpec, Lifecycle!Spec
<1> QED BY <1>2, <1>3
=============================================================================
