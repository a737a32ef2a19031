--------------------------- MODULE SiteLintProofs ---------------------------
(***************************************************************************)
(* What holds of SiteLint in both modes, for every number of processes,    *)
(* keys, jobs, crashes and redeliveries: callers of one key are given one  *)
(* job, a result_ref that can be seen can be read, and it answers the job. *)
(*                                                                         *)
(* None of this is inductive alone.  A process works for several steps on  *)
(* what it read before, so the invariant has to say that what it holds     *)
(* stays true while others act: rows never lose or change their key,       *)
(* objects are never removed and scans never rewritten (Grows).            *)
(***************************************************************************)
EXTENDS SiteLint, TLAPS

\* The rows are one per key.
KeysUnique ==
    \A i, j \in JobIds : Exists(i) /\ Exists(j) /\ rows[i].key = rows[j].key => i = j

\* Job j has a row, and of the key of request r.
HasKey(j, r) == j \in JobIds /\ Exists(j) /\ rows[j].key = KeyOf(r)

\* What a process holds is about a job of its request's key, made by its own
\* scan, and in the store.
HandOK(p) ==
    /\ at[p].pc # "idle" => at[p].req \in Requests
    /\ at[p].pc \in {"act", "scan", "put", "finish"} => HasKey(at[p].job, at[p].req)
    /\ at[p].pc \in {"put", "finish"} =>
        /\ at[p].run \in DOMAIN scans
        /\ scans[at[p].run] = [job |-> at[p].job, url |-> at[p].req.url]
    /\ at[p].pc = "finish" =>
        at[p].doc \in Reports /\ at[p].doc \in objects /\ at[p].doc.run = at[p].run

HandsOK == \A p \in Procs : HandOK(p)

QueueOK == \A i \in 1 .. Len(queue) : HasKey(queue[i].job, queue[i].req)

AnswersOK ==
    \A x \in answers : x.job \in JobIds /\ Exists(x.job) /\ rows[x.job].key = x.key

ResultsOK == ResultReadable /\ ResultAnswersJob

IInv == TypeOK /\ KeysUnique /\ HandsOK /\ QueueOK /\ AnswersOK /\ ResultsOK

\* What no step takes back.
RowsGrow ==
    \A j \in JobIds : Exists(j) => Exists(j)' /\ rows'[j].key = rows[j].key

Grows ==
    /\ RowsGrow
    /\ objects \subseteq objects'
    /\ \A n \in DOMAIN scans : n \in DOMAIN scans' /\ scans'[n] = scans[n]

\* A process that does nothing keeps what it holds.
LEMMA HandStays ==
    ASSUME NEW q \in Procs, HandOK(q), Grows, at'[q] = at[q]
    PROVE  HandOK(q)'
<1>1. HasKey(at[q].job, at[q].req) => HasKey(at[q].job, at[q].req)'
  BY DEF Grows, RowsGrow, HasKey
<1>2. \A n \in DOMAIN scans : n \in DOMAIN scans' /\ scans'[n] = scans[n]
  BY DEF Grows
<1> QED BY <1>1, <1>2 DEF HandOK, Grows

\* So when one process acts, its own hand is all there is to look at.
LEMMA HandsStay ==
    ASSUME IInv, Grows, NEW p \in Procs, HandOK(p)',
           (\A q \in Procs \ {p} : at'[q] = at[q])
    PROVE  HandsOK'
<1> SUFFICES ASSUME NEW q \in Procs PROVE HandOK(q)'
  BY DEF HandsOK
<1> QED BY HandStays DEF IInv, HandsOK

\* Messages keep theirs, as long as none is made up.
LEMMA QueueStays ==
    ASSUME IInv, Grows,
           (\A i \in 1 .. Len(queue') : \E k \in 1 .. Len(queue) : queue'[i] = queue[k])
    PROVE  QueueOK'
<1> SUFFICES ASSUME NEW i \in 1 .. Len(queue') PROVE HasKey(queue[i].job, queue[i].req)'
  BY DEF QueueOK
<1>1. PICK k \in 1 .. Len(queue) : queue'[i] = queue[k]
  OBVIOUS
<1>2. HasKey(queue[k].job, queue[k].req)
  BY DEF IInv, QueueOK
<1> QED BY <1>1, <1>2 DEF HasKey, Grows, RowsGrow

LEMMA AnswersStay ==
    ASSUME IInv, Grows, answers' = answers
    PROVE  AnswersOK'
<1> SUFFICES ASSUME NEW x \in answers
             PROVE  (x.job \in JobIds /\ Exists(x.job) /\ rows[x.job].key = x.key)'
  BY DEF AnswersOK
<1> QED BY DEF IInv, AnswersOK, Grows, RowsGrow

\* Keys stay unique when no row is new.
LEMMA KeysStay ==
    ASSUME IInv, Grows, (\A j \in JobIds : Exists(j)' => Exists(j))
    PROVE  KeysUnique'
<1> SUFFICES ASSUME NEW i \in JobIds, NEW j \in JobIds, Exists(i)', Exists(j)',
                    rows'[i].key = rows'[j].key
             PROVE  i = j
  BY DEF KeysUnique
<1> QED BY DEF IInv, KeysUnique, Grows, RowsGrow

\* Results stay good when no row gets another one and none is completed.
LEMMA ResultsStay ==
    ASSUME IInv, Grows,
           (\A j \in JobIds : /\ rows'[j].result = rows[j].result
                              /\ rows'[j].status = "completed" => rows[j].status = "completed"
                              /\ rows[j].result # None => rows'[j].key = rows[j].key)
    PROVE  ResultsOK'
<1>1. ResultReadable'
  BY DEF IInv, ResultsOK, ResultReadable, Grows
<1>2. ASSUME NEW j \in JobIds, rows'[j].result # None
      PROVE  LET n == rows'[j].result.run IN
             /\ n \in DOMAIN scans'
             /\ scans'[n].job = j
             /\ \E r \in Requests : KeyOf(r) = rows'[j].key /\ r.url = scans'[n].url
  <2>1. rows[j].result # None /\ rows'[j].result = rows[j].result /\ rows'[j].key = rows[j].key
    BY <1>2
  <2> DEFINE n == rows[j].result.run
  <2>2. /\ n \in DOMAIN scans
        /\ scans[n].job = j
        /\ \E r \in Requests : KeyOf(r) = rows[j].key /\ r.url = scans[n].url
    BY <2>1 DEF IInv, ResultsOK, ResultAnswersJob
  <2>3. n \in DOMAIN scans' /\ scans'[n] = scans[n]
    BY <2>2 DEF Grows
  <2> QED BY <2>1, <2>2, <2>3
<1>3. ResultAnswersJob'
  BY <1>2 DEF ResultAnswersJob
<1> QED BY <1>1, <1>3 DEF ResultsOK

\* A step of p that leaves the table alone.
LEMMA QuietStep ==
    ASSUME IInv, TypeOK', NEW p \in Procs, HandOK(p)',
           rows' = rows, objects \subseteq objects',
           (\A n \in DOMAIN scans : n \in DOMAIN scans' /\ scans'[n] = scans[n]),
           (\A q \in Procs \ {p} : at'[q] = at[q]),
           (\A i \in 1 .. Len(queue') : \E k \in 1 .. Len(queue) : queue'[i] = queue[k])
               \/ QueueOK',
           answers' = answers \/ AnswersOK'
    PROVE  IInv'
<1>1. Grows
  BY DEF Grows, RowsGrow, Exists
<1>2. HandsOK'
  BY <1>1, HandsStay
<1>3. QueueOK'
  BY <1>1, QueueStays
<1>4. AnswersOK'
  BY <1>1, AnswersStay
<1>5. KeysUnique'
  BY <1>1, KeysStay DEF Exists
<1>6. ResultsOK'
  BY <1>1, ResultsStay
<1> QED BY <1>2, <1>3, <1>4, <1>5, <1>6 DEF IInv

LEMMA InitIInv == ASSUME Init PROVE IInv
<1>1. TypeOK
  BY SiteLintAssumption DEF Init, TypeOK, Idle, Locals, PCs, Absent
<1>2. KeysUnique /\ QueueOK /\ AnswersOK /\ ResultsOK
  BY DEF Init, KeysUnique, QueueOK, AnswersOK, ResultsOK, ResultReadable,
         ResultAnswersJob, Exists, Absent
<1>3. HandsOK
  BY DEF Init, HandsOK, HandOK, Idle
<1> QED BY <1>1, <1>2, <1>3 DEF IInv

\* The row a process found by its key, in its hand.
LEMMA FoundHand ==
    ASSUME IInv, NEW p \in Procs, NEW loop \in BOOLEAN, NEW r \in Requests,
           NEW j \in JobIds, Found(p, loop, r, j), scans' = scans
    PROVE  /\ at' \in [Procs -> Locals]
           /\ HandOK(p)'
           /\ \A q \in Procs \ {p} : at'[q] = at[q]
<1> DEFINE new == [Idle EXCEPT !.pc = "act", !.loop = loop, !.req = r,
                               !.job = j, !.seen = rows[j].status]
<1>1. /\ Exists(j) /\ rows[j].key = KeyOf(r) /\ rows' = rows
      /\ at' = [at EXCEPT ![p] = new]
  BY DEF Found
<1>2. rows[j].status \in Statuses \cup {"absent"}
  BY DEF IInv, TypeOK, Absent, RowType
<1>3. new \in Locals
  BY <1>2 DEF Idle, Locals, PCs
<1>4. at \in [Procs -> Locals]
  BY DEF IInv, TypeOK
<1>5. at' \in [Procs -> Locals] /\ at'[p] = new /\ \A q \in Procs \ {p} : at'[q] = at[q]
  BY <1>1, <1>3, <1>4
<1>6. new.pc = "act" /\ new.req = r /\ new.job = j
  BY DEF Idle
<1>7. HasKey(j, r)'
  BY <1>1 DEF HasKey, Exists
<1>8. HandOK(p)'
  BY <1>5, <1>6, <1>7 DEF HandOK
<1> QED BY <1>5, <1>8

LEMMA SubmitIInv ==
    ASSUME IInv, NEW p \in Apis, NEW loop \in OnLoop, NEW r \in Requests,
           Submit(p, loop, r)
    PROVE  IInv'
<1>1. p \in Procs /\ loop \in BOOLEAN
  BY SiteLintAssumption DEF Procs
<1>2. /\ UNCHANGED <<objects, shots, queue, scans, answers, abandoned, faults, redelivered>>
      /\ rows' = rows /\ calls' = calls + 1
  BY DEF Submit, Found
<1>3. /\ at' \in [Procs -> Locals]
      /\ HandOK(p)'
      /\ \A q \in Procs \ {p} : at'[q] = at[q]
  <2>1. CASE \E j \in JobIds : Found(p, loop, r, j)
    BY <1>1, <1>2, <2>1, FoundHand
  <2>2. CASE at' = [at EXCEPT ![p] = [Idle EXCEPT !.pc = "insert", !.loop = loop, !.req = r]]
    <3> DEFINE new == [Idle EXCEPT !.pc = "insert", !.loop = loop, !.req = r]
    <3>1. new \in Locals /\ new.pc = "insert" /\ new.req = r
      BY <1>1 DEF Idle, Locals, PCs
    <3>2. at \in [Procs -> Locals]
      BY DEF IInv, TypeOK
    <3>3. at' \in [Procs -> Locals] /\ at'[p] = new /\ \A q \in Procs \ {p} : at'[q] = at[q]
      BY <1>1, <2>2, <3>1, <3>2
    <3>4. HandOK(p)'
      BY <3>1, <3>3 DEF HandOK
    <3> QED BY <3>3, <3>4
  <2> QED BY <2>1, <2>2 DEF Submit
<1>4. TypeOK'
  BY <1>2, <1>3 DEF IInv, TypeOK
<1> QED BY <1>1, <1>2, <1>3, <1>4, QuietStep

LEMMA ReselectIInv ==
    ASSUME IInv, NEW p \in Apis, Reselect(p)
    PROVE  IInv'
<1>1. PICK j \in JobIds : Found(p, at[p].loop, at[p].req, j)
  BY DEF Reselect
<1>2. p \in Procs /\ at[p].loop \in BOOLEAN /\ at[p].req \in Requests
  BY DEF Procs, IInv, TypeOK, Locals, HandsOK, HandOK, Reselect
<1>3. /\ UNCHANGED <<objects, shots, queue, scans, answers, abandoned, calls, faults, redelivered>>
      /\ rows' = rows
  BY <1>1 DEF Reselect, Found
<1>4. /\ at' \in [Procs -> Locals]
      /\ HandOK(p)'
      /\ \A q \in Procs \ {p} : at'[q] = at[q]
  BY <1>1, <1>2, <1>3, FoundHand
<1>5. TypeOK'
  BY <1>3, <1>4 DEF IInv, TypeOK
<1> QED BY <1>2, <1>3, <1>4, <1>5, QuietStep

\* A process goes idle: nothing is left in its hand.
LEMMA IdleHand ==
    ASSUME IInv, NEW p \in Procs, at' = [at EXCEPT ![p] = Idle]
    PROVE  /\ at' \in [Procs -> Locals]
           /\ HandOK(p)'
           /\ \A q \in Procs \ {p} : at'[q] = at[q]
<1>1. Idle \in Locals /\ Idle.pc = "idle"
  BY DEF Idle, Locals, PCs
<1>2. at \in [Procs -> Locals]
  BY DEF IInv, TypeOK
<1>3. /\ at' \in [Procs -> Locals] /\ at'[p] = Idle
      /\ \A q \in Procs \ {p} : at'[q] = at[q]
  BY <1>1, <1>2
<1> QED BY <1>1, <1>3 DEF HandOK

\* The answer a call returns is the row it holds.
LEMMA ReturnAnswers ==
    ASSUME IInv, Grows, NEW p \in Procs, Return(p),
           at[p].pc \in {"act", "finish"}
    PROVE  /\ AnswersOK'
           /\ answers' \subseteq [key : Keys, job : JobIds]
<1>1. HasKey(at[p].job, at[p].req) /\ at[p].req \in Requests
  BY DEF IInv, HandsOK, HandOK
<1> DEFINE a == [key |-> KeyOf(at[p].req), job |-> at[p].job]
<1>2. a \in [key : Keys, job : JobIds] /\ answers' = answers \cup {a}
  BY <1>1 DEF Return, HasKey, Keys
<1>3. answers' \subseteq [key : Keys, job : JobIds]
  BY <1>2 DEF IInv, TypeOK
<1>4. ASSUME NEW x \in answers'
      PROVE  (x.job \in JobIds /\ Exists(x.job) /\ rows[x.job].key = x.key)'
  <2>1. CASE x \in answers
    BY <2>1 DEF IInv, AnswersOK, Grows, RowsGrow
  <2>2. CASE x = a
    BY <1>1, <2>2 DEF HasKey, Grows, RowsGrow
  <2> QED BY <1>2, <2>1, <2>2
<1> QED BY <1>3, <1>4 DEF AnswersOK

LEMMA AnswerIInv ==
    ASSUME IInv, NEW p \in Procs, Answer(p)
    PROVE  IInv'
<1>1. /\ UNCHANGED <<rows, objects, shots, queue, scans, abandoned, calls, faults, redelivered>>
      /\ Return(p) /\ at[p].pc = "act"
  BY DEF Answer
<1>2. Grows
  BY <1>1 DEF Grows, RowsGrow, Exists
<1>3. AnswersOK' /\ answers' \subseteq [key : Keys, job : JobIds]
  BY <1>1, <1>2, ReturnAnswers
<1>4. /\ at' \in [Procs -> Locals]
      /\ HandOK(p)'
      /\ \A q \in Procs \ {p} : at'[q] = at[q]
  BY <1>1, IdleHand DEF Return
<1>5. TypeOK'
  BY <1>1, <1>3, <1>4 DEF IInv, TypeOK
<1> QED BY <1>1, <1>3, <1>4, <1>5, QuietStep

LEMMA DispatchIInv ==
    ASSUME IInv, NEW p \in Procs, Dispatch(p)
    PROVE  IInv'
<1> DEFINE m == [job |-> at[p].job, req |-> at[p].req]
<1>1. /\ UNCHANGED <<rows, objects, shots, scans, abandoned, calls, faults, redelivered>>
      /\ queue' = Append(queue, m)
      /\ Return(p) /\ at[p].pc = "act"
  BY DEF Dispatch
<1>2. Grows
  BY <1>1 DEF Grows, RowsGrow, Exists
<1>3. AnswersOK' /\ answers' \subseteq [key : Keys, job : JobIds]
  BY <1>1, <1>2, ReturnAnswers
<1>4. /\ at' \in [Procs -> Locals]
      /\ HandOK(p)'
      /\ \A q \in Procs \ {p} : at'[q] = at[q]
  BY <1>1, IdleHand DEF Return
<1>5. HasKey(m.job, m.req) /\ m \in Messages
  BY <1>1 DEF IInv, HandsOK, HandOK, HasKey, Messages
<1>6. queue \in Seq(Messages)
  BY DEF IInv, TypeOK
<1>7. TypeOK'
  BY <1>1, <1>3, <1>4, <1>5, <1>6 DEF IInv, TypeOK
<1>8. QueueOK'
  <2> SUFFICES ASSUME NEW i \in 1 .. Len(queue') PROVE HasKey(queue[i].job, queue[i].req)'
    BY DEF QueueOK
  <2>1. queue'[i] = m \/ (i \in 1 .. Len(queue) /\ queue'[i] = queue[i])
    BY <1>1, <1>5, <1>6
  <2>2. HasKey(queue'[i].job, queue'[i].req)
    BY <1>5, <2>1 DEF IInv, QueueOK
  <2> QED BY <1>1, <2>2 DEF HasKey, Exists
<1> QED BY <1>1, <1>3, <1>4, <1>7, <1>8, QuietStep

\* A process moves on with the same job and request.
LEMMA MarkRunningIInv ==
    ASSUME IInv, NEW p \in Procs, MarkRunning(p)
    PROVE  IInv'
<1> DEFINE j == at[p].job
<1>1. /\ UNCHANGED <<objects, shots, queue, scans, answers, abandoned, calls, faults, redelivered>>
      /\ at[p].pc = "act"
      /\ rows' = [rows EXCEPT ![j].status = "running", ![j].result = rows[j].result]
      /\ at' = [at EXCEPT ![p].pc = "scan"]
  BY DEF MarkRunning, SetStatus
<1>3. rows \in [JobIds -> {Absent} \cup RowType] /\ at \in [Procs -> Locals]
  BY DEF IInv, TypeOK
<1>2. /\ HasKey(j, at[p].req) /\ at[p].req \in Requests
      /\ j \in JobIds /\ rows[j] \in RowType
  <2>1. HasKey(j, at[p].req) /\ at[p].req \in Requests
    BY <1>1 DEF IInv, HandsOK, HandOK
  <2> QED BY <1>3, <2>1 DEF HasKey, Exists, Absent
<1>4. /\ rows'[j] = [rows[j] EXCEPT !.status = "running", !.result = rows[j].result]
      /\ \A i \in JobIds \ {j} : rows'[i] = rows[i]
  BY <1>1, <1>2, <1>3
<1>5. /\ rows'[j] \in RowType /\ rows'[j].status = "running"
      /\ rows'[j].key = rows[j].key /\ rows'[j].result = rows[j].result
  BY <1>2, <1>4 DEF RowType, Statuses
<1>6. rows' \in [JobIds -> {Absent} \cup RowType]
  BY <1>1, <1>3, <1>4, <1>5
<1>7. /\ at' \in [Procs -> Locals] /\ at'[p] = [at[p] EXCEPT !.pc = "scan"]
      /\ \A q \in Procs \ {p} : at'[q] = at[q]
  BY <1>1, <1>3 DEF Locals, PCs
<1>8. at'[p].pc = "scan" /\ at'[p].job = j /\ at'[p].req = at[p].req
  BY <1>3, <1>7 DEF Locals
<1>9. RowsGrow /\ (\A i \in JobIds : Exists(i)' => Exists(i))
  BY <1>2, <1>4, <1>5 DEF RowsGrow, Exists, HasKey
<1>10. Grows
  BY <1>1, <1>9 DEF Grows
<1>11. TypeOK'
  BY <1>1, <1>6, <1>7 DEF IInv, TypeOK
<1>12. HandOK(p)'
  <2>1. HasKey(j, at[p].req)'
    BY <1>2, <1>8, <1>9 DEF HasKey, RowsGrow
  <2> QED BY <1>2, <1>8, <2>1 DEF HandOK
<1>13. HandsOK'
  BY <1>7, <1>10, <1>12, HandsStay
<1>14. KeysUnique'
  BY <1>9, <1>10, KeysStay
<1>15. QueueOK' /\ AnswersOK'
  BY <1>1, <1>10, QueueStays, AnswersStay
<1>16. ResultsOK'
  BY <1>4, <1>5, <1>10, ResultsStay
<1> QED BY <1>11, <1>13, <1>14, <1>15, <1>16 DEF IInv

\* scans is a sequence of records, one longer after a scan.
LEMMA ScansGrow ==
    ASSUME IInv, NEW s \in [job : JobIds, url : Urls], scans' = Append(scans, s)
    PROVE  /\ scans' \in Seq([job : JobIds, url : Urls])
           /\ Len(scans') \in Nat
           /\ Len(scans') \in DOMAIN scans' /\ scans'[Len(scans')] = s
           /\ \A n \in DOMAIN scans : n \in DOMAIN scans' /\ scans'[n] = scans[n]
<1>1. scans \in Seq([job : JobIds, url : Urls])
  BY DEF IInv, TypeOK
<1> QED BY <1>1

LEMMA ScanIInv ==
    ASSUME IInv, NEW p \in Procs, Scan(p)
    PROVE  IInv'
<1> DEFINE s == [job |-> at[p].job, url |-> at[p].req.url]
<1>1. /\ UNCHANGED <<rows, objects, queue, answers, abandoned, calls, faults, redelivered>>
      /\ at[p].pc = "scan" /\ scans' = Append(scans, s)
      /\ shots' = [shots EXCEPT ![at[p].job] = Len(scans')]
      /\ at' = [at EXCEPT ![p].pc = "put", ![p].run = Len(scans')]
  BY DEF Scan
<1>2. HasKey(at[p].job, at[p].req) /\ at[p].req \in Requests
  BY <1>1 DEF IInv, HandsOK, HandOK
<1>3. s \in [job : JobIds, url : Urls]
  BY <1>2 DEF HasKey, Urls
<1>4. /\ scans' \in Seq([job : JobIds, url : Urls])
      /\ Len(scans') \in Nat
      /\ Len(scans') \in DOMAIN scans' /\ scans'[Len(scans')] = s
      /\ \A n \in DOMAIN scans : n \in DOMAIN scans' /\ scans'[n] = scans[n]
  BY <1>1, <1>3, ScansGrow
<1>5. at \in [Procs -> Locals] /\ shots \in [JobIds -> Nat]
  BY DEF IInv, TypeOK
<1>6. /\ at' \in [Procs -> Locals]
      /\ at'[p] = [at[p] EXCEPT !.pc = "put", !.run = Len(scans')]
      /\ \A q \in Procs \ {p} : at'[q] = at[q]
  <2> DEFINE new == [at[p] EXCEPT !.pc = "put", !.run = Len(scans')]
  <2>1. new \in Locals
    BY <1>4, <1>5 DEF Locals, PCs
  <2>2. at' = [at EXCEPT ![p] = new]
    BY <1>1, <1>5
  <2> QED BY <1>5, <2>1, <2>2
<1>7. /\ at'[p].pc = "put" /\ at'[p].run = Len(scans')
      /\ at'[p].job = at[p].job /\ at'[p].req = at[p].req
  BY <1>5, <1>6 DEF Locals
<1>8. HasKey(at[p].job, at[p].req)'
  BY <1>1, <1>2, <1>7 DEF HasKey, Exists
<1>9. HandOK(p)'
  BY <1>2, <1>4, <1>7, <1>8 DEF HandOK
<1>10. shots' \in [JobIds -> Nat]
  BY <1>1, <1>4, <1>5
<1>11. TypeOK'
  BY <1>1, <1>4, <1>6, <1>10 DEF IInv, TypeOK
<1> QED BY <1>1, <1>4, <1>6, <1>9, <1>11, QuietStep

LEMMA LoopRefusesScanIInv ==
    ASSUME IInv, NEW p \in Procs, LoopRefusesScan(p)
    PROVE  IInv'
<1> DEFINE s == [job |-> at[p].job, url |-> at[p].req.url]
<1>1. /\ UNCHANGED <<rows, objects, shots, queue, answers, calls, faults, redelivered>>
      /\ at[p].pc = "scan" /\ scans' = Append(scans, s)
      /\ abandoned' = abandoned \cup {at[p].job}
      /\ at' = [at EXCEPT ![p] = Idle]
  BY DEF LoopRefusesScan
<1>2. HasKey(at[p].job, at[p].req) /\ at[p].req \in Requests
  BY <1>1 DEF IInv, HandsOK, HandOK
<1>3. s \in [job : JobIds, url : Urls] /\ at[p].job \in JobIds
  BY <1>2 DEF HasKey, Urls
<1>4. /\ scans' \in Seq([job : JobIds, url : Urls])
      /\ \A n \in DOMAIN scans : n \in DOMAIN scans' /\ scans'[n] = scans[n]
  BY <1>1, <1>3, ScansGrow
<1>5. /\ at' \in [Procs -> Locals]
      /\ HandOK(p)'
      /\ \A q \in Procs \ {p} : at'[q] = at[q]
  BY <1>1, IdleHand
<1>6. abandoned' \subseteq JobIds
  BY <1>1, <1>3 DEF IInv, TypeOK
<1>7. TypeOK'
  BY <1>1, <1>4, <1>5, <1>6 DEF IInv, TypeOK
<1> QED BY <1>1, <1>4, <1>5, <1>7, QuietStep

\* The report a process is about to store.
LEMMA DiffIsDiff ==
    ASSUME IInv, NEW p \in Procs, at[p].pc = "put"
    PROVE  BaselineDiff(p) \in Diffs
<1> DEFINE b == at[p].req.base
<1>1. at[p].req \in Requests
  BY DEF IInv, HandsOK, HandOK
<1>2. b = None \/ b \in JobIds
  BY <1>1, SiteLintAssumption DEF Bases
<1>3. ASSUME b \in JobIds
      PROVE  (IF rows[b].result = None THEN 0 ELSE rows[b].result.run) \in Nat
  <2>1. rows[b].result = None \/ rows[b].result \in Reports
    BY <1>3 DEF IInv, TypeOK, Absent, RowType
  <2> QED BY <2>1 DEF Reports
<1> QED BY <1>2, <1>3 DEF BaselineDiff, Diffs

LEMMA PutIInv ==
    ASSUME IInv, NEW p \in Procs, Put(p)
    PROVE  IInv'
<1> DEFINE doc == [run |-> at[p].run, diff |-> BaselineDiff(p)]
<1>1. /\ UNCHANGED <<rows, shots, queue, scans, answers, abandoned, calls, faults, redelivered>>
      /\ at[p].pc = "put" /\ objects' = objects \cup {doc}
      /\ at' = [at EXCEPT ![p].pc = "finish", ![p].doc = doc]
  BY DEF Put
<1>2. at \in [Procs -> Locals]
  BY DEF IInv, TypeOK
<1>3. doc \in Reports /\ doc.run = at[p].run
  BY <1>1, <1>2, DiffIsDiff DEF Reports, Locals
<1>4. /\ HasKey(at[p].job, at[p].req) /\ at[p].req \in Requests
      /\ at[p].run \in DOMAIN scans
      /\ scans[at[p].run] = [job |-> at[p].job, url |-> at[p].req.url]
  BY <1>1 DEF IInv, HandsOK, HandOK
<1>5. /\ at' \in [Procs -> Locals]
      /\ at'[p] = [at[p] EXCEPT !.pc = "finish", !.doc = doc]
      /\ \A q \in Procs \ {p} : at'[q] = at[q]
  <2> DEFINE new == [at[p] EXCEPT !.pc = "finish", !.doc = doc]
  <2> HIDE DEF doc
  <2>1. new \in Locals
    BY <1>2, <1>3 DEF Locals, PCs
  <2>2. at' = [at EXCEPT ![p] = new]
    BY <1>1, <1>2
  <2> QED BY <1>2, <2>1, <2>2
<1>6. /\ at'[p].pc = "finish" /\ at'[p].doc = doc /\ at'[p].run = at[p].run
      /\ at'[p].job = at[p].job /\ at'[p].req = at[p].req
  <2> HIDE DEF doc
  <2> QED BY <1>2, <1>5 DEF Locals
<1>7. HasKey(at[p].job, at[p].req)'
  BY <1>1, <1>4, <1>6 DEF HasKey, Exists
<1>8. HandOK(p)'
  <2> HIDE DEF doc
  <2>1. doc \in objects'
    BY <1>1
  <2>2. at[p].run \in DOMAIN scans' /\ scans'[at[p].run] = scans[at[p].run]
    BY <1>1, <1>4
  <2> QED BY <1>3, <1>4, <1>6, <1>7, <2>1, <2>2 DEF HandOK
<1>9. objects' \subseteq Reports \cup Bundles
  BY <1>1, <1>3 DEF IInv, TypeOK
<1>10. TypeOK'
  BY <1>1, <1>5, <1>9 DEF IInv, TypeOK
<1> QED BY <1>1, <1>5, <1>8, <1>10, QuietStep

\* The one step that gives a row its result: the report is in the store, and
\* the scan it is of was made for this job.
LEMMA FinishIInv ==
    ASSUME IInv, NEW p \in Procs, Finish(p)
    PROVE  IInv'
<1> DEFINE j == at[p].job
           doc == at[p].doc
<1>1. /\ UNCHANGED <<objects, shots, queue, scans, abandoned, calls, faults, redelivered>>
      /\ at[p].pc = "finish"
      /\ rows' = [rows EXCEPT ![j].status = "completed",
                              ![j].result = IF doc = None THEN rows[j].result ELSE doc]
      /\ Return(p) \/ (answers' = answers /\ at' = [at EXCEPT ![p] = Idle])
  BY DEF Finish, SetStatus
<1>2. rows \in [JobIds -> {Absent} \cup RowType]
  BY DEF IInv, TypeOK
<1>3. /\ HasKey(j, at[p].req) /\ at[p].req \in Requests
      /\ at[p].run \in DOMAIN scans
      /\ scans[at[p].run] = [job |-> j, url |-> at[p].req.url]
      /\ doc \in Reports /\ doc \in objects /\ doc.run = at[p].run
  BY <1>1 DEF IInv, HandsOK, HandOK
<1>4. j \in JobIds /\ rows[j] \in RowType /\ rows[j].key = KeyOf(at[p].req)
  BY <1>2, <1>3 DEF HasKey, Exists, Absent
<1>5. doc # None
  BY <1>3, SiteLintAssumption
<1>6. /\ rows'[j] = [rows[j] EXCEPT !.status = "completed", !.result = doc]
      /\ \A i \in JobIds \ {j} : rows'[i] = rows[i]
  BY <1>1, <1>2, <1>4, <1>5
<1>7. /\ rows'[j] \in RowType /\ rows'[j].status = "completed"
      /\ rows'[j].key = rows[j].key /\ rows'[j].result = doc
  BY <1>3, <1>4, <1>6 DEF RowType, Statuses
<1>8. rows' \in [JobIds -> {Absent} \cup RowType]
  BY <1>1, <1>2, <1>6, <1>7
<1>9. RowsGrow /\ (\A i \in JobIds : Exists(i)' => Exists(i))
  BY <1>3, <1>6, <1>7 DEF RowsGrow, Exists, HasKey
<1>10. Grows
  BY <1>1, <1>9 DEF Grows
<1>11. /\ at' \in [Procs -> Locals]
       /\ HandOK(p)'
       /\ \A q \in Procs \ {p} : at'[q] = at[q]
  BY <1>1, IdleHand DEF Return
<1>12. AnswersOK' /\ answers' \subseteq [key : Keys, job : JobIds]
  <2>1. CASE Return(p)
    BY <1>1, <1>10, <2>1, ReturnAnswers
  <2>2. CASE answers' = answers
    BY <1>10, <2>2, AnswersStay DEF IInv, TypeOK
  <2> QED BY <1>1, <2>1, <2>2
<1>13. TypeOK'
  BY <1>1, <1>8, <1>11, <1>12 DEF IInv, TypeOK
<1>14. HandsOK' /\ KeysUnique' /\ QueueOK'
  BY <1>1, <1>9, <1>10, <1>11, HandsStay, KeysStay, QueueStays
<1>15. ResultReadable'
  <2> SUFFICES ASSUME NEW i \in JobIds
               PROVE  /\ rows'[i].status = "completed" => rows'[i].result # None
                      /\ rows'[i].result # None => rows'[i].result \in objects'
    BY DEF ResultReadable
  <2>1. CASE i = j
    BY <1>1, <1>3, <1>5, <1>7, <2>1
  <2>2. CASE i # j
    <3>1. rows'[i] = rows[i] /\ objects' = objects
      BY <1>1, <1>6, <2>2
    <3>2. /\ rows[i].status = "completed" => rows[i].result # None
          /\ rows[i].result # None => rows[i].result \in objects
      BY DEF IInv, ResultsOK, ResultReadable
    <3> QED BY <3>1, <3>2
  <2> QED BY <2>1, <2>2
<1>16. ResultAnswersJob'
  <2> SUFFICES ASSUME NEW i \in JobIds, rows'[i].result # None
               PROVE  LET n == rows'[i].result.run IN
                      /\ n \in DOMAIN scans'
                      /\ scans'[n].job = i
                      /\ \E r \in Requests : KeyOf(r) = rows'[i].key /\ r.url = scans'[n].url
    BY DEF ResultAnswersJob
  <2>1. CASE i = j
    <3>1. scans' = scans /\ rows'[i].result.run = at[p].run /\ rows'[i].key = KeyOf(at[p].req)
      BY <1>1, <1>3, <1>4, <1>7, <2>1
    <3>2. /\ at[p].run \in DOMAIN scans
          /\ scans[at[p].run].job = i /\ scans[at[p].run].url = at[p].req.url
      BY <1>3, <2>1
    <3> QED BY <1>3, <3>1, <3>2
  <2>2. CASE i # j
    <3>1. rows'[i] = rows[i] /\ scans' = scans
      BY <1>1, <1>6, <2>2
    <3>2. rows[i].result # None
      BY <3>1
    <3>3. LET n == rows[i].result.run IN
          /\ n \in DOMAIN scans
          /\ scans[n].job = i
          /\ \E r \in Requests : KeyOf(r) = rows[i].key /\ r.url = scans[n].url
      BY <3>2 DEF IInv, ResultsOK, ResultAnswersJob
    <3> QED BY <3>1, <3>3
  <2> QED BY <2>1, <2>2
<1> QED BY <1>12, <1>13, <1>14, <1>15, <1>16 DEF IInv, ResultsOK

\* A new row: its key is nobody else's, and nothing refers to it yet.
LEMMA InsertIInv ==
    ASSUME IInv, NEW p \in Procs, Insert(p)
    PROVE  IInv'
<1> DEFINE r == at[p].req
<1>1. /\ UNCHANGED <<objects, shots, queue, scans, answers, abandoned, calls, faults, redelivered>>
      /\ at[p].pc = "insert"
  BY DEF Insert
<1>2. at \in [Procs -> Locals] /\ rows \in [JobIds -> {Absent} \cup RowType]
  BY DEF IInv, TypeOK
<1>3. r \in Requests
  BY <1>1 DEF IInv, HandsOK, HandOK
<1>4. CASE \E j \in JobIds : Exists(j) /\ rows[j].key = KeyOf(r)
  <2>1. at' = [at EXCEPT ![p].pc = "reselect"] /\ rows' = rows
    BY <1>4 DEF Insert
  <2>2. /\ at' \in [Procs -> Locals] /\ at'[p] = [at[p] EXCEPT !.pc = "reselect"]
        /\ \A q \in Procs \ {p} : at'[q] = at[q]
    BY <1>2, <2>1 DEF Locals, PCs
  <2>3. at'[p].pc = "reselect" /\ at'[p].req = r
    BY <1>2, <2>2 DEF Locals
  <2>4. HandOK(p)'
    BY <1>3, <2>3 DEF HandOK
  <2>5. TypeOK'
    BY <1>1, <2>1, <2>2 DEF IInv, TypeOK
  <2> QED BY <1>1, <2>1, <2>2, <2>4, <2>5, QuietStep
<1>5. CASE ~ \E j \in JobIds : Exists(j) /\ rows[j].key = KeyOf(r)
  <2> DEFINE new == [status |-> "queued", key |-> KeyOf(r), url |-> r.url,
                     base |-> r.base, result |-> None]
  <2>1. PICK j \in JobIds :
            /\ ~Exists(j)
            /\ rows' = [rows EXCEPT ![j] = new]
            /\ at' = [at EXCEPT ![p].pc = "act", ![p].job = j, ![p].seen = "queued"]
    BY <1>5 DEF Insert
  <2>2. new \in RowType
    BY <1>3, SiteLintAssumption DEF RowType, Statuses, Keys, Urls
  <2>3. /\ new.status = "queued" /\ new.key = KeyOf(r) /\ new.result = None
    OBVIOUS
  <2> HIDE DEF new
  <2>4. /\ rows' \in [JobIds -> {Absent} \cup RowType] /\ rows'[j] = new
        /\ \A i \in JobIds \ {j} : rows'[i] = rows[i]
    BY <1>2, <2>1, <2>2
  <2>5. /\ at' \in [Procs -> Locals]
        /\ at'[p] = [at[p] EXCEPT !.pc = "act", !.job = j, !.seen = "queued"]
        /\ \A q \in Procs \ {p} : at'[q] = at[q]
    <3> DEFINE hand == [at[p] EXCEPT !.pc = "act", !.job = j, !.seen = "queued"]
    <3>1. hand \in Locals
      BY <1>2 DEF Locals, PCs, Statuses
    <3>2. at' = [at EXCEPT ![p] = hand]
      BY <1>2, <2>1
    <3> QED BY <1>2, <3>1, <3>2
  <2>6. at'[p].pc = "act" /\ at'[p].job = j /\ at'[p].req = r
    BY <1>2, <2>5 DEF Locals
  <2>7. Grows
    BY <1>1, <2>1, <2>4 DEF Grows, RowsGrow, Exists
  <2>8. HandOK(p)'
    <3>1. HasKey(j, r)'
      BY <2>3, <2>4, <2>6 DEF HasKey, Exists
    <3> QED BY <1>3, <2>6, <3>1 DEF HandOK
  <2>9. HandsOK'
    BY <2>5, <2>7, <2>8, HandsStay
  <2>10. QueueOK' /\ AnswersOK'
    BY <1>1, <2>7, QueueStays, AnswersStay
  <2>11. KeysUnique'
    <3> SUFFICES ASSUME NEW i \in JobIds, NEW k \in JobIds, Exists(i)', Exists(k)',
                        rows'[i].key = rows'[k].key
                 PROVE  i = k
      BY DEF KeysUnique
    <3>1. \A h \in JobIds \ {j} : Exists(h)' => Exists(h) /\ rows'[h].key # KeyOf(r)
      BY <1>5, <2>4 DEF Exists
    <3> QED BY <2>3, <2>4, <3>1 DEF IInv, KeysUnique
  <2>12. ResultReadable'
    BY <1>1, <2>3, <2>4 DEF IInv, ResultsOK, ResultReadable
  <2>13. ResultAnswersJob'
    BY <1>1, <2>3, <2>4 DEF IInv, ResultsOK, ResultAnswersJob
  <2>14. TypeOK'
    BY <1>1, <2>4, <2>5 DEF IInv, TypeOK
  <2> QED BY <2>9, <2>10, <2>11, <2>12, <2>13, <2>14 DEF IInv, ResultsOK
<1> QED BY <1>4, <1>5

LEMMA TakeIInv ==
    ASSUME IInv, NEW p \in Procs, Take(p)
    PROVE  IInv'
<1> DEFINE m == Head(queue)
           hand == [Idle EXCEPT !.pc = "act", !.req = m.req, !.job = m.job, !.seen = "queued"]
<1>1. /\ UNCHANGED <<rows, objects, shots, scans, answers, abandoned, calls, faults>>
      /\ queue # <<>>
      /\ at' = [at EXCEPT ![p] = hand]
      /\ \/ queue' = Tail(queue)
         \/ queue' = Append(Tail(queue), m)
      /\ redelivered' = redelivered \/ redelivered' = redelivered + 1
  BY DEF Take
<1>2. at \in [Procs -> Locals] /\ queue \in Seq(Messages) /\ redelivered \in Nat
  BY DEF IInv, TypeOK
<1>3. /\ m \in Messages /\ m = queue[1] /\ 1 \in 1 .. Len(queue)
      /\ queue' \in Seq(Messages)
      /\ \A i \in 1 .. Len(queue') : \E k \in 1 .. Len(queue) : queue'[i] = queue[k]
  <2>1. m \in Messages /\ m = queue[1] /\ 1 \in 1 .. Len(queue)
    BY <1>1, <1>2
  <2>2. /\ Tail(queue) \in Seq(Messages) /\ Len(Tail(queue)) = Len(queue) - 1
        /\ \A i \in 1 .. Len(Tail(queue)) :
              i + 1 \in 1 .. Len(queue) /\ Tail(queue)[i] = queue[i + 1]
    BY <1>1, <1>2
  <2>3. CASE queue' = Tail(queue)
    BY <2>1, <2>2, <2>3
  <2>4. CASE queue' = Append(Tail(queue), m)
    <3>1. queue' \in Seq(Messages) /\ Len(queue') = Len(Tail(queue)) + 1
      BY <2>1, <2>2, <2>4
    <3>2. ASSUME NEW i \in 1 .. Len(queue')
          PROVE  \E k \in 1 .. Len(queue) : queue'[i] = queue[k]
      <4>1. CASE i \in 1 .. Len(Tail(queue))
        <5>1. i + 1 \in 1 .. Len(queue) /\ Tail(queue)[i] = queue[i + 1]
          BY <2>2, <4>1
        <5>2. queue'[i] = Tail(queue)[i]
          <6> HIDE DEF m
          <6> QED BY <2>1, <2>2, <2>4, <4>1
        <5> QED BY <5>1, <5>2
      <4>2. CASE i = Len(Tail(queue)) + 1
        <5>1. queue'[i] = m
          <6> HIDE DEF m
          <6> QED BY <2>1, <2>2, <2>4, <4>2
        <5> QED BY <2>1, <5>1
      <4>3. i \in 1 .. Len(Tail(queue)) \/ i = Len(Tail(queue)) + 1
        <5> HIDE DEF m
        <5>1. Len(Tail(queue)) \in Nat
          BY <2>2
        <5> QED BY <3>1, <5>1
      <4> QED BY <4>1, <4>2, <4>3
    <3> QED BY <2>1, <3>1, <3>2
  <2> QED BY <1>1, <2>3, <2>4
<1>4. HasKey(m.job, m.req) /\ m.req \in Requests /\ m.job \in JobIds
  BY <1>3 DEF IInv, QueueOK, Messages
<1>5. hand \in Locals /\ hand.pc = "act" /\ hand.req = m.req /\ hand.job = m.job
  BY <1>4 DEF Idle, Locals, PCs, Statuses
<1>6. /\ at' \in [Procs -> Locals] /\ at'[p] = hand
      /\ \A q \in Procs \ {p} : at'[q] = at[q]
  BY <1>1, <1>2, <1>5
<1>7. HandOK(p)'
  <2> HIDE DEF hand, m
  <2>1. HasKey(m.job, m.req) /\ rows' = rows
    BY <1>1, <1>4
  <2>2. at'[p].job = m.job /\ at'[p].req = m.req /\ at'[p].pc = "act"
    BY <1>5, <1>6
  <2>3. HasKey(at[p].job, at[p].req)'
    BY <2>1, <2>2 DEF HasKey, Exists
  <2> QED BY <1>4, <2>2, <2>3 DEF HandOK
<1>8. TypeOK'
  BY <1>1, <1>2, <1>3, <1>6 DEF IInv, TypeOK
<1> QED BY <1>1, <1>3, <1>6, <1>7, <1>8, QuietStep

\* An export only adds to the store.
LEMMA ZipReportIInv ==
    ASSUME IInv, NEW p \in Procs, NEW j \in JobIds, ZipReport(p, j)
    PROVE  IInv'
<1>1. /\ UNCHANGED <<rows, shots, queue, at, scans, answers, abandoned, calls, faults, redelivered>>
      /\ rows[j].result # None /\ objects' = objects \cup {Bundle(j)}
  BY DEF ZipReport
<1>2. rows[j].result \in Reports /\ shots[j] \in Nat
  BY <1>1 DEF IInv, TypeOK, Absent, RowType
<1>3. Bundle(j) \in Bundles
  BY <1>2 DEF Bundle, Bundles, Reports
<1>4. TypeOK'
  BY <1>1, <1>3 DEF IInv, TypeOK
<1>5. HandOK(p)
  BY DEF IInv, HandsOK
<1>6. HandOK(p)'
  BY <1>1, <1>5 DEF HandOK, HasKey, Exists
<1> QED BY <1>1, <1>4, <1>6, QuietStep

\* Whatever fails, rows, objects and the queue are left as they were.
LEMMA FaultyIInv ==
    ASSUME IInv, NEW p \in Procs, Faulty(p)
    PROVE  IInv'
<1> DEFINE s == [job |-> at[p].job, url |-> at[p].req.url]
<1>1. /\ UNCHANGED <<rows, objects, queue, answers, calls, redelivered>>
      /\ Fault(p)
      /\ \/ UNCHANGED <<shots, scans>>
         \/ /\ at[p].pc = "scan" /\ scans' = Append(scans, s)
            /\ shots' \in {shots, [shots EXCEPT ![at[p].job] = Len(scans')]}
  BY DEF Faulty, Crash, ScanRaises, DispatchRaises
<1>2. /\ faults' = faults + 1
      /\ abandoned' = abandoned \cup ({at[p].job} \ {None})
      /\ at' = [at EXCEPT ![p] = Idle]
  BY <1>1 DEF Fault
<1>3. /\ at' \in [Procs -> Locals]
      /\ HandOK(p)'
      /\ \A q \in Procs \ {p} : at'[q] = at[q]
  BY <1>2, IdleHand
<1>4. /\ scans' \in Seq([job : JobIds, url : Urls])
      /\ \A n \in DOMAIN scans : n \in DOMAIN scans' /\ scans'[n] = scans[n]
      /\ shots' \in [JobIds -> Nat]
  <2>1. CASE UNCHANGED <<shots, scans>>
    BY <2>1 DEF IInv, TypeOK
  <2>2. CASE /\ at[p].pc = "scan" /\ scans' = Append(scans, s)
             /\ shots' \in {shots, [shots EXCEPT ![at[p].job] = Len(scans')]}
    <3>1. HasKey(at[p].job, at[p].req) /\ at[p].req \in Requests
      BY <2>2 DEF IInv, HandsOK, HandOK
    <3>2. s \in [job : JobIds, url : Urls]
      BY <3>1 DEF HasKey, Urls
    <3>3. /\ scans' \in Seq([job : JobIds, url : Urls]) /\ Len(scans') \in Nat
          /\ \A n \in DOMAIN scans : n \in DOMAIN scans' /\ scans'[n] = scans[n]
      BY <2>2, <3>2, ScansGrow
    <3>4. shots \in [JobIds -> Nat]
      BY DEF IInv, TypeOK
    <3>5. shots' \in [JobIds -> Nat]
      BY <2>2, <3>3, <3>4
    <3> QED BY <3>3, <3>5
  <2> QED BY <1>1, <2>1, <2>2
<1>5. abandoned' \subseteq JobIds
  BY <1>2 DEF IInv, TypeOK, Locals
<1>6. TypeOK'
  BY <1>1, <1>2, <1>3, <1>4, <1>5 DEF IInv, TypeOK
<1> QED BY <1>1, <1>3, <1>4, <1>6, QuietStep

LEMMA NextIInv ==
    ASSUME IInv, [Next]_vars
    PROVE  IInv'
<1>1. ASSUME NEW p \in Apis, NEW loop \in OnLoop, NEW r \in Requests, Submit(p, loop, r)
      PROVE  IInv'
  BY <1>1, SubmitIInv
<1>2. ASSUME NEW p \in Apis, StartScan(p)
      PROVE  IInv'
  <2>1. p \in Procs
    BY DEF Procs
  <2> QED BY <1>2, <2>1, InsertIInv, ReselectIInv, AnswerIInv, DispatchIInv, MarkRunningIInv,
             ScanIInv, LoopRefusesScanIInv, PutIInv, FinishIInv DEF StartScan
<1>3. ASSUME NEW p \in Apis, NEW j \in JobIds, ZipReport(p, j)
      PROVE  IInv'
  BY <1>3, ZipReportIInv DEF Procs
<1>4. ASSUME NEW p \in Workers, RunTask(p)
      PROVE  IInv'
  <2>1. p \in Procs
    BY DEF Procs
  <2> QED BY <1>4, <2>1, TakeIInv, MarkRunningIInv, ScanIInv, PutIInv, FinishIInv DEF RunTask
<1>5. ASSUME NEW p \in Procs, Faulty(p)
      PROVE  IInv'
  BY <1>5, FaultyIInv
<1>6. CASE UNCHANGED vars
  <2>1. TypeOK'
    BY <1>6 DEF vars, IInv, TypeOK
  <2>2. KeysUnique' /\ QueueOK' /\ AnswersOK'
    BY <1>6 DEF vars, IInv, KeysUnique, QueueOK, AnswersOK, HasKey, Exists
  <2>3. HandsOK'
    BY <1>6 DEF vars, IInv, HandsOK, HandOK, HasKey, Exists
  <2>4. ResultsOK'
    BY <1>6 DEF vars, IInv, ResultsOK, ResultReadable, ResultAnswersJob
  <2> QED BY <2>1, <2>2, <2>3, <2>4 DEF IInv
<1> QED BY <1>1, <1>2, <1>3, <1>4, <1>5, <1>6 DEF Next

\* The inductive invariant: rows one per key, and what processes, messages,
\* answers and rows hold agrees with the table, the store and the scans made.
THEOREM SiteLintInvariant == Spec => []IInv
<1>1. Init => IInv
  BY InitIInv
<1>2. IInv /\ [Next]_vars => IInv'
  BY NextIInv
<1> QED BY <1>1, <1>2, PTL DEF Spec

\* Every variable keeps its type, for any number of processes, jobs and faults.
THEOREM SiteLintTypeOK == Spec => []TypeOK
<1>1. IInv => TypeOK
  BY DEF IInv
<1> QED BY <1>1, SiteLintInvariant, PTL

\* create_or_get_job gives callers of one key one job, whoever wins the INSERT:
\* every answer names a row of its key, and the rows are one per key.
THEOREM SiteLintAnswersAgree == Spec => []AnswersAgree
<1>1. IInv => AnswersAgree
  BY DEF IInv, AnswersOK, KeysUnique, AnswersAgree
<1> QED BY <1>1, SiteLintInvariant, PTL

\* A result_ref that start_scan or a worker sets can be read from then on.
THEOREM SiteLintResultReadable == Spec => []ResultReadable
<1>1. IInv => ResultReadable
  BY DEF IInv, ResultsOK
<1> QED BY <1>1, SiteLintInvariant, PTL

\* The report of a job is of a scan made for it and for a url sent with its key.
THEOREM SiteLintResultAnswersJob == Spec => []ResultAnswersJob
<1>1. IInv => ResultAnswersJob
  BY DEF IInv, ResultsOK
<1> QED BY <1>1, SiteLintInvariant, PTL
=============================================================================
