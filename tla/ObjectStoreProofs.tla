-------------------------- MODULE ObjectStoreProofs --------------------------
(***************************************************************************)
(* What stays readable, for any number of processes and documents, aborted *)
(* puts and cutovers.                                                      *)
(*                                                                         *)
(* NewRefsReadable needs that every reference to S3 is of a document in    *)
(* the bucket, from which nothing is removed.  SettledStaysReadable needs  *)
(* that being settled is for ever: a put of a settled document finds the   *)
(* file and never opens it, and no put of it was under way.                *)
(***************************************************************************)
EXTENDS ObjectStore, TLAPS

Uploaded == \A r \in refs : r.kind = "s3" => r.doc \in bucket

\* A process past exists() has a document in hand.
Busy == \A p \in Procs : at[p].pc # "idle" => at[p].doc \in Documents

IInv == TypeOK /\ Uploaded /\ Busy

\* A new store satisfies the invariant.
LEMMA InitIInv == Init => IInv
  BY DEF Init, IInv, TypeOK, Uploaded, Busy, Idle

\* The exists() of a local put.
LEMMA PutLocalIInv ==
  ASSUME IInv, NEW p \in Procs, NEW d \in Documents, PutLocal(p, d)
  PROVE  IInv'
  <1> USE DEF IInv, PutLocal
  <1> DEFINE new == [pc |-> "open", doc |-> d]
  <1>1. new \in [pc : {"idle", "open", "write"}, doc : Documents \cup {None}]
    OBVIOUS
  <1>2. at' \in [Procs -> [pc : {"idle", "open", "write"}, doc : Documents \cup {None}]]
    BY <1>1 DEF TypeOK
  <1>3. refs' \subseteq refs \cup {Ref("local", d)}
    OBVIOUS
  <1>4. TypeOK'
    BY <1>2, <1>3 DEF TypeOK, Ref
  <1>5. Uploaded'
    BY <1>3 DEF Uploaded, Ref
  <1>6. Busy'
    BY DEF TypeOK, Busy
  <1>7. QED
    BY <1>4, <1>5, <1>6

\* The truncating open.
LEMMA OpenIInv ==
  ASSUME IInv, NEW p \in Procs, Open(p)
  PROVE  IInv'
  <1>1. TypeOK' /\ Busy'
    BY DEF IInv, Open, TypeOK, Busy
  <1>2. Uploaded'
    BY DEF IInv, Open, Uploaded
  <1>3. QED
    BY <1>1, <1>2 DEF IInv

\* The write, after which the path is returned.
LEMMA WriteIInv ==
  ASSUME IInv, NEW p \in Procs, Write(p)
  PROVE  IInv'
  <1>1. at[p].doc \in Documents
    BY DEF IInv, Busy, Write
  <1>2. TypeOK'
    BY <1>1 DEF IInv, Write, TypeOK, Ref, Idle
  <1>3. Uploaded'
    BY DEF IInv, Write, Uploaded, Ref
  <1>4. Busy'
    BY DEF IInv, Write, TypeOK, Busy, Idle
  <1>5. QED
    BY <1>2, <1>3, <1>4 DEF IInv

\* A put to S3 uploads what it refers to.
LEMMA PutS3IInv ==
  ASSUME IInv, NEW p \in Procs, NEW d \in Documents, PutS3(p, d)
  PROVE  IInv'
  BY DEF IInv, PutS3, TypeOK, Uploaded, Busy, Ref

\* An aborted put leaves the file.
LEMMA AbortIInv ==
  ASSUME IInv, NEW p \in Procs, Abort(p)
  PROVE  IInv'
  <1>1. TypeOK' /\ Busy'
    BY DEF IInv, Abort, TypeOK, Busy, Idle
  <1>2. Uploaded'
    BY DEF IInv, Abort, Uploaded
  <1>3. QED
    BY <1>1, <1>2 DEF IInv

\* A restart with the other backend.
LEMMA CutoverIInv ==
  ASSUME IInv, NEW p \in Procs, Cutover(p)
  PROVE  IInv'
  BY DEF IInv, Cutover, TypeOK, Uploaded, Busy

\* Every step preserves the invariant.
LEMMA NextIInv == IInv /\ [Next]_vars => IInv'
  <1> SUFFICES ASSUME IInv, [Next]_vars PROVE IInv'
    OBVIOUS
  <1>1. CASE Next
    BY <1>1, PutLocalIInv, OpenIInv, WriteIInv, PutS3IInv, AbortIInv, CutoverIInv DEF Next
  <1>2. CASE UNCHANGED vars
    BY <1>2 DEF vars, IInv, TypeOK, Uploaded, Busy
  <1>3. QED
    BY <1>1, <1>2

\* The inductive invariant of the object store.
THEOREM ObjectStoreInvariant == Spec => []IInv
  BY InitIInv, NextIInv, PTL DEF Spec

\* Directory, bucket, puts and references keep their types.
THEOREM ObjectStoreTypeOK == Spec => []TypeOK
  <1>1. IInv => TypeOK
    BY DEF IInv
  <1>2. QED
    BY ObjectStoreInvariant, <1>1, PTL

\* A reference to S3 can be read by every process that was cut over, however
\* many processes write, crash and are cut over back and forth.
THEOREM ObjectStoreNewRefsReadable == Spec => []NewRefsReadable
  <1>1. IInv => NewRefsReadable
    BY DEF IInv, Uploaded, NewRefsReadable, Read, ReadDual, ReadS3
  <1>2. QED
    BY ObjectStoreInvariant, <1>1, PTL

-----------------------------------------------------------------------------
(* Settled documents                                                       *)

\* A settled document stays settled.
LEMMA SettledStays ==
  ASSUME NEW d \in Documents
  PROVE  IInv /\ Settled(d) /\ [Next]_vars => Settled(d)'
  <1> SUFFICES ASSUME IInv, Settled(d), [Next]_vars PROVE Settled(d)'
    OBVIOUS
  <1> USE DEF Settled
  <1>t. /\ files \in [Documents -> {"none", "torn", "whole"}]
        /\ at \in [Procs -> [pc : {"idle", "open", "write"}, doc : Documents \cup {None}]]
    BY DEF IInv, TypeOK
  <1>n. None # d
    BY ObjectStoreAssumption
  <1>1. ASSUME NEW p \in Procs, NEW e \in Documents, PutLocal(p, e)
        PROVE  Settled(d)'
    <2>1. CASE e = d
      BY <1>1, <2>1 DEF PutLocal
    <2>2. CASE e # d
      BY <1>1, <1>t, <2>2 DEF PutLocal
    <2>3. QED
      BY <2>1, <2>2
  <1>2. ASSUME NEW p \in Procs, NEW e \in Documents, PutS3(p, e)
        PROVE  Settled(d)'
    BY <1>2 DEF PutS3
  <1>3. ASSUME NEW p \in Procs, Open(p)
        PROVE  Settled(d)'
    BY <1>3, <1>t DEF Open
  <1>4. ASSUME NEW p \in Procs, Write(p)
        PROVE  Settled(d)'
    BY <1>4, <1>t, <1>n DEF Write, Idle
  <1>5. ASSUME NEW p \in Procs, Abort(p)
        PROVE  Settled(d)'
    BY <1>5, <1>t, <1>n DEF Abort, Idle
  <1>6. ASSUME NEW p \in Procs, Cutover(p)
        PROVE  Settled(d)'
    BY <1>6 DEF Cutover
  <1>7. CASE UNCHANGED vars
    BY <1>7 DEF vars
  <1>8. QED
    BY <1>1, <1>2, <1>3, <1>4, <1>5, <1>6, <1>7 DEF Next

\* A settled document is read by its path, with either backend.
LEMMA SettledIsRead ==
  ASSUME NEW d \in Documents, NEW p \in Procs, Settled(d)
  PROVE  Read(p, Ref("local", d)) = d
  <1>1. ReadLocal(Ref("local", d)) = d
    BY DEF Settled, ReadLocal, Ref
  <1>2. ReadDual(Ref("local", d)) = d
    <2>1. CASE d = Missing
      BY <1>1, <2>1 DEF ReadDual, ReadS3, Ref, Missing
    <2>2. CASE d # Missing
      BY <1>1, <2>2 DEF ReadDual, Ref
    <2>3. QED
      BY <2>1, <2>2
  <1>3. QED
    BY <1>1, <1>2 DEF Read

\* Once a document is settled in the directory, every process can read it by
\* its path for ever, whatever is put, crashes or is cut over meanwhile.
THEOREM ObjectStoreSettledStaysReadable == Spec => SettledStaysReadable
  <1>1. ASSUME NEW p \in Procs, NEW d \in Documents
        PROVE  Spec => [](Settled(d) => [](Read(p, Ref("local", d)) = d))
    <2>1. IInv /\ Settled(d) /\ [Next]_vars => Settled(d)'
      BY SettledStays
    <2>2. Settled(d) => Read(p, Ref("local", d)) = d
      BY SettledIsRead
    <2>3. Spec => []IInv /\ [][Next]_vars
      BY ObjectStoreInvariant, PTL DEF Spec
    <2>4. QED
      BY <2>1, <2>2, <2>3, PTL
  <1>2. QED
    BY <1>1 DEF SettledStaysReadable
=============================================================================
