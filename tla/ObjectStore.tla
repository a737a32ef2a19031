---------------------------- MODULE ObjectStore ----------------------------
(***************************************************************************)
(* The object store of storage/objects.py, s3.py and dual.py: documents    *)
(* under the hash of their content, in a directory or in an S3 bucket that *)
(* several processes share.  Which of the two a process writes to is a     *)
(* setting it reads when it starts, so it changes at restarts, one process *)
(* at a time.                                                              *)
(*                                                                         *)
(* A local put is not one step: exists, open for writing (which truncates),*)
(* write.  A put to S3 is one.  Hashes do not collide, so a document is    *)
(* its own name.                                                           *)
(***************************************************************************)
EXTENDS Naturals, FiniteSets

CONSTANTS
    Procs,      \* processes that put and read objects
    Documents,
    None,
    MaxFaults,  \* bound: crashes and failed writes
    MaxCutover  \* bound: restarts with another OBJECT_STORE_BACKEND

ASSUME ObjectStoreAssumption ==
    /\ None \notin Documents
    /\ MaxFaults \in Nat /\ MaxCutover \in Nat

VARIABLES
    files,      \* [Documents -> "none", "torn" or "whole"], the local directory
    bucket,     \* the documents in the S3 bucket
    backend,    \* [Procs -> "local" or "s3"]
    at,         \* [Procs -> the put in progress]
    refs,       \* every reference a put returned
    faults, cutovers

vars == <<files, bucket, backend, at, refs, faults, cutovers>>

Idle == [pc |-> "idle", doc |-> None]

Ref(kind, d) == [kind |-> kind, doc |-> d]

Init ==
    /\ files = [d \in Documents |-> "none"]
    /\ bucket = {}
    /\ backend = [p \in Procs |-> "local"]
    /\ at = [p \in Procs |-> Idle]
    /\ refs = {}
    /\ faults = 0 /\ cutovers = 0

\* Mutation: written whether it exists or not.
PutLocalAlways(p, d) ==
    /\ at[p].pc = "idle" /\ backend[p] = "local"
    /\ at' = [at EXCEPT ![p] = [pc |-> "open", doc |-> d]]
    /\ UNCHANGED <<files, bucket, backend, refs, faults, cutovers>>

\* put_*_immutable, local: path.exists().  What exists is taken to be right.
PutLocal(p, d) ==
    /\ at[p].pc = "idle" /\ backend[p] = "local"
    /\ IF files[d] = "none"
       THEN at' = [at EXCEPT ![p] = [pc |-> "open", doc |-> d]] /\ UNCHANGED refs
       ELSE refs' = refs \cup {Ref("local", d)} /\ UNCHANGED at
    /\ UNCHANGED <<files, bucket, backend, faults, cutovers>>

\* write_bytes opens the file: it is there, and empty, whatever it held.
Open(p) ==
    /\ at[p].pc = "open"
    /\ files' = [files EXCEPT ![at[p].doc] = "torn"]
    /\ at' = [at EXCEPT ![p].pc = "write"]
    /\ UNCHANGED <<bucket, backend, refs, faults, cutovers>>

\* ... and writes it; the put returns the path.
Write(p) ==
    /\ at[p].pc = "write"
    /\ files' = [files EXCEPT ![at[p].doc] = "whole"]
    /\ refs' = refs \cup {Ref("local", at[p].doc)}
    /\ at' = [at EXCEPT ![p] = Idle]
    /\ UNCHANGED <<bucket, backend, faults, cutovers>>

\* Mutation: nothing is uploaded that is in the directory already.
PutS3IfNew(p, d) ==
    /\ at[p].pc = "idle" /\ backend[p] = "s3"
    /\ bucket' = IF files[d] = "none" THEN bucket \cup {d} ELSE bucket
    /\ refs' = refs \cup {Ref("s3", d)}
    /\ UNCHANGED <<files, backend, at, faults, cutovers>>

\* S3ObjectStore, also behind DualReadObjectStore: put_object.
PutS3(p, d) ==
    /\ at[p].pc = "idle" /\ backend[p] = "s3"
    /\ bucket' = bucket \cup {d}
    /\ refs' = refs \cup {Ref("s3", d)}
    /\ UNCHANGED <<files, backend, at, faults, cutovers>>

\* The process dies in a put, or the put raises (no space left): the file
\* stays as it is.
Abort(p) ==
    /\ at[p].pc # "idle" /\ faults < MaxFaults
    /\ faults' = faults + 1
    /\ at' = [at EXCEPT ![p] = Idle]
    /\ UNCHANGED <<files, bucket, backend, refs, cutovers>>

\* Mutation: the setting is removed instead of set to local.
CutoverUnset(p) ==
    /\ at[p].pc = "idle" /\ cutovers < MaxCutover
    /\ cutovers' = cutovers + 1
    /\ backend' = [backend EXCEPT ![p] = IF @ = "local" THEN "s3" ELSE None]
    /\ UNCHANGED <<files, bucket, at, refs, faults>>

\* The process is restarted with the other OBJECT_STORE_BACKEND.
Cutover(p) ==
    /\ at[p].pc = "idle" /\ cutovers < MaxCutover
    /\ cutovers' = cutovers + 1
    /\ backend' = [backend EXCEPT ![p] = IF @ = "local" THEN "s3" ELSE "local"]
    /\ UNCHANGED <<files, bucket, at, refs, faults>>

Next ==
    \E p \in Procs :
        \/ \E d \in Documents : PutLocal(p, d) \/ PutS3(p, d)
        \/ Open(p) \/ Write(p) \/ Abort(p) \/ Cutover(p)

Spec == Init /\ [][Next]_vars

-----------------------------------------------------------------------------
(* Reading                                                                 *)

Broken == "torn"        \* bytes, but not the document
Missing == "missing"    \* an exception

ReadLocal(r) ==
    IF r.kind = "s3" \/ files[r.doc] = "none" THEN Missing
    ELSE IF files[r.doc] = "whole" THEN r.doc ELSE Broken

ReadS3(r) == IF r.kind = "s3" /\ r.doc \in bucket THEN r.doc ELSE Missing

\* DualReadObjectStore: s3:// references from S3, others from the directory
\* and, when that raises, from S3.
ReadDual(r) ==
    IF r.kind = "s3" \/ ReadLocal(r) = Missing THEN ReadS3(r) ELSE ReadLocal(r)

\* read_text and read_bytes, with the store that process p was started with.
Read(p, r) == IF backend[p] = "s3" THEN ReadDual(r) ELSE ReadLocal(r)

-----------------------------------------------------------------------------
(* Properties                                                              *)

TypeOK ==
    /\ files \in [Documents -> {"none", "torn", "whole"}]
    /\ bucket \subseteq Documents
    /\ backend \in [Procs -> {"local", "s3"}]
    /\ at \in [Procs -> [pc : {"idle", "open", "write"}, doc : Documents \cup {None}]]
    /\ refs \subseteq [kind : {"local", "s3"}, doc : Documents]
    /\ faults \in Nat /\ cutovers \in Nat

\* The document is in the directory and no put of it is under way.
Settled(d) == files[d] = "whole" /\ \A p \in Procs : at[p].doc # d

\* docs/SECURITY.md, dual-read: once a document is settled in the
\* directory, every process can read it by its path for ever: while others put
\* it again, crash in a put of it, or are cut over to S3 and back.
SettledStaysReadable ==
    \A p \in Procs, d \in Documents :
        [](Settled(d) => [](Read(p, Ref("local", d)) = d))

\* Whatever process wrote a reference to S3, every process that has been cut
\* over reads it.
NewRefsReadable ==
    \A p \in Procs, r \in refs : r.kind = "s3" /\ backend[p] = "s3" => Read(p, r) = r.doc

\* A reference returned by a put reads back as the document that was put.
RefsReadBack ==
    \A p \in Procs, r \in refs : r.kind = "local" => Read(p, r) = r.doc
=============================================================================
