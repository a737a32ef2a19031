-------------------------------- MODULE Calls --------------------------------
(***************************************************************************)
(* What the tools of the runtime have in common: a tool call is handled in *)
(* steps, each one request to a service or one access to a store, by the   *)
(* process it came to; and documents are put into a directory that the     *)
(* processes share, in three steps.  (With S3 a put is one step.)          *)
(*                                                                         *)
(* A document is its own reference; the store never deletes one.           *)
(***************************************************************************)
CONSTANT None   \* no value

VARIABLES
    at,         \* [processes -> the call in hand: [pc, call, req, got]]
    objects,    \* the documents that have a file
    torn        \* those of them whose file is not whole

storeVars == <<objects, torn>>

Idle == [pc |-> "idle", call |-> 0, req |-> None, got |-> None]

\* The next step of p's call is pc, with what it has got so far.
Step(p, pc, got) == at' = [at EXCEPT ![p].pc = pc, ![p].got = got]

\* call_tool: the exception reaches mcp_handler, which answers with an error.
Fails(p) == at' = [at EXCEPT ![p] = Idle]

\* put_json_immutable: exists(), and the put is done if there is a file ...
Exists(p, document, open, done) ==
    /\ Step(p, IF document \in objects THEN done ELSE open, at[p].got)
    /\ UNCHANGED storeVars

\* ... or it is opened, and emptied whatever another process wrote meanwhile ...
Open(p, document, write) ==
    /\ objects' = objects \cup {document} /\ torn' = torn \cup {document}
    /\ Step(p, write, at[p].got)

\* ... and written.
Write(p, document, done) ==
    /\ torn' = torn \ {document}
    /\ Step(p, done, at[p].got)
    /\ UNCHANGED objects
=============================================================================
