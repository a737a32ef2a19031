----------------------------- MODULE Credentials -----------------------------
(***************************************************************************)
(* Stored credentials: storage/credentials.py over security/envelope.py.   *)
(* Every process that builds the runtime makes sure that there is a master *)
(* key file: it looks, and writes a new key when there is none.  That is   *)
(* three steps (exists, open, write), and several processes may start at   *)
(* once on one volume.  The key is read from the file again each time a    *)
(* secret is encrypted or decrypted.                                       *)
(*                                                                         *)
(* Fernet.generate_key never gives a key twice, and a ciphertext is the    *)
(* pair of key and plaintext: what another key, or no key, makes of it is  *)
(* an exception.  The data key between the two adds nothing to that.       *)
(***************************************************************************)
EXTENDS Naturals

CONSTANTS
    Procs,      \* processes that build the runtime
    Names,      \* credential names
    Profiles,   \* decrypted JSON documents
    Objects,    \* those of them that are JSON objects
    NoProfile   \* no row, no profile

ASSUME CredentialsAssumption ==
    /\ Objects \subseteq Profiles /\ NoProfile \notin Profiles
    /\ NoProfile \notin [key : Nat, profile : Profiles, settled : BOOLEAN]

VARIABLES
    keyfile,    \* the master key file: [exists, key], key 0 while it is empty
    keys,       \* keys generated so far
    boot,       \* [Procs -> "down", "open", "write" or "up"]
    secrets     \* table secret_credentials: [Names -> row or NoProfile]

credentialVars == <<keyfile, keys, boot, secrets>>

CredentialsInit ==
    /\ keyfile = [exists |-> FALSE, key |-> 0] /\ keys = 0
    /\ boot = [p \in Procs |-> "down"]
    /\ secrets = [n \in Names |-> NoProfile]

\* Mutation: a key is written whether there is one or not.
StartAlways(p) ==
    /\ boot[p] = "down"
    /\ boot' = [boot EXCEPT ![p] = "open"]
    /\ UNCHANGED <<keyfile, keys, secrets>>

\* __post_init__: exists().
Start(p) ==
    /\ boot[p] = "down"
    /\ boot' = [boot EXCEPT ![p] = IF keyfile.exists THEN "up" ELSE "open"]
    /\ UNCHANGED <<keyfile, keys, secrets>>

\* write_bytes opens the file and so empties it, whatever others wrote ...
OpenKeyFile(p) ==
    /\ boot[p] = "open"
    /\ keyfile' = [exists |-> TRUE, key |-> 0]
    /\ boot' = [boot EXCEPT ![p] = "write"]
    /\ UNCHANGED <<keys, secrets>>

\* ... and writes a new key.
WriteKey(p) ==
    /\ boot[p] = "write"
    /\ keys' = keys + 1
    /\ keyfile' = [exists |-> TRUE, key |-> keys']
    /\ boot' = [boot EXCEPT ![p] = "up"]
    /\ UNCHANGED secrets

\* The process ends; a key file it had opened stays empty, and exists.
Stop(p) ==
    /\ boot[p] # "down"
    /\ boot' = [boot EXCEPT ![p] = "down"]
    /\ UNCHANGED <<keyfile, keys, secrets>>

\* There is a key and no process is between exists() and the end of its write.
Settled == keyfile.key # 0 /\ \A p \in Procs : boot[p] \notin {"open", "write"}

\* encrypt_secret, called by an operator's script that built the store, and
\* the row it writes.  With an empty key file it raises.
Store(p, n, v) ==
    /\ boot[p] = "up" /\ keyfile.key # 0
    /\ secrets' = [secrets EXCEPT ![n] =
            [key |-> keyfile.key, profile |-> v, settled |-> Settled]]
    /\ UNCHANGED <<keyfile, keys, boot>>

\* decrypt_secret raises: the file is empty or holds another key.
Undecipherable(row) == row # NoProfile /\ row.key # keyfile.key

\* get_auth_profile of a row it could decrypt, or of none.
ProfileOf(row) ==
    IF row = NoProfile \/ row.profile \notin Objects THEN NoProfile ELSE row.profile

CredentialsNext ==
    \E p \in Procs :
        \/ Start(p) \/ OpenKeyFile(p) \/ WriteKey(p) \/ Stop(p)
        \/ \E n \in Names, v \in Profiles : Store(p, n, v)

CredentialsSpec == CredentialsInit /\ [][CredentialsNext]_credentialVars

-----------------------------------------------------------------------------

CredentialsTypeOK ==
    /\ keyfile \in [exists : BOOLEAN, key : Nat] /\ keys \in Nat
    /\ boot \in [Procs -> {"down", "open", "write", "up"}]
    /\ secrets \in [Names -> {NoProfile} \cup [key : Nat, profile : Profiles, settled : BOOLEAN]]

\* A credential stored when no process was just creating the key file can be
\* decrypted ever after, however often processes stop, die and start again.
\* (One that is stored while two processes start on an empty volume may not:
\* the second replaces the key of the first.)
SecretsReadBack ==
    \A n \in Names : secrets[n] # NoProfile /\ secrets[n].settled => ~Undecipherable(secrets[n])
=============================================================================
