--------------------------- MODULE ArtifactStore ---------------------------
(***************************************************************************)
(* The local content-addressed store, at one digest.  Workers put the same *)
(* artifact, gateways open it, any of them sweeps the directory, and all   *)
(* of them only share the files.  A file is hashed once: the result is     *)
(* kept beside it, tied to the identity of the file, device, inode, size   *)
(* and times, and while the two agree nobody hashes again.                 *)
(***************************************************************************)
CONSTANTS
  Writers,  \* processes that put the artifact
  Readers,  \* processes that open it for a download
  Ids,      \* bound: identities of files that matter at a time
  Nothing

VARIABLES
  file,     \* what the address names: its identity, and whether the bytes
            \* hash to the address
  meta,     \* the identity that .meta.json vouches for
  where,    \* what a process is at: idle, opened, vouch, accept, remove,
            \* write, reopen, record
  handle,   \* the file it has open, or is about to move to the address
  rmLeft,   \* which of the two removals it has sent are not done
  sweeping  \* some sweep has removed the file and not yet its metadata

storeVars == <<file, meta, where, handle, rmLeft, sweeping>>

Processes == Writers \cup Readers
Files == [id : Ids, genuine : BOOLEAN]

ASSUME StoreConstants == Nothing \notin Ids /\ Nothing \notin Files

\* No metadata: an older version wrote none.  It may not have finished.
StoreInit ==
  /\ file = Nothing \/ file \in Files
  /\ meta = Nothing
  /\ where = [p \in Processes |-> "idle"]
  /\ handle = [p \in Processes |-> Nothing]
  /\ rmLeft = [p \in Processes |-> {}]
  /\ sweeping = FALSE

\* A change to a file gives it times, or an inode, that no file had.
InHand == ({file} \cup {handle[p] : p \in Processes}) \ {Nothing}
InUse == {f.id : f \in InHand} \cup {meta}
NewId == CHOOSE i \in Ids : i \notin InUse
HasNewId == Ids \ InUse # {}

Goes(p, phase) == where' = [where EXCEPT ![p] = phase]
Holds(p, f) == handle' = [handle EXCEPT ![p] = f]

----------------------------------------------------------------------------
(* Opening what is there: openVerifiedFile, for put and for open. *)

\* There is nothing to accept: not found for a reader, and a put writes.
Missing(p) ==
  /\ Goes(p, IF p \in Writers THEN "remove" ELSE "idle")
  /\ rmLeft' = [rmLeft EXCEPT ![p] = IF p \in Writers THEN {"file", "meta"} ELSE {}]

\* The address is opened, and names the same file before and after, unless it
\* is moved away in between.
Open(p) ==
  /\ where[p] = "idle"
  /\ \/ /\ file # Nothing
        /\ Holds(p, file)
        /\ Goes(p, "opened")
        /\ UNCHANGED rmLeft
     \/ /\ Missing(p)
        /\ UNCHANGED handle
  /\ UNCHANGED <<file, meta, sweeping>>

\* metadataMatches.
Vouched_Any(f) == meta # Nothing
Vouched(f) == meta = f.id

\* The metadata is read; the file is hashed only if it does not vouch for it.
\* A file with other bytes loses its metadata, if that can be removed.
Verify(p) ==
  /\ where[p] = "opened"
  /\ \/ /\ Vouched(handle[p])
        /\ Goes(p, "accept")
        /\ UNCHANGED <<meta, handle, rmLeft>>
     \/ /\ ~Vouched(handle[p]) /\ handle[p].genuine
        /\ Goes(p, "vouch")
        /\ UNCHANGED <<meta, handle, rmLeft>>
     \/ /\ ~Vouched(handle[p]) /\ ~handle[p].genuine
        /\ meta' \in {meta, Nothing}
        /\ Holds(p, Nothing) /\ Missing(p)
  /\ UNCHANGED <<file, sweeping>>

\* The file cannot be read: as if it were not there.
Unread(p) ==
  /\ where[p] = "opened"
  /\ Holds(p, Nothing) /\ Missing(p)
  /\ UNCHANGED <<file, meta, sweeping>>

\* What was hashed gets metadata; it can be read without.
Vouch(p) ==
  /\ where[p] = "vouch"
  /\ meta' \in {meta, handle[p].id}
  /\ Goes(p, "accept")
  /\ UNCHANGED <<file, handle, rmLeft, sweeping>>

\* The bytes go to the client, or the put returns the address.
Accept(p) ==
  /\ where[p] = "accept"
  /\ Holds(p, Nothing) /\ Goes(p, "idle")
  /\ UNCHANGED <<file, meta, rmLeft, sweeping>>

----------------------------------------------------------------------------
(* put, when there is nothing to accept. *)

\* Promise.all: the two removals are done in either order.
Remove(p, what) ==
  /\ where[p] = "remove" /\ what \in rmLeft[p]
  /\ rmLeft' = [rmLeft EXCEPT ![p] = @ \ {what}]
  /\ file' = IF what = "file" THEN Nothing ELSE file
  /\ meta' = IF what = "meta" THEN Nothing ELSE meta
  /\ UNCHANGED <<where, handle, sweeping>>

\* The temporary file is complete.
Write(p) ==
  /\ where[p] = "remove" /\ rmLeft[p] = {} /\ HasNewId
  /\ Holds(p, [id |-> NewId, genuine |-> TRUE])
  /\ Goes(p, "write")
  /\ UNCHANGED <<file, meta, rmLeft, sweeping>>

MoveIn(p) ==
  /\ where[p] = "write"
  /\ file' = handle[p]
  /\ Holds(p, Nothing) /\ Goes(p, "reopen")
  /\ UNCHANGED <<meta, rmLeft, sweeping>>

\* Another writer may have removed or replaced it: put throws if it is gone.
\* Its size is compared, its bytes are not hashed.
Reopen(p) ==
  /\ where[p] = "reopen"
  /\ Holds(p, file)
  /\ Goes(p, IF file = Nothing THEN "idle" ELSE "record")
  /\ UNCHANGED <<file, meta, rmLeft, sweeping>>

\* publishMetadata, and the put returns.
RecordIdentity(p) ==
  /\ where[p] = "record"
  /\ meta' = handle[p].id
  /\ Holds(p, Nothing) /\ Goes(p, "idle")
  /\ UNCHANGED <<file, rmLeft, sweeping>>

\* A call on the directory fails, or the process is killed.
GiveUp(p) ==
  /\ where[p] # "idle"
  /\ Holds(p, Nothing) /\ Goes(p, "idle")
  /\ rmLeft' = [rmLeft EXCEPT ![p] = {}]
  /\ UNCHANGED <<file, meta, sweeping>>

----------------------------------------------------------------------------
(* The directory. *)

\* maybePrune: past its TTL, over the quota, or metadata without a file.
\* Every process sweeps; another may be as far when this one ends.
SweepFile ==
  /\ ~(file = Nothing /\ meta = Nothing)
  /\ sweeping' = TRUE
  /\ file' = Nothing
  /\ UNCHANGED <<meta, where, handle, rmLeft>>

SweepMetadata ==
  /\ sweeping
  /\ sweeping' \in BOOLEAN
  /\ meta' = Nothing
  /\ UNCHANGED <<file, where, handle, rmLeft>>

\* Damage that happens while nobody is at work on the file.
FileDamaged ==
  /\ file # Nothing /\ HasNewId
  /\ \A p \in Processes : where[p] # "reopen" /\ handle[p] # file
  /\ file' = [id |-> NewId, genuine |-> FALSE]
  /\ UNCHANGED <<meta, where, handle, rmLeft, sweeping>>

StoreNext ==
  \/ \E p \in Processes : Open(p) \/ Verify(p) \/ Unread(p) \/ Vouch(p) \/ Accept(p) \/ GiveUp(p)
  \/ \E p \in Writers :
       \/ \E what \in {"file", "meta"} : Remove(p, what)
       \/ Write(p) \/ MoveIn(p) \/ Reopen(p) \/ RecordIdentity(p)
  \/ SweepFile \/ SweepMetadata \/ FileDamaged

StoreSpec == StoreInit /\ [][StoreNext]_storeVars

----------------------------------------------------------------------------

StoreTypeOK ==
  /\ file \in Files \cup {Nothing} /\ meta \in Ids \cup {Nothing}
  /\ where \in [Processes -> {"idle", "opened", "vouch", "accept", "remove", "write", "reopen", "record"}]
  /\ handle \in [Processes -> Files \cup {Nothing}]
  /\ rmLeft \in [Processes -> SUBSET {"file", "meta"}]
  /\ sweeping \in BOOLEAN

\* What is sent to a client, or accepted in place of a write, has the bytes its
\* address names, however late the metadata of another file arrives.
ServedIsGenuine ==
  \A p \in Processes : where[p] = "accept" => handle[p].genuine
============================================================================
