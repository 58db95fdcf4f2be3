---------------------------- MODULE UploadStore ----------------------------
(***************************************************************************)
(* internal/frontend/transfer.go: the resumable uploads of the HTTP        *)
(* frontend, and the artifacts they become.                                *)
(*                                                                         *)
(* An upload is two files, a .part with its bytes and a .json with what    *)
(* was received; a complete one is renamed to its final path and described *)
(* by an artifact's .json.  Handlers of the same upload exclude each other *)
(* by a reference-counted lock that exists only while somebody uses it;    *)
(* the sweep of expired uploads takes no lock; the process may end between *)
(* any two file operations and only the files stay.                        *)
(*                                                                         *)
(* A file is a function from its block numbers to blocks (Hole past its    *)
(* end), and a checksum is the content it stands for.  Time is abstract: a *)
(* record is stale once its TTL has passed.                                *)
(***************************************************************************)
EXTENDS Naturals, FiniteSets

CONSTANTS
    Uploads,          \* identifiers, one for each CreateUpload
    Requests,         \* handlers that run at the same time
    Locks,            \* transferLock objects
    Blocks,           \* what a block may hold
    Hole,             \* what a file has past its end
    Total,            \* size of every upload, in blocks
    Absent,           \* no file, no record, no lock, no declared checksum
    MaxExpiries,      \* bound: records that become stale
    MaxSaveFailures,  \* bound: metadata that cannot be written
    MaxCrashes        \* bound: ends of the process

File == [1..Total -> Blocks \cup {Hole}]
UploadRecord   == [received : 0..Total, stale : BOOLEAN]
ArtifactRecord == [sum : File, stale : BOOLEAN]

ASSUME SizeAssumption == Total \in Nat

ASSUME ValuesAssumption ==
    /\ Hole \notin Blocks
    /\ Absent \notin File \cup UploadRecord \cup ArtifactRecord
    /\ Absent \notin Uploads \cup Locks \cup Requests

ASSUME RequestsAssumption == IsFiniteSet(Requests)

ASSUME BoundsAssumption ==
    MaxExpiries \in Nat /\ MaxSaveFailures \in Nat /\ MaxCrashes \in Nat

VARIABLES
    \* files
    meta,       \* uploads/<id>.json
    part,       \* uploads/<id>.part
    final,      \* artifacts/<id>-<name>
    artifact,   \* artifacts/<id>.json
    \* CreateUpload
    creation,   \* never, part (the .part exists), done (successful or not)
    declared,   \* the checksum the client announced, if any
    \* TransferManager.locks
    lockOf,     \* upload -> its lock
    refs,       \* lock -> transferLock.refs
    holder,     \* lock -> who holds its mutex
    \* handlers
    at,         \* how far the handler is
    upload,     \* the upload it is about
    lock,       \* the lock it refers to
    op,         \* status, write, complete or cancel
    start,      \* write: first block, less one
    length,     \* write: blocks announced by Content-Range
    written,    \* write: blocks copied so far
    body,       \* write: what was copied
    sum,        \* complete: the checksum computed
    \* cleanupExpired
    sweep,      \* no, part or meta: what is removed next of the upload
    \* history
    accepted,   \* the blocks whose writes were answered with success
    expiries, saveFailures, crashes

files    == <<meta, part, final, artifact>>
creating == <<creation, declared>>
locking  == <<lockOf, refs, holder>>
local    == <<upload, lock, op, start, length, written, body, sum>>
bounds   == <<expiries, saveFailures, crashes>>
vars     == <<files, creating, locking, at, local, sweep, accepted, bounds>>

EmptyFile == [i \in 1..Total |-> Hole]

\* file.Truncate
Truncated(f, n) == [i \in 1..Total |-> IF i <= n THEN f[i] ELSE Hole]

\* The blocks after the first s are replaced by the n blocks of b.
Spliced(f, s, n, b) ==
    [i \in 1..Total |-> IF i <= s THEN f[i] ELSE IF i <= s + n THEN b[i] ELSE Hole]

Init ==
    /\ meta = [u \in Uploads |-> Absent] /\ part = [u \in Uploads |-> Absent]
    /\ final = [u \in Uploads |-> Absent] /\ artifact = [u \in Uploads |-> Absent]
    /\ creation = [u \in Uploads |-> "never"]
    /\ declared = [u \in Uploads |-> Absent]
    /\ lockOf = [u \in Uploads |-> Absent]
    /\ refs = [l \in Locks |-> 0] /\ holder = [l \in Locks |-> Absent]
    /\ at = [r \in Requests |-> "idle"]
    /\ upload = [r \in Requests |-> Absent] /\ lock = [r \in Requests |-> Absent]
    /\ op = [r \in Requests |-> "none"]
    /\ start = [r \in Requests |-> 0] /\ length = [r \in Requests |-> 0]
    /\ written = [r \in Requests |-> 0] /\ body = [r \in Requests |-> EmptyFile]
    /\ sum = [r \in Requests |-> EmptyFile]
    /\ sweep = [u \in Uploads |-> "no"]
    /\ accepted = [u \in Uploads |-> EmptyFile]
    /\ expiries = 0 /\ saveFailures = 0 /\ crashes = 0

----------------------------------------------------------------------------
(* CreateUpload (the sweep it begins with is below).  Nobody else knows    *)
(* the identifier before it returns.                                       *)

CreatePart(u) ==
    /\ creation[u] = "never"
    /\ creation' = [creation EXCEPT ![u] = "part"]
    /\ \E sha \in {Absent} \cup [1..Total -> Blocks] :
          declared' = [declared EXCEPT ![u] = sha]
    /\ part' = [part EXCEPT ![u] = EmptyFile]
    /\ UNCHANGED <<meta, final, artifact, locking, at, local, sweep, accepted, bounds>>

CreateMeta(u) ==
    /\ creation[u] = "part"
    /\ creation' = [creation EXCEPT ![u] = "done"]
    /\ \/ /\ meta' = [meta EXCEPT ![u] = [received |-> 0, stale |-> FALSE]]
          /\ UNCHANGED <<part, saveFailures>>
       \/ /\ saveFailures < MaxSaveFailures
          /\ saveFailures' = saveFailures + 1
          /\ part' = [part EXCEPT ![u] = Absent]
          /\ UNCHANGED meta
    /\ UNCHANGED <<final, artifact, declared, locking, at, local, sweep, accepted,
                   expiries, crashes>>

----------------------------------------------------------------------------
(* lockTransfer and the function it returns.                               *)

\* Under TransferManager.mu: the lock of the upload, or a new one.
Enter(r, u, kind) ==
    /\ at[r] = "idle" /\ creation[u] = "done"
    /\ \E l \in Locks :
          /\ IF lockOf[u] = Absent THEN refs[l] = 0 ELSE l = lockOf[u]
          /\ lockOf' = [lockOf EXCEPT ![u] = l]
          /\ refs' = [refs EXCEPT ![l] = @ + 1]
          /\ lock' = [lock EXCEPT ![r] = l]
    /\ upload' = [upload EXCEPT ![r] = u]
    /\ op' = [op EXCEPT ![r] = kind]
    /\ at' = [at EXCEPT ![r] = "waiting"]
    /\ UNCHANGED <<files, creating, holder, start, length, written, body, sum, sweep,
                   accepted, bounds>>

Acquire(r) ==
    /\ at[r] = "waiting" /\ holder[lock[r]] = Absent
    /\ holder' = [holder EXCEPT ![lock[r]] = r]
    /\ at' = [at EXCEPT ![r] = "locked"]
    /\ UNCHANGED <<files, creating, lockOf, refs, local, sweep, accepted, bounds>>

Unlock(r) ==
    /\ at[r] = "returning"
    /\ holder' = [holder EXCEPT ![lock[r]] = Absent]
    /\ at' = [at EXCEPT ![r] = "leaving"]
    /\ UNCHANGED <<files, creating, lockOf, refs, local, sweep, accepted, bounds>>

\* What a handler that has returned no longer needs.
ForgetRequest(r) ==
    /\ at' = [at EXCEPT ![r] = "idle"]
    /\ upload' = [upload EXCEPT ![r] = Absent] /\ lock' = [lock EXCEPT ![r] = Absent]
    /\ op' = [op EXCEPT ![r] = "none"]
    /\ start' = [start EXCEPT ![r] = 0] /\ length' = [length EXCEPT ![r] = 0]
    /\ written' = [written EXCEPT ![r] = 0]
    /\ body' = [body EXCEPT ![r] = EmptyFile] /\ sum' = [sum EXCEPT ![r] = EmptyFile]

\* Mutant of Leave: the entry is deleted whoever else refers to the lock.
LeaveAlways(r) ==
    /\ at[r] = "leaving"
    /\ refs' = [refs EXCEPT ![lock[r]] = @ - 1]
    /\ lockOf' = [lockOf EXCEPT ![upload[r]] = Absent]
    /\ ForgetRequest(r)
    /\ UNCHANGED <<files, creating, holder, sweep, accepted, bounds>>

\* Under TransferManager.mu again: the last one to leave deletes the entry.
Leave(r) ==
    /\ at[r] = "leaving"
    /\ refs' = [refs EXCEPT ![lock[r]] = @ - 1]
    /\ lockOf' = IF refs[lock[r]] = 1 THEN [lockOf EXCEPT ![upload[r]] = Absent] ELSE lockOf
    /\ ForgetRequest(r)
    /\ UNCHANGED <<files, creating, holder, sweep, accepted, bounds>>

----------------------------------------------------------------------------
(* loadUpload, under the lock.                                             *)

Goto(r, label) == at' = [at EXCEPT ![r] = label]

\* What is left alone by a step of a handler that holds the lock.
Others == <<creating, locking, upload, lock, op, sweep>>

Fresh(u) == meta[u] # Absent /\ ~meta[u].stale
Loaded(r, kind) == at[r] = "locked" /\ op[r] = kind /\ Fresh(upload[r])

\* Mutant of LoadFails: the error is returned without the deferred unlock.
LoadFailsLocked(r) ==
    /\ at[r] = "locked" /\ ~Fresh(upload[r])
    /\ Goto(r, "leaving")
    /\ meta' = [meta EXCEPT ![upload[r]] = Absent]
    /\ part' = IF meta[upload[r]] = Absent THEN part ELSE [part EXCEPT ![upload[r]] = Absent]
    /\ UNCHANGED <<Others, final, artifact, start, length, written, body, sum,
                   accepted, bounds>>

\* There is no such upload, or it is stale and removed on the spot.
LoadFails(r) ==
    /\ at[r] = "locked" /\ ~Fresh(upload[r])
    /\ Goto(r, "returning")
    /\ meta' = [meta EXCEPT ![upload[r]] = Absent]
    /\ part' = IF meta[upload[r]] = Absent THEN part ELSE [part EXCEPT ![upload[r]] = Absent]
    /\ UNCHANGED <<Others, final, artifact, start, length, written, body, sum,
                   accepted, bounds>>

\* UploadStatus only reports what it loaded.
Status(r) ==
    /\ Loaded(r, "status")
    /\ Goto(r, "returning")
    /\ UNCHANGED <<Others, files, start, length, written, body, sum, accepted, bounds>>

----------------------------------------------------------------------------
(* WriteChunk.                                                             *)

\* Mutant of WriteBegins: the offset is not compared with the progress.
WriteBeginsAnywhere(r) ==
    LET u == upload[r] IN
    /\ Loaded(r, "write") /\ part[u] # Absent
    /\ \E s \in 0..Total, n \in 1..Total :
          /\ s + n <= Total
          /\ start' = [start EXCEPT ![r] = s]
          /\ length' = [length EXCEPT ![r] = n]
    /\ Goto(r, "writing")
    /\ UNCHANGED <<Others, files, written, body, sum, accepted, bounds>>

\* Mutant of WriteBegins: the end of the range is not compared with the size.
WriteBeginsPast(r) ==
    LET u == upload[r] IN
    /\ Loaded(r, "write") /\ part[u] # Absent
    /\ \E n \in 1..Total :
          /\ start' = [start EXCEPT ![r] = meta[u].received]
          /\ length' = [length EXCEPT ![r] = n]
    /\ Goto(r, "writing")
    /\ UNCHANGED <<Others, files, written, body, sum, accepted, bounds>>

\* The range starts where the upload stands and stays inside it; the .part is
\* opened, not created.
WriteBegins(r) ==
    LET u == upload[r] IN
    /\ Loaded(r, "write") /\ part[u] # Absent
    /\ \E n \in 1..Total :
          /\ meta[u].received + n <= Total
          /\ start' = [start EXCEPT ![r] = meta[u].received]
          /\ length' = [length EXCEPT ![r] = n]
    /\ Goto(r, "writing")
    /\ UNCHANGED <<Others, files, written, body, sum, accepted, bounds>>

\* Another offset or size (errOffsetConflict), or no .part.
WriteRefused(r) ==
    /\ Loaded(r, "write")
    /\ Goto(r, "returning")
    /\ UNCHANGED <<Others, files, start, length, written, body, sum, accepted, bounds>>

\* io.CopyN, one block at a time.  A .part that was removed meanwhile takes
\* the blocks with it.
WriteBlock(r) ==
    LET u == upload[r]  k == start[r] + written[r] + 1 IN
    /\ at[r] = "writing" /\ written[r] < length[r]
    /\ \E b \in Blocks :
          /\ body' = [body EXCEPT ![r][k] = b]
          /\ part' = IF part[u] = Absent THEN part ELSE [part EXCEPT ![u][k] = b]
    /\ written' = [written EXCEPT ![r] = @ + 1]
    /\ UNCHANGED <<Others, meta, final, artifact, at, start, length, sum, accepted, bounds>>

\* The body is too short or too long, or Sync fails: back to the start.
WriteFails(r) ==
    LET u == upload[r] IN
    /\ at[r] = "writing"
    /\ part' = IF part[u] = Absent THEN part
               ELSE [part EXCEPT ![u] = Truncated(@, start[r])]
    /\ Goto(r, "returning")
    /\ UNCHANGED <<Others, meta, final, artifact, start, length, written, body, sum,
                   accepted, bounds>>

\* Mutant of WriteSaves: the progress is the number of blocks announced to be
\* sent, whether or not they have all been copied.
WriteSavesEarly(r) ==
    LET u == upload[r] IN
    /\ at[r] = "writing"
    /\ meta' = [meta EXCEPT ![u] = [received |-> start[r] + length[r], stale |-> FALSE]]
    /\ accepted' = [accepted EXCEPT ![u] = Spliced(@, start[r], length[r], body[r])]
    /\ UNCHANGED <<part, saveFailures>>
    /\ Goto(r, "returning")
    /\ UNCHANGED <<Others, final, artifact, start, length, written, body, sum,
                   expiries, crashes>>

\* All of the body is in the file: the new progress is saved, or the blocks
\* are taken back.
WriteSaves(r) ==
    LET u == upload[r] IN
    /\ at[r] = "writing" /\ written[r] = length[r]
    /\ \/ /\ meta' = [meta EXCEPT ![u] = [received |-> start[r] + length[r], stale |-> FALSE]]
          /\ accepted' = [accepted EXCEPT ![u] = Spliced(@, start[r], length[r], body[r])]
          /\ UNCHANGED <<part, saveFailures>>
       \/ /\ saveFailures < MaxSaveFailures
          /\ saveFailures' = saveFailures + 1
          /\ part' = IF part[u] = Absent THEN part
                     ELSE [part EXCEPT ![u] = Truncated(@, start[r])]
          /\ UNCHANGED <<meta, accepted>>
    /\ Goto(r, "returning")
    /\ UNCHANGED <<Others, final, artifact, start, length, written, body, sum,
                   expiries, crashes>>

----------------------------------------------------------------------------
(* CompleteUpload.                                                         *)

\* Mutant of CompleteHashes: the progress is not compared with the size.
CompleteHashesShort(r) ==
    LET u == upload[r] IN
    /\ Loaded(r, "complete") /\ part[u] # Absent
    /\ declared[u] \in {Absent, part[u]}
    /\ sum' = [sum EXCEPT ![r] = part[u]]
    /\ Goto(r, "hashed")
    /\ UNCHANGED <<Others, files, start, length, written, body, accepted, bounds>>

\* Everything has been received and the checksum, if one was declared, is right.
CompleteHashes(r) ==
    LET u == upload[r] IN
    /\ Loaded(r, "complete") /\ meta[u].received = Total /\ part[u] # Absent
    /\ declared[u] \in {Absent, part[u]}
    /\ sum' = [sum EXCEPT ![r] = part[u]]
    /\ Goto(r, "hashed")
    /\ UNCHANGED <<Others, files, start, length, written, body, accepted, bounds>>

CompleteRefused(r) ==
    LET u == upload[r] IN
    /\ Loaded(r, "complete")
    /\ \/ meta[u].received # Total
       \/ part[u] = Absent
       \/ declared[u] \notin {Absent, part[u]}
    /\ Goto(r, "returning")
    /\ UNCHANGED <<Others, files, start, length, written, body, sum, accepted, bounds>>

CompleteRenames(r) ==
    LET u == upload[r] IN
    /\ at[r] = "hashed"
    /\ IF part[u] = Absent
       THEN Goto(r, "returning") /\ UNCHANGED <<part, final>>
       ELSE /\ Goto(r, "renamed")
            /\ final' = [final EXCEPT ![u] = part[u]]
            /\ part' = [part EXCEPT ![u] = Absent]
    /\ UNCHANGED <<Others, meta, artifact, start, length, written, body, sum, accepted, bounds>>

\* The artifact is described, or the file goes back.
CompletePublishes(r) ==
    LET u == upload[r] IN
    /\ at[r] = "renamed"
    /\ \/ /\ artifact' = [artifact EXCEPT ![u] = [sum |-> sum[r], stale |-> FALSE]]
          /\ Goto(r, "published")
          /\ UNCHANGED <<part, final, saveFailures>>
       \/ /\ saveFailures < MaxSaveFailures
          /\ saveFailures' = saveFailures + 1
          /\ part' = [part EXCEPT ![u] = final[u]]
          /\ final' = [final EXCEPT ![u] = Absent]
          /\ Goto(r, "returning")
          /\ UNCHANGED artifact
    /\ UNCHANGED <<Others, meta, start, length, written, body, sum, accepted,
                   expiries, crashes>>

CompleteForgets(r) ==
    /\ at[r] = "published"
    /\ meta' = [meta EXCEPT ![upload[r]] = Absent]
    /\ Goto(r, "returning")
    /\ UNCHANGED <<Others, part, final, artifact, start, length, written, body, sum,
                   accepted, bounds>>

----------------------------------------------------------------------------
(* CancelUpload.                                                           *)

CancelPart(r) ==
    /\ Loaded(r, "cancel")
    /\ part' = [part EXCEPT ![upload[r]] = Absent]
    /\ Goto(r, "cancelled")
    /\ UNCHANGED <<Others, meta, final, artifact, start, length, written, body, sum,
                   accepted, bounds>>

CancelMeta(r) ==
    /\ at[r] = "cancelled"
    /\ meta' = [meta EXCEPT ![upload[r]] = Absent]
    /\ Goto(r, "returning")
    /\ UNCHANGED <<Others, part, final, artifact, start, length, written, body, sum,
                   accepted, bounds>>

----------------------------------------------------------------------------
(* cleanupExpired, which CreateUpload and PublishFile call without a lock, *)
(* and the removal of a stale artifact by whoever finds it.                *)

SweepFinds(u) ==
    /\ sweep[u] = "no" /\ meta[u] # Absent /\ meta[u].stale
    /\ sweep' = [sweep EXCEPT ![u] = "part"]
    /\ UNCHANGED <<files, creating, locking, at, local, accepted, bounds>>

SweepPart(u) ==
    /\ sweep[u] = "part"
    /\ part' = [part EXCEPT ![u] = Absent]
    /\ sweep' = [sweep EXCEPT ![u] = "meta"]
    /\ UNCHANGED <<meta, final, artifact, creating, locking, at, local, accepted, bounds>>

SweepMeta(u) ==
    /\ sweep[u] = "meta"
    /\ meta' = [meta EXCEPT ![u] = Absent]
    /\ sweep' = [sweep EXCEPT ![u] = "no"]
    /\ UNCHANGED <<part, final, artifact, creating, locking, at, local, accepted, bounds>>

SweepArtifact(u) ==
    /\ artifact[u] # Absent /\ artifact[u].stale
    /\ final' = [final EXCEPT ![u] = Absent]
    /\ artifact' = [artifact EXCEPT ![u] = Absent]
    /\ UNCHANGED <<meta, part, creating, locking, at, local, sweep, accepted, bounds>>

----------------------------------------------------------------------------
(* Time passes; the process ends.                                          *)

Expire(u) ==
    /\ expiries < MaxExpiries /\ expiries' = expiries + 1
    /\ \/ /\ Fresh(u)
          /\ meta' = [meta EXCEPT ![u].stale = TRUE]
          /\ UNCHANGED artifact
       \/ /\ artifact[u] # Absent /\ ~artifact[u].stale
          /\ artifact' = [artifact EXCEPT ![u].stale = TRUE]
          /\ UNCHANGED meta
    /\ UNCHANGED <<part, final, creating, locking, at, local, sweep, accepted,
                   saveFailures, crashes>>

Crash ==
    /\ crashes < MaxCrashes /\ crashes' = crashes + 1
    /\ creation' = [u \in Uploads |-> IF creation[u] = "part" THEN "done" ELSE creation[u]]
    /\ lockOf' = [u \in Uploads |-> Absent]
    /\ refs' = [l \in Locks |-> 0] /\ holder' = [l \in Locks |-> Absent]
    /\ at' = [r \in Requests |-> "idle"]
    /\ upload' = [r \in Requests |-> Absent] /\ lock' = [r \in Requests |-> Absent]
    /\ op' = [r \in Requests |-> "none"]
    /\ start' = [r \in Requests |-> 0] /\ length' = [r \in Requests |-> 0]
    /\ written' = [r \in Requests |-> 0] /\ body' = [r \in Requests |-> EmptyFile]
    /\ sum' = [r \in Requests |-> EmptyFile]
    /\ sweep' = [u \in Uploads |-> "no"]
    /\ UNCHANGED <<files, declared, accepted, expiries, saveFailures>>

----------------------------------------------------------------------------
Begin(r) == \E u \in Uploads, kind \in {"status", "write", "complete", "cancel"} :
                Enter(r, u, kind)
Write(r) == WriteBegins(r) \/ WriteRefused(r) \/ WriteBlock(r) \/ WriteFails(r) \/ WriteSaves(r)
Complete(r) == CompleteHashes(r) \/ CompleteRefused(r) \/ CompleteRenames(r)
               \/ CompletePublishes(r) \/ CompleteForgets(r)
Cancel(r) == CancelPart(r) \/ CancelMeta(r)
Handle(r) == Acquire(r) \/ LoadFails(r) \/ Status(r) \/ Write(r) \/ Complete(r) \/ Cancel(r)
             \/ Unlock(r) \/ Leave(r)
Create(u) == CreatePart(u) \/ CreateMeta(u)
Sweep(u)  == SweepFinds(u) \/ SweepPart(u) \/ SweepMeta(u) \/ SweepArtifact(u)

Next ==
    \/ \E r \in Requests : Begin(r) \/ Handle(r)
    \/ \E u \in Uploads : Create(u) \/ Sweep(u) \/ Expire(u)
    \/ Crash

Spec == Init /\ [][Next]_vars

----------------------------------------------------------------------------
(* Safety.                                                                 *)

Inside == {"locked", "writing", "hashed", "renamed", "published", "cancelled", "returning"}

\* Every variable keeps its type: no offset passes the size of the upload.
TypeOK ==
    /\ meta \in [Uploads -> UploadRecord \cup {Absent}]
    /\ part \in [Uploads -> File \cup {Absent}]
    /\ final \in [Uploads -> File \cup {Absent}]
    /\ artifact \in [Uploads -> ArtifactRecord \cup {Absent}]
    /\ creation \in [Uploads -> {"never", "part", "done"}]
    /\ declared \in [Uploads -> File \cup {Absent}]
    /\ lockOf \in [Uploads -> Locks \cup {Absent}]
    /\ refs \in [Locks -> Nat]
    /\ holder \in [Locks -> Requests \cup {Absent}]
    /\ at \in [Requests -> Inside \cup {"idle", "waiting", "leaving"}]
    /\ upload \in [Requests -> Uploads \cup {Absent}]
    /\ lock \in [Requests -> Locks \cup {Absent}]
    /\ op \in [Requests -> {"none", "status", "write", "complete", "cancel"}]
    /\ start \in [Requests -> 0..Total] /\ length \in [Requests -> 0..Total]
    /\ written \in [Requests -> 0..Total]
    /\ body \in [Requests -> File] /\ sum \in [Requests -> File]
    /\ sweep \in [Uploads -> {"no", "part", "meta"}]
    /\ accepted \in [Uploads -> File]
    /\ expiries \in 0..MaxExpiries /\ saveFailures \in 0..MaxSaveFailures
    /\ crashes \in 0..MaxCrashes

\* Two handlers of one upload are never between the lock and the unlock at
\* the same time, although the lock itself comes and goes with its users.
LockExclusive ==
    \A r, s \in Requests :
        r # s /\ at[r] \in Inside /\ at[s] \in Inside => upload[r] # upload[s]

\* As long as an upload has both its files, the blocks below its offset are
\* those whose writes were answered, whatever was cut short, retried,
\* refused or swept in between.
OffsetBacked ==
    \A u \in Uploads :
        meta[u] # Absent /\ part[u] # Absent =>
            \A i \in 1..meta[u].received : part[u][i] = accepted[u][i] /\ part[u][i] # Hole

\* An artifact that has not expired has its file, the file is what the
\* checksum says, what the client declared, and every block the client was
\* told is stored.
ArtifactFaithful ==
    \A u \in Uploads :
        artifact[u] # Absent /\ ~artifact[u].stale =>
            /\ final[u] # Absent
            /\ final[u] = artifact[u].sum /\ final[u] = accepted[u]
            /\ declared[u] \in {Absent, final[u]}
            /\ \A i \in 1..Total : final[u][i] # Hole

\* docs/MCP.md:63: sending a range again does not overwrite it.  While the
\* upload exists its offset never falls and no answered block changes.
AnsweredStays ==
    [][\A u \in Uploads :
         meta[u] # Absent =>
            /\ meta'[u] # Absent => meta'[u].received >= meta[u].received
            /\ \A i \in 1..meta[u].received : accepted'[u][i] = accepted[u][i]]_vars

----------------------------------------------------------------------------
(* Liveness.                                                               *)

\* The Go scheduler runs every goroutine that can go on; a mutex is handed to
\* the one that waits longest.  How long a body takes is up to the client:
\* the server sets no read timeout.
Fairness ==
    \A r \in Requests :
        /\ SF_vars(Acquire(r))
        /\ WF_vars(LoadFails(r) \/ Status(r) \/ Complete(r) \/ Cancel(r) \/ Unlock(r) \/ Leave(r)
                   \/ WriteBegins(r) \/ WriteRefused(r))

FairSpec == Spec /\ Fairness

\* If no client leaves a body unfinished for ever, every handler returns: no
\* path out of any of them keeps the lock.
BodiesEnd == \A r \in Requests : []<>(at[r] # "writing")
EveryRequestEnds ==
    BodiesEnd => \A r \in Requests : at[r] # "idle" ~> at[r] = "idle"
=============================================================================
