--------------------------- MODULE FileOperations ---------------------------
(***************************************************************************)
(* internal/ops: the tools that work on files (files.go, archive.go,       *)
(* backup.go, transfer.go): writes, copies and moves, archives, backups,   *)
(* resumed downloads and chunked uploads.                                  *)
(*                                                                         *)
(* A handler is a plan of file operations, in the order of the code.       *)
(* Handlers run their plans one operation, or one block, at a time over    *)
(* the same paths, without a lock; each operation may fail, the process    *)
(* may end between any two, and what an open file writes goes to the file  *)
(* it opened, wherever that has been renamed to.                           *)
(*                                                                         *)
(* A file is a sequence of blocks, each the name of the content it belongs *)
(* to with its place there.  A request works on one entry, or on a         *)
(* directory of all entries, one after the other.                          *)
(***************************************************************************)
EXTENDS Integers, Sequences, FiniteSets, Functions, TLC

CONSTANTS
    Handlers,      \* goroutines that execute requests
    Entries,       \* the names in a directory, in the order of ReadDir
    Retries,       \* the further attempts of a download
    MaxRequests,   \* bound on the requests of a behaviour, by their kind
    MaxFailures    \* bound on the operations that fail

ASSUME EntriesAssumption ==
    /\ Entries \in Seq(Range(Entries)) /\ Len(Entries) > 0
    /\ \A i, j \in 1..Len(Entries) : Entries[i] = Entries[j] => i = j
ASSUME BoundsAssumption == IsFiniteSet(Handlers) /\ Retries \in Nat /\ MaxFailures \in Nat

Size     == 2                                    \* blocks of a whole content
Whole(v) == [i \in 1..Size |-> <<v, i>>]
Part(v, n) == SubSeq(Whole(v), 1, n)

\* The paths: what a request reads and makes, the .part of a download and the
\* .uploading of an upload.
Names  == Range(Entries)
Paths  == {"source", "dest"} \X Names \cup {"part", "uploading"} \X {Entries[1]}
Inodes == 1..(Cardinality(Paths) + Cardinality(Handlers))

----------------------------------------------------------------------------
(* Steps of plans.  A step that fails answers `code`, or jumps by orElse.  *)

Step(kind, place, mode, code) ==
    [kind |-> kind, place |-> place, mode |-> mode, code |-> code, next |-> 1, orElse |-> 0]
Then(s, k)      == [s EXCEPT !.next = k]
Otherwise(s, k) == [s EXCEPT !.orElse = k]
Ignoring(s)     == Otherwise(s, 1)
Unless(flag, s) == IF flag THEN <<>> ELSE <<s>>
When(flag, s)   == IF flag THEN <<s>> ELSE <<>>

Found(place)       == Step("found", place, "any", "not_found")
Vacant(place)      == Step("vacant", place, "all", "exists")
Lacks(place)       == Step("vacant", place, "entry", "exists")
Input(place)       == Step("input", place, "entry", "not_found")
Open(place, mode)  == Step("open", place, mode, IF mode = "excl" THEN "exists" ELSE "failed")
Put(content)       == Step("put", content, 1..Size, "failed")
PutSent(range)     == Step("put", "sent", range, "failed")
Cut(place)         == Step("cut", place, "entry", "failed")
SizeIs(place, n)   == Step("size", place, n, "mismatch")
Hash(place, v)     == Step("hash", place, v, "checksum")
Remove(place)      == Step("remove", place, "must", "failed")
RemoveAny(place)   == Step("remove", place, "any", "failed")
RemoveMoved        == Step("remove", "source", "single", "failed")
Rename(place)      == Step("rename", place, "entry", "failed")
Link(place)        == Step("link", place, "entry", "exists")
Fetch              == Step("fetch", "part", "entry", "kept")
Retry(k)           == Step("retry", "part", k, "kept")
Local              == Step("local", "none", "entry", "failed")
Again(k)           == Step("again", "none", k, "failed")

----------------------------------------------------------------------------
(* files.go                                                                *)

\* Mutant of copyPath: the entry is looked for, and then truncated.
copyPathTruncates(overwrite) ==
    <<Found("source")>> \o Unless(overwrite, Vacant("dest")) \o Unless(overwrite, Lacks("dest"))
    \o <<Input("source"), Open("dest", "trunc"), Put("input"), Again(IF overwrite THEN 3 ELSE 4)>>

\* copyPath: a directory is copied entry by entry, and what was copied before
\* a failure stays.  Without overwrite an entry is created, never truncated.
copyPath(overwrite) ==
    <<Found("source")>> \o Unless(overwrite, Vacant("dest")) \o Unless(overwrite, Lacks("dest"))
    \o <<Input("source"), Open("dest", IF overwrite THEN "trunc" ELSE "excl"), Put("input"),
         Again(IF overwrite THEN 3 ELSE 4)>>

\* Moves by renaming, or by a copy and then the removal of the source.
MoveBy(copy) ==
    <<Then(Ignoring(Rename("source")), Len(copy) + 4)>> \o copy \o <<Found("source"), RemoveMoved, Again(1)>>

\* Mutant of movePath: a copy that fails is not noticed.
movePathUnchecked == MoveBy([copyPath(FALSE) EXCEPT ![6] = Ignoring(@)])

movePath == MoveBy(copyPath(FALSE))

\* What is written goes into the file that is there; create only makes one.
fsWriteOperation ==
    [write    |-> <<Open("dest", "trunc"), Put("written")>>,
     append   |-> <<Open("dest", "append"), Put("written")>>,
     create   |-> <<Open("dest", "excl"), Put("written")>>,
     patch    |-> <<Open("dest", "existing"), Put("written")>>,
     truncate |-> <<Cut("dest"), SizeIs("dest", 1)>>,
     touch    |-> <<Open("dest", "create"), Local>>,
     mkdir    |-> <<Local>>]

\* A batch goes on after an item that cannot be removed.
fsManageOperation(overwrite) ==
    [copy         |-> copyPath(overwrite),
     move         |-> movePath,
     delete       |-> <<Remove("dest")>>,
     delete_tree  |-> <<RemoveAny("dest"), Again(1)>>,
     delete_batch |-> <<Ignoring([Remove("dest") EXCEPT !.code = "partial"]), Again(1)>>,
     symlink      |-> <<Open("dest", "excl")>>,
     hardlink     |-> <<Link("dest")>>,
     attributes   |-> <<Found("dest"), Local>>]

fsHashOperation == [calculate |-> <<Hash("source", "none")>>]

----------------------------------------------------------------------------
(* archive.go and backup.go                                                *)

\* The archive is written where it is to be, over what was there.
createTAR == <<Found("source"), Open("dest", "trunc"), Put("archive")>>

\* 7z is left to a command, which replaces the archive when it is complete.
create7z == <<Found("source"), Local, RemoveAny("dest"), Open("dest", "excl"), Put("archive")>>

\* Entry by entry, each looked for and then truncated; what was extracted
\* before a failure stays.
extractTAR(overwrite) ==
    <<Found("source"), Local>> \o Unless(overwrite, Lacks("dest"))
    \o <<Open("dest", "trunc"), Put("packed"), Again(IF overwrite THEN 2 ELSE 3)>>

\* The command's -y overwrites whatever the request says.
extract7z == extractTAR(TRUE)

archiveOperation(overwrite) ==
    [create     |-> createTAR \o <<Found("dest")>>,
     create_7z  |-> create7z \o <<Found("dest")>>,
     extract    |-> extractTAR(overwrite),
     extract_7z |-> extract7z,
     list       |-> <<Found("source"), Local>>]

\* The name of a backup gives its format, which may be one that create does not
\* write.
backupOperation(overwrite) ==
    [create     |-> createTAR \o <<Hash("dest", "none"), Found("dest")>>,
     verify     |-> <<Hash("source", "none"), Local>>,
     restore    |-> extractTAR(overwrite),
     restore_7z |-> extract7z,
     delete     |-> <<Remove("dest")>>,
     list       |-> <<Local>>]

----------------------------------------------------------------------------
(* transfer.go                                                             *)

\* The .part is fetched in attempts, each from where the file ends; then it is
\* hashed, what is at the destination removed, and the .part renamed to it.
Download(overwrite, sha, resume) ==
    Unless(overwrite, Lacks("dest")) \o Unless(resume, Ignoring(RemoveAny("part")))
    \o <<Otherwise(Fetch, 3), Otherwise(Open("part", "response"), 2), Then(Ignoring(Put("response")), 2), Retry(3),
         Hash("part", IF sha THEN "v1" ELSE "none")>>
    \o When(overwrite, Ignoring(RemoveAny("dest"))) \o <<Rename("part")>>

downloadOperation(overwrite, sha) ==
    [start |-> Download(overwrite, sha, TRUE), restart |-> Download(overwrite, sha, FALSE)]

\* A chunk goes where the file ends, if that is the offset the client gives.
Chunk(range) ==
    <<Open("uploading", "create"), SizeIs("open", (CHOOSE i \in range : i - 1 \notin range) - 1), PutSent(range)>>

\* The client declares the size, and the hash if it likes.
uploadOperation(overwrite, sha) ==
    [create      |-> <<Open("uploading", IF overwrite THEN "trunc" ELSE "excl")>>,
     status      |-> <<Local>>,
     chunk_first |-> Chunk({1}),
     chunk_rest  |-> Chunk({2}),
     chunk_both  |-> Chunk({1, 2}),
     complete    |-> <<Found("uploading"), SizeIs("uploading", Size),
                       Hash("uploading", IF sha THEN "sent" ELSE "none")>>
                     \o Unless(overwrite, Lacks("dest")) \o When(overwrite, RemoveAny("dest"))
                     \o <<Rename("uploading")>>,
     cancel      |-> <<RemoveAny("uploading")>>]

exportOperation ==
    [file      |-> <<Found("source"), Hash("source", "none")>>,
     directory |-> createTAR \o <<Found("dest"), Hash("dest", "none")>>]

----------------------------------------------------------------------------

Tools(overwrite, sha) ==
    [fs_write |-> fsWriteOperation, fs_manage |-> fsManageOperation(overwrite), fs_hash |-> fsHashOperation,
     archive |-> archiveOperation(overwrite), backup |-> backupOperation(overwrite),
     export |-> exportOperation, download |-> downloadOperation(overwrite, sha), upload |-> uploadOperation(overwrite, sha)]

\* A request, without the flags that make no difference to it.
Request(tool, action, overwrite, sha, entries) ==
    [tool |-> tool, action |-> action, overwrite |-> overwrite, sha |-> sha, entries |-> entries]
Offers(overwrite, sha, entries) ==
    UNION {{Request(tool, action, overwrite, sha, entries) :
              action \in {a \in DOMAIN Tools(overwrite, sha)[tool] :
                 LET plan == Tools(overwrite, sha)[tool][a] IN
                 /\ overwrite => plan # Tools(FALSE, sha)[tool][a]
                 /\ sha => plan # Tools(overwrite, FALSE)[tool][a]
                 /\ entries > 1 => \E i \in DOMAIN plan : plan[i].kind = "again"}} :
            tool \in DOMAIN Tools(overwrite, sha)}
Requests == UNION {Offers(o, s, n) : o \in BOOLEAN, s \in BOOLEAN, n \in {1, Len(Entries)}}
Plans    == [q \in Requests |-> Tools(q.overwrite, q.sha)[q.tool][q.action]]
Kind(q)  == IF q.tool \in {"download", "upload"} THEN q.tool ELSE "tree"

\* The requests that make what they make with O_EXCL, or make nothing; those
\* that look first and are then on their own (a 7z archive is extracted without
\* a look); the chunks of an upload.
Makes(q) == /\ ~q.overwrite
            /\ q.action \in {"copy", "create", "symlink", "hardlink"} /\ q.tool \in {"fs_write", "fs_manage"}
Looks(q) == /\ ~q.overwrite
            /\ \/ <<q.tool, q.action>> \in {<<"archive", "extract">>, <<"backup", "restore">>, <<"upload", "complete">>}
               \/ q.tool = "download"
Gentle(q) == Makes(q) \/ q.action \in {"move", "calculate", "list", "verify", "attributes", "mkdir"}
Sends(q)  == q.tool = "upload" /\ q.action \in {"chunk_first", "chunk_rest", "chunk_both", "status"}
Disturbs(q, other) ==
    /\ q.tool = "upload"
    /\ {q.action, other.action} \cap {"create", "cancel"} # {} \/ {q.action, other.action} = {"complete"}

----------------------------------------------------------------------------

VARIABLES
    files,      \* the inode a path names, or 0
    data,       \* the blocks of each inode
    handler,    \* per handler: its request and plan, where that is, its open files
    remote,     \* the version of what is downloaded
    past        \* what the bounds and the properties need to know of the past

vars == <<files, data, handler, remote, past>>

Nothing == Request("none", "none", FALSE, FALSE, 1)

\* entry: the one worked on; fd, in: the files open for writing and reading;
\* read: blocks put so far; made: the inodes it created; with: the requests
\* that ran meanwhile; beyond: the last attempt asked for what is past the end.
Idle == [request |-> Nothing, plan |-> <<>>, pc |-> 0, entry |-> 1, fd |-> 0, in |-> 0, read |-> 0, append |-> FALSE,
         response |-> <<>>, attempts |-> 0, beyond |-> FALSE, partial |-> FALSE, made |-> {}, with |-> {},
         answer |-> "none"]

Answers == {"none", "done", "partial", "not_found", "exists", "failed", "mismatch", "checksum", "kept", "beyond"}

\* The inode a path names in the initial states, if it names one.
Initially(p) ==
    LET e == CHOOSE i \in DOMAIN Entries : Entries[i] = p[2] IN
    CASE p[1] = "source" -> e
      [] p[1] = "dest" -> Len(Entries) + e
      [] p[1] = "part" -> 2 * Len(Entries) + 1
      [] p[1] = "uploading" -> 2 * Len(Entries) + 2

\* The paths that name a file in an initial state.
Named(kind, there, parted) ==
    (IF kind = "tree" THEN {"source"} \X Names ELSE {}) \cup {"dest"} \X there
    \cup (IF parted THEN {<<"part", Entries[1]>>} ELSE {})

\* The sources are there, an entry of the destination may be, and an earlier
\* download may have left a .part, of this version or of another.
Init ==
    \E kind \in DOMAIN MaxRequests, there \in SUBSET Names, left \in {"v0", "v1"} \X (0..(Size - 1)), parted \in BOOLEAN :
        /\ kind # "tree" => there \subseteq {Entries[1]}
        /\ kind # "download" => ~parted
        /\ ~parted => left = <<"v1", 0>>
        /\ files = [p \in Paths |-> IF p \in Named(kind, there, parted) THEN Initially(p) ELSE 0]
        /\ data = [i \in Inodes |->
               CASE \E p \in Paths : files[p] = i /\ p[1] = "source" -> Whole((CHOOSE p \in Paths : files[p] = i)[2])
                 [] \E p \in Paths : files[p] = i /\ p[1] = "dest" -> Whole("old")
                 [] \E p \in Paths : files[p] = i /\ p[1] = "part" -> Part(left[1], left[2])
                 [] i \notin Range(files) -> <<>>]
        /\ past = [kind |-> kind, requests |-> 0, failures |-> 0, crashes |-> 0, gentle |-> TRUE,
                   steady |-> left[1] = "v1" \/ left[2] = 0]
    /\ handler = [h \in Handlers |-> Idle]
    /\ remote = "v1"

----------------------------------------------------------------------------

Running(h)  == handler[h].pc > 0
StepOf(h)   == handler[h].plan[handler[h].pc]
At(h, kind) == Running(h) /\ StepOf(h).kind = kind
PathOf(h)   == <<StepOf(h).place, Entries[handler[h].entry]>>
Content(p)  == IF files[p] = 0 THEN <<>> ELSE data[files[p]]

\* The entries a handler's request works on, and those of them at a place.
Worked(h)        == {Entries[i] : i \in 1..handler[h].request.entries}
Present(h, place) == {e \in Worked(h) : files[<<place, e>>] # 0}

Answered(code) == [Idle EXCEPT !.answer = code]

\* The record r of a handler after step s, that ended well or not.
After(r, s, ok) ==
    LET jump == IF ok THEN s.next ELSE s.orElse
        part == r.partial \/ (~ok /\ s.code = "partial")
    IN  IF jump = 0 THEN Answered(s.code)
        ELSE IF r.pc + jump > Len(r.plan) THEN Answered(IF part THEN "partial" ELSE "done")
        ELSE [r EXCEPT !.pc = @ + jump, !.partial = part]

\* The state becomes: paths f, blocks d, and the record r for handler h.  A
\* file without a name goes when the last handler that has it open ends.
Become(h, f, d, r) ==
    /\ handler' = [handler EXCEPT ![h] = r]
    /\ files' = f
    /\ data' = [i \in Inodes |->
           IF i \in Range(f) \cup {handler'[o].fd : o \in Handlers} \cup {handler'[o].in : o \in Handlers}
           THEN d[i] ELSE <<>>]

Goes(h, ok) == Become(h, files, data, After(handler[h], StepOf(h), ok)) /\ UNCHANGED <<remote, past>>

\* Operation of handler h fails, without an effect.
Fails(h) ==
    /\ past.failures < MaxFailures
    /\ past' = [past EXCEPT !.failures = @ + 1]
    /\ Become(h, files, data, After(handler[h], StepOf(h), FALSE))
    /\ UNCHANGED remote

Fresh == CHOOSE i \in Inodes :
    /\ i \notin Range(files) \cup {handler[o].fd : o \in Handlers} \cup {handler[o].in : o \in Handlers}
    /\ \A j \in 1..(i - 1) : j \in Range(files) \cup {handler[o].fd : o \in Handlers} \cup {handler[o].in : o \in Handlers}

\* A request begins.  Bounds: the requests of a behaviour are of one kind, the
\* others share no path with them; a download that overlaps another is the
\* same one, asked for again.
Begin(h, q) ==
    /\ ~Running(h) /\ Kind(q) = past.kind /\ past.requests < MaxRequests[past.kind]
    /\ past.kind = "download" => \A x \in Handlers : Running(x) => handler[x].request = q
    /\ handler' = [o \in Handlers |->
           IF o = h THEN [Idle EXCEPT !.request = q, !.plan = Plans[q], !.pc = 1,
                                      !.with = {handler[x].request : x \in {x \in Handlers : Running(x)}}]
           ELSE IF Running(o) THEN [handler[o] EXCEPT !.with = @ \cup {q}]
           ELSE handler[o]]
    /\ past' = [past EXCEPT !.requests = @ + 1, !.gentle = @ /\ Gentle(q),
                            !.steady = @ /\ \A x \in Handlers : Running(x) => ~Disturbs(q, handler[x].request)]
    /\ UNCHANGED <<files, data, remote>>

\* os.Stat and os.Lstat.
Look(h) ==
    \/ At(h, "found") /\ Goes(h, Present(h, StepOf(h).place) # {})
    \/ At(h, "vacant") /\ Goes(h, IF StepOf(h).mode = "all" THEN Present(h, StepOf(h).place) = {}
                                  ELSE files[PathOf(h)] = 0)
    \/ At(h, "size") /\ LET inode == IF StepOf(h).place = "open" THEN handler[h].fd ELSE files[PathOf(h)]
                        IN  Goes(h, inode # 0 /\ Len(data[inode]) = StepOf(h).mode)

\* The source of a copy is opened.  An entry that has gone since is an error,
\* or was not listed.
OpenInput(h) ==
    /\ At(h, "input")
    /\ LET inode == files[PathOf(h)]
           r     == [handler[h] EXCEPT !.in = inode]
       IN  \/ inode # 0 /\ Become(h, files, data, After(r, StepOf(h), TRUE)) /\ UNCHANGED <<remote, past>>
           \/ inode = 0 /\ Goes(h, FALSE)
           \/ inode = 0 /\ handler[h].request.entries > 1
                /\ Become(h, files, data, [handler[h] EXCEPT !.pc = @ + 3]) /\ UNCHANGED <<remote, past>>

\* os.OpenFile with the flags of the step.
OpenOutput(h) ==
    /\ At(h, "open")
    /\ LET s     == StepOf(h)
           there == files[PathOf(h)]
           inode == IF there = 0 THEN Fresh ELSE there
           cut   == s.mode = "trunc" \/ (s.mode = "response" /\ ~handler[h].append)
           r     == [handler[h] EXCEPT !.fd = inode, !.read = 0, !.made = IF there = 0 THEN @ \cup {inode} ELSE @,
                                       !.append = @ \/ s.mode = "append"]
       IN  IF (s.mode = "excl" /\ there # 0) \/ (s.mode = "existing" /\ there = 0)
           THEN Goes(h, FALSE)
           ELSE \/ /\ Become(h, [files EXCEPT ![PathOf(h)] = inode],
                             [data EXCEPT ![inode] = IF cut THEN <<>> ELSE @], After(r, s, TRUE))
                   /\ UNCHANGED <<remote, past>>
                \/ Fails(h)

\* What is put into the open file: the blocks of the file open for reading, of
\* the response, of the range of the upload, or of a content made here.
Blocks(h) ==
    LET s == StepOf(h) IN
    CASE s.place = "input" -> data[handler[h].in]
      [] s.place = "response" -> handler[h].response
      [] s.place = "sent" -> SelectSeq(Whole("sent"), LAMBDA b : b[2] \in s.mode)
      [] s.place \in {"written", "archive", "packed"} -> Whole(s.place)

\* Blocks with block b at place n; what lies between is a hole.
Spliced(blocks, n, b) ==
    [i \in 1..(IF n > Len(blocks) THEN n ELSE Len(blocks)) |->
       IF i = n THEN b ELSE IF i <= Len(blocks) THEN blocks[i] ELSE <<"hole", i>>]

\* One block, or the end of the blocks and the close of the file.
PutBlock(h) ==
    /\ At(h, "put")
    /\ LET r     == handler[h]
           first == IF StepOf(h).place = "sent" THEN CHOOSE i \in StepOf(h).mode : i - 1 \notin StepOf(h).mode ELSE 1
           n     == IF r.append THEN Len(data[r.fd]) + 1 ELSE first + r.read
       IN  \/ /\ r.read < Len(Blocks(h))
              /\ Become(h, files, [data EXCEPT ![r.fd] = Spliced(@, n, Blocks(h)[r.read + 1])], [r EXCEPT !.read = @ + 1])
              /\ UNCHANGED <<remote, past>>
           \/ /\ r.read >= Len(Blocks(h))
              /\ Become(h, files, data, After([r EXCEPT !.fd = 0, !.in = 0, !.read = 0], StepOf(h), TRUE))
              /\ UNCHANGED <<remote, past>>
           \/ Fails(h)

\* os.Truncate, to one block.
CutFile(h) ==
    /\ At(h, "cut")
    /\ LET inode == files[PathOf(h)] IN
       IF inode = 0 THEN Goes(h, FALSE)
       ELSE \/ /\ Become(h, files, [data EXCEPT ![inode] = <<Spliced(@, 2, <<"hole", 2>>)[1]>>],
                         After(handler[h], StepOf(h), TRUE))
               /\ UNCHANGED <<remote, past>>
            \/ Fails(h)

\* hashFileSHA256, and the comparison with the digest given.
CheckHash(h) ==
    /\ At(h, "hash")
    /\ LET s == StepOf(h) IN
       \/ files[PathOf(h)] # 0 /\ (s.mode # "none" => Content(PathOf(h)) = Whole(s.mode)) /\ Goes(h, TRUE)
       \/ files[PathOf(h)] = 0 /\ Goes(h, FALSE)
       \/ s.mode # "none" /\ Content(PathOf(h)) # Whole(s.mode) /\ Goes(h, FALSE)

\* os.Remove and os.RemoveAll.
RemoveFile(h) ==
    /\ At(h, "remove")
    /\ LET must == StepOf(h).mode = "must" \/ (StepOf(h).mode = "single" /\ handler[h].request.entries = 1) IN
       IF files[PathOf(h)] = 0 THEN Goes(h, ~must)
       ELSE \/ /\ Become(h, [files EXCEPT ![PathOf(h)] = 0], data, After(handler[h], StepOf(h), TRUE))
               /\ UNCHANGED <<remote, past>>
            \/ Fails(h)

\* os.Rename to the destination: it replaces a file there, but no directory
\* that has entries, and does not reach another filesystem.
RenameFile(h) ==
    /\ At(h, "rename")
    /\ LET place == StepOf(h).place
           moved == Present(h, place)
       IN  \/ /\ moved # {} /\ (handler[h].request.entries > 1 => Present(h, "dest") = {})
              /\ Become(h, [p \in Paths |-> IF p[2] \notin moved THEN files[p]
                                            ELSE IF p[1] = "dest" THEN files[<<place, p[2]>>]
                                            ELSE IF p[1] = place THEN 0 ELSE files[p]],
                        data, After(handler[h], StepOf(h), TRUE))
              /\ UNCHANGED <<remote, past>>
           \/ (moved = {} \/ place = "source") /\ Goes(h, FALSE)
           \/ moved # {} /\ place # "source" /\ Fails(h)

\* os.Link from the source.
LinkFile(h) ==
    /\ At(h, "link")
    /\ LET inode == files[<<"source", Entries[handler[h].entry]>>] IN
       IF inode = 0 \/ files[PathOf(h)] # 0 THEN Goes(h, FALSE)
       ELSE /\ Become(h, [files EXCEPT ![PathOf(h)] = inode], data,
                      After([handler[h] EXCEPT !.made = @ \cup {inode}], StepOf(h), TRUE))
            /\ UNCHANGED <<remote, past>>

\* Mutant of Respond: an answer to a Range request is always appended.
RespondAppends(h) ==
    /\ At(h, "fetch")
    /\ LET offset == Len(Content(PathOf(h))) IN
       \E whole \in BOOLEAN :
          /\ ~whole => offset \in 1..(Size - 1)
          /\ Become(h, files, data,
                    After([handler[h] EXCEPT !.append = offset > 0, !.beyond = FALSE,
                             !.response = IF whole THEN Whole(remote) ELSE SubSeq(Whole(remote), offset + 1, Size)],
                          StepOf(h), TRUE))
    /\ UNCHANGED <<remote, past>>

\* The server answers a request from the .part's size on with the rest or with
\* the whole, refuses a range past the end, or fails.
Respond(h) ==
    /\ At(h, "fetch")
    /\ LET offset == Len(Content(PathOf(h))) IN
       \/ \E whole \in BOOLEAN :
            /\ ~whole => offset \in 1..(Size - 1)
            /\ Become(h, files, data,
                      After([handler[h] EXCEPT !.append = ~whole, !.beyond = FALSE,
                               !.response = IF whole THEN Whole(remote) ELSE SubSeq(Whole(remote), offset + 1, Size)],
                            StepOf(h), TRUE))
       \/ \E refused \in BOOLEAN :
            /\ refused => offset >= Size
            /\ Become(h, files, data, After([handler[h] EXCEPT !.beyond = refused], StepOf(h), FALSE))
    /\ UNCHANGED <<remote, past>>

\* After an attempt that failed: the next one, or the end, also when the
\* request is cancelled meanwhile.
TryAgain(h) ==
    /\ At(h, "retry")
    /\ LET r == handler[h] IN
       \/ /\ r.attempts < Retries
          /\ Become(h, files, data, [r EXCEPT !.attempts = @ + 1, !.pc = @ - StepOf(h).mode, !.fd = 0, !.read = 0])
       \/ Become(h, files, data, Answered(IF r.beyond THEN "beyond" ELSE "kept"))
    /\ UNCHANGED <<remote, past>>

\* What touches no file of the model: the reading of an archive, attributes.
LocalStep(h) == At(h, "local") /\ (Goes(h, TRUE) \/ Fails(h))

\* Mutant of NextEntry: one entry too many.
NextEntryPast(h) ==
    /\ At(h, "again")
    /\ IF handler[h].entry <= handler[h].request.entries
       THEN Become(h, files, data, [handler[h] EXCEPT !.entry = @ + 1, !.pc = @ - StepOf(h).mode])
       ELSE Become(h, files, data, After([handler[h] EXCEPT !.entry = 1], StepOf(h), TRUE))
    /\ UNCHANGED <<remote, past>>

NextEntry(h) ==
    /\ At(h, "again")
    /\ IF handler[h].entry < handler[h].request.entries
       THEN Become(h, files, data, [handler[h] EXCEPT !.entry = @ + 1, !.pc = @ - StepOf(h).mode])
       ELSE Become(h, files, data, After([handler[h] EXCEPT !.entry = 1], StepOf(h), TRUE))
    /\ UNCHANGED <<remote, past>>

HandlerStep(h) ==
    \/ Look(h) \/ OpenInput(h) \/ OpenOutput(h) \/ PutBlock(h) \/ CutFile(h) \/ CheckHash(h) \/ RemoveFile(h)
    \/ RenameFile(h) \/ LinkFile(h) \/ Respond(h) \/ TryAgain(h) \/ LocalStep(h) \/ NextEntry(h)

\* The process ends; the next one knows nothing of what was running.
Crash ==
    /\ past.crashes = 0 /\ \E h \in Handlers : Running(h)
    /\ past' = [past EXCEPT !.crashes = 1]
    /\ handler' = [h \in Handlers |-> Idle]
    /\ data' = [i \in Inodes |-> IF i \in Range(files) THEN data[i] ELSE <<>>]
    /\ UNCHANGED <<files, remote>>

\* What is downloaded changes, once.
RemoteChanges ==
    /\ past.kind = "download" /\ remote = "v1"
    /\ remote' = "v2"
    /\ past' = [past EXCEPT !.steady = FALSE]
    /\ UNCHANGED <<files, data, handler>>

Next ==
    \/ \E h \in Handlers : (\E q \in Requests : Begin(h, q)) \/ HandlerStep(h)
    \/ Crash
    \/ RemoteChanges

Spec == Init /\ [][Next]_vars

----------------------------------------------------------------------------

TypeOK ==
    /\ files \in [Paths -> Inodes \cup {0}]
    /\ DOMAIN data = Inodes
    /\ \A h \in Handlers :
         /\ handler[h].request \in Requests \cup {Nothing}
         /\ Running(h) => handler[h].pc \in DOMAIN handler[h].plan
         /\ handler[h].entry \in 1..handler[h].request.entries
         /\ handler[h].fd \in Inodes \cup {0} /\ handler[h].in \in Inodes \cup {0}
         /\ handler[h].attempts \in 0..Retries
         /\ handler[h].answer \in Answers

\* What is copied or moved is at its source or at its destination in full, at
\* every instant, whatever fails or crashes on the way and however requests
\* that make their files with O_EXCL interleave (copyPath, movePath).
NothingLost ==
    past.kind = "tree" /\ past.gentle =>
        \A e \in Names : Whole(e) \in {Content(<<"source", e>>), Content(<<"dest", e>>)}

\* Without overwrite no step changes or replaces a file of the destination
\* that the request did not make itself: under any interleaving where the file
\* is made with O_EXCL (copyPath, create), and for requests that look first
\* and then truncate or rename as long as no other request runs meanwhile.  To
\* extract or restore a 7z archive does neither: its command runs with -y
\* (archive.go:881), whatever overwrite says.
KeepsExisting ==
    [][\A h \in Handlers :
         LET q == handler[h].request IN
         (Running(h) /\ handler'[h] # handler[h] /\ (Makes(q) \/ (Looks(q) /\ handler[h].with = {})))
         => \A e \in Names :
              LET i == files[<<"dest", e>>] IN
              (i # 0 /\ i \notin handler[h].made) => files'[<<"dest", e>>] = i /\ data'[i] = data[i]]_vars

\* What a transfer is answered for is what was sent.  A download that ran alone
\* left one version of the remote file, resumed over attempts, failures and
\* crashes, if that did not change or a digest was given; an upload left all
\* that the client sent although its chunks were repeated and overlapped, unless
\* the session was created again or cancelled under a chunk.
TransferFaithful ==
    [][\A h \in Handlers :
         LET r == handler[h]
             result == Content(<<"dest", Entries[1]>>)'
         IN  (Running(h) /\ handler'[h].answer = "done" /\ (r.request.sha \/ past.steady))
             => /\ (r.request.tool = "download" /\ r.with = {}) => result = Whole(IF r.request.sha THEN "v1" ELSE remote)
                /\ (r.request.action = "complete" /\ \A q \in r.with : Sends(q)) => result = Whole("sent")]_vars

\* The .part of a download that failed is good for resuming it
\* (transfer.go:159, "the temporary file is kept for resumption").
KeptPartResumes == \A h \in Handlers : handler[h].answer # "beyond"
=============================================================================
