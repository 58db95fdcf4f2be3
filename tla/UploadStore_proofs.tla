------------------------- MODULE UploadStore_proofs -------------------------
(***************************************************************************)
(* What TLAPS proves of UploadStore for any number of uploads, handlers    *)
(* and blocks: the locks that come and go exclude the handlers of one      *)
(* upload, the bytes below an offset are the answered ones, and a          *)
(* published artifact is what was sent.                                    *)
(***************************************************************************)
EXTENDS UploadStore, FiniteSetTheorems, TLAPS

----------------------------------------------------------------------------
(* The locks.                                                              *)

Users(l) == {r \in Requests : lock[r] = l}

\* A handler that is not idle refers to the lock that is in the map for its
\* upload, refs counts those handlers, and the one inside holds the mutex.
LockInv ==
    /\ \A r \in Requests :
          IF at[r] = "idle" THEN lock[r] = Absent /\ upload[r] = Absent
          ELSE /\ upload[r] \in Uploads /\ lock[r] \in Locks
               /\ lockOf[upload[r]] = lock[r]
    /\ \A r \in Requests : at[r] \in Inside => holder[lock[r]] = r
    /\ \A l \in Locks : refs[l] = Cardinality(Users(l))

----------------------------------------------------------------------------
(* The files.                                                              *)

\* The first n blocks of the upload's .part, if there is one, are answered.
Answered(u, n) ==
    part[u] # Absent =>
        \A i \in 1..n : part[u][i] = accepted[u][i] /\ part[u][i] # Hole

\* All that the checksum s stands for has been answered and is as declared.
Verified(u, s) ==
    /\ s = accepted[u] /\ declared[u] \in {Absent, s}
    /\ \A i \in 1..Total : s[i] # Hole

\* What a handler that is in the middle of a write or a completion relies on.
HandlerInv(r) ==
    LET u == upload[r] IN
    /\ at[r] = "writing" =>
          /\ start[r] + length[r] <= Total /\ written[r] <= length[r]
          /\ meta[u] # Absent => meta[u].received = start[r]
          /\ Answered(u, start[r])
          /\ \A i \in 1..Total : start[r] < i /\ i <= start[r] + written[r] =>
                /\ body[r][i] \in Blocks
                /\ part[u] # Absent => part[u][i] = body[r][i]
    /\ at[r] \in {"idle", "waiting", "locked"} => written[r] = 0
    /\ at[r] = "hashed"  => Verified(u, sum[r]) /\ part[u] \in {Absent, sum[r]}
    /\ at[r] = "renamed" => Verified(u, sum[r]) /\ final[u] = sum[r] /\ part[u] = Absent

\* An upload that is not there yet has no record and no user.
Created(u) ==
    creation[u] # "done" =>
        /\ meta[u] = Absent /\ artifact[u] = Absent /\ sweep[u] = "no"
        /\ \A r \in Requests : upload[r] # u

\* What is below the offset is answered.
Progress(u) == meta[u] # Absent => Answered(u, meta[u].received)

\* An upload that was published has no .part any more, nobody is about to
\* make one, and the file is what the artifact says.
Published(u) ==
    artifact[u] # Absent =>
        /\ part[u] = Absent
        /\ \A r \in Requests : upload[r] = u => at[r] \notin {"writing", "hashed", "renamed"}
        /\ ~artifact[u].stale => Verified(u, artifact[u].sum) /\ final[u] = artifact[u].sum

UploadInv(u) == Created(u) /\ Progress(u) /\ Published(u)

FileInv == (\A r \in Requests : HandlerInv(r)) /\ (\A u \in Uploads : UploadInv(u))

IInv == TypeOK /\ LockInv /\ FileInv

----------------------------------------------------------------------------
(* Types.                                                                  *)

\* What Absent is not, and what the operators on files make.
LEMMA Values ==
    /\ Absent \notin File /\ Absent \notin UploadRecord /\ Absent \notin ArtifactRecord
    /\ Absent \notin Uploads /\ Absent \notin Locks /\ Absent \notin Requests
    /\ EmptyFile \in File /\ 0 \in 0..Total
  BY ValuesAssumption, SizeAssumption DEF File, EmptyFile

\* Cutting a file and writing into it make a file.
LEMMA FileOperators ==
    ASSUME NEW f \in File, NEW g \in File, NEW n \in 0..Total, NEW s \in 0..Total
    PROVE  Truncated(f, n) \in File /\ Spliced(f, s, n, g) \in File
  BY SizeAssumption DEF File, Truncated, Spliced

\* Two files with the same blocks are the same.
LEMMA SameFile ==
    ASSUME NEW f \in File, NEW g \in File, \A i \in 1..Total : f[i] = g[i]
    PROVE  f = g
<1>1. f = [i \in 1..Total |-> f[i]] /\ g = [i \in 1..Total |-> g[i]]
  BY DEF File
<1>2. QED  BY <1>1

\* The invariant holds of a fresh frontend.
LEMMA InitInv == Init => IInv
<1> SUFFICES ASSUME Init PROVE IInv
  OBVIOUS
<1> USE Values DEF Init
<1>1. TypeOK
  BY BoundsAssumption DEF TypeOK
<1>2. LockInv
  <2>1. \A l \in Locks : Users(l) = {}
    BY DEF Users
  <2>2. QED  BY <2>1, FS_EmptySet DEF LockInv, Inside
<1>3. FileInv
  BY DEF FileInv, HandlerInv, UploadInv, Created, Progress, Published
<1>4. QED  BY <1>1, <1>2, <1>3 DEF IInv

\* The tuples of variables stand for what they list.
USE DEF files, creating, locking, local, bounds, Others, Goto

\* Every step keeps the types.
LEMMA TypeStep ==
    ASSUME TypeOK, LockInv, \A r \in Requests : HandlerInv(r), [Next]_vars
    PROVE  TypeOK'
<1> USE Values DEF TypeOK, Inside
<1>1. ASSUME NEW r \in Requests, Begin(r)
      PROVE  TypeOK'
  BY <1>1 DEF Begin, Enter
<1>2. ASSUME NEW r \in Requests, Handle(r)
      PROVE  TypeOK'
  <2>0. at[r] # "idle" => upload[r] \in Uploads /\ lock[r] \in Locks
    BY DEF LockInv
  <2>1. CASE Acquire(r) \/ Unlock(r)
    BY <2>1 DEF Acquire, Unlock
  <2>2. CASE Leave(r)
    <3>1. refs[lock[r]] \in Nat \ {0}
      <4>1. r \in Users(lock[r]) /\ IsFiniteSet(Users(lock[r]))
        BY <2>0, <2>2, RequestsAssumption, FS_Subset DEF Leave, Users
      <4>2. Cardinality(Users(lock[r])) \in Nat \ {0}
        BY <4>1, FS_CardinalityType, FS_EmptySet
      <4>3. QED  BY <2>0, <2>2, <4>2 DEF LockInv, Leave
    <3>2. refs' \in [Locks -> Nat]
      BY <2>0, <2>2, <3>1 DEF Leave
    <3>3. QED  BY <2>0, <2>2, <3>2 DEF Leave, ForgetRequest
  <2>3. CASE LoadFails(r)
    BY <2>0, <2>3 DEF LoadFails
  <2>4. CASE Status(r) \/ WriteRefused(r) \/ CompleteRefused(r)
    BY <2>0, <2>4 DEF Status, WriteRefused, CompleteRefused, Loaded
  <2>5. CASE WriteBegins(r)
    <3>1. meta[upload[r]].received \in 0..Total
      BY <2>0, <2>5 DEF WriteBegins, Loaded, Fresh, UploadRecord
    <3>2. QED  BY <2>0, <2>5, <3>1, SizeAssumption DEF WriteBegins, Loaded
  <2>6. CASE WriteBlock(r)
    <3> DEFINE k == start[r] + written[r] + 1
    <3>1. k \in 1..Total /\ written[r] + 1 \in 0..Total
      BY <2>6, SizeAssumption DEF WriteBlock, HandlerInv
    <3>2. ASSUME NEW f \in File, NEW b \in Blocks
          PROVE  [f EXCEPT ![k] = b] \in File
      BY <3>1 DEF File
    <3>3. PICK b \in Blocks :
            /\ body' = [body EXCEPT ![r][k] = b]
            /\ part' = IF part[upload[r]] = Absent THEN part
                       ELSE [part EXCEPT ![upload[r]][k] = b]
      BY <2>6 DEF WriteBlock
    <3>4. body' \in [Requests -> File]
      <4>1. [body[r] EXCEPT ![k] = b] \in File
        BY <3>2
      <4>2. body' = [body EXCEPT ![r] = [body[r] EXCEPT ![k] = b]]
        BY <3>3
      <4> HIDE DEF k
      <4>3. QED  BY <4>1, <4>2
    <3>5. part' \in [Uploads -> File \cup {Absent}]
      <4>1. CASE part[upload[r]] = Absent
        BY <3>3, <4>1
      <4>2. CASE part[upload[r]] # Absent
        <5>1. [part[upload[r]] EXCEPT ![k] = b] \in File
          <6>1. part[upload[r]] \in File
            BY <2>0, <2>6, <4>2 DEF WriteBlock
          <6>2. QED  BY <6>1, <3>2
        <5>2. part' = [part EXCEPT ![upload[r]] = [part[upload[r]] EXCEPT ![k] = b]]
          BY <3>3, <4>2
        <5> HIDE DEF k
        <5>3. QED  BY <5>1, <5>2
      <4>3. QED  BY <4>1, <4>2
    <3>6. written' \in [Requests -> 0..Total]
      BY <2>6, <3>1 DEF WriteBlock
    <3>7. QED  BY <2>6, <3>4, <3>5, <3>6 DEF WriteBlock
  <2>7. CASE WriteFails(r)
    <3>1. part[upload[r]] # Absent => Truncated(part[upload[r]], start[r]) \in File
      BY <2>0, <2>7, FileOperators DEF WriteFails
    <3>2. QED  BY <2>0, <2>7, <3>1 DEF WriteFails
  <2>8. CASE WriteSaves(r)
    <3>1. /\ part[upload[r]] # Absent => Truncated(part[upload[r]], start[r]) \in File
          /\ Spliced(accepted[upload[r]], start[r], length[r], body[r]) \in File
      BY <2>0, <2>8, FileOperators, ZenonT(30) DEF WriteSaves
    <3>2. start[r] + length[r] \in 0..Total
      BY <2>8, SizeAssumption DEF WriteSaves, HandlerInv
    <3>3. [received |-> start[r] + length[r], stale |-> FALSE] \in UploadRecord
      BY <3>2 DEF UploadRecord
    <3>4. saveFailures' \in 0..MaxSaveFailures
      BY <2>8, BoundsAssumption DEF WriteSaves
    <3>5. part' \in [Uploads -> File \cup {Absent}]
      BY <2>0, <2>8, <3>1 DEF WriteSaves
    <3>6. accepted' \in [Uploads -> File]
      BY <2>0, <2>8, <3>1 DEF WriteSaves
    <3>7. meta' \in [Uploads -> UploadRecord \cup {Absent}]
      <4> DEFINE m == [received |-> start[r] + length[r], stale |-> FALSE]
      <4>1. meta' = meta \/ meta' = [meta EXCEPT ![upload[r]] = m]
        BY <2>8 DEF WriteSaves
      <4> HIDE DEF m
      <4>2. m \in UploadRecord
        BY <3>3 DEF m
      <4>3. QED  BY <2>0, <4>1, <4>2
    <3>8. at' \in [Requests -> Inside \cup {"idle", "waiting", "leaving"}]
      BY <2>8 DEF WriteSaves
    <3>9. QED  BY <2>8, <3>4, <3>5, <3>6, <3>7, <3>8 DEF WriteSaves
  <2>9. CASE CompleteHashes(r)
    BY <2>0, <2>9 DEF CompleteHashes, Loaded
  <2>10. CASE CompleteRenames(r)
    BY <2>0, <2>10 DEF CompleteRenames
  <2>11. CASE CompletePublishes(r)
    <3>1. [sum |-> sum[r], stale |-> FALSE] \in ArtifactRecord
      BY DEF ArtifactRecord
    <3>2. saveFailures' \in 0..MaxSaveFailures
      BY <2>11, BoundsAssumption DEF CompletePublishes
    <3>3. artifact' \in [Uploads -> ArtifactRecord \cup {Absent}]
      BY <2>0, <2>11, <3>1, ZenonT(30) DEF CompletePublishes
    <3>4. part' \in [Uploads -> File \cup {Absent}] /\ final' \in [Uploads -> File \cup {Absent}]
      BY <2>0, <2>11 DEF CompletePublishes
    <3>5. QED  BY <2>11, <3>2, <3>3, <3>4 DEF CompletePublishes
  <2>12. CASE CompleteForgets(r) \/ CancelPart(r) \/ CancelMeta(r)
    BY <2>0, <2>12 DEF CompleteForgets, CancelPart, CancelMeta, Loaded
  <2>13. QED
    BY <1>2, <2>1, <2>2, <2>3, <2>4, <2>5, <2>6, <2>7, <2>8, <2>9, <2>10, <2>11, <2>12
    DEF Handle, Write, Complete, Cancel
<1>3. ASSUME NEW u \in Uploads, Create(u)
      PROVE  TypeOK'
  <2>1. CASE CreatePart(u)
    <3>1. \A sha \in {Absent} \cup [1..Total -> Blocks] : sha \in File \cup {Absent}
      BY DEF File
    <3>2. QED  BY <2>1, <3>1 DEF CreatePart
  <2>2. CASE CreateMeta(u)
    <3>1. [received |-> 0, stale |-> FALSE] \in UploadRecord
      BY DEF UploadRecord
    <3>2. saveFailures' \in 0..MaxSaveFailures
      BY <2>2, BoundsAssumption DEF CreateMeta
    <3>3. meta' \in [Uploads -> UploadRecord \cup {Absent}]
      <4> DEFINE m == [received |-> 0, stale |-> FALSE]
      <4>1. meta' = meta \/ meta' = [meta EXCEPT ![u] = m]
        BY <2>2 DEF CreateMeta
      <4> HIDE DEF m
      <4>2. m \in UploadRecord
        BY <3>1 DEF m
      <4>3. QED  BY <4>1, <4>2
    <3>4. part' \in [Uploads -> File \cup {Absent}]
      BY <2>2 DEF CreateMeta
    <3>5. creation' \in [Uploads -> {"never", "part", "done"}]
      BY <2>2 DEF CreateMeta
    <3>6. QED  BY <2>2, <3>2, <3>3, <3>4, <3>5 DEF CreateMeta
  <2>3. QED  BY <1>3, <2>1, <2>2 DEF Create
<1>4. ASSUME NEW u \in Uploads, Sweep(u)
      PROVE  TypeOK'
  BY <1>4, ZenonT(30) DEF Sweep, SweepFinds, SweepPart, SweepMeta, SweepArtifact
<1>5. ASSUME NEW u \in Uploads, Expire(u)
      PROVE  TypeOK'
  <2>1. expiries' \in 0..MaxExpiries
    BY <1>5, BoundsAssumption DEF Expire
  <2>2. meta' \in [Uploads -> UploadRecord \cup {Absent}]
    <3>1. \A m \in UploadRecord : [m EXCEPT !.stale = TRUE] \in UploadRecord
      BY DEF UploadRecord
    <3>2. QED  BY <1>5, <3>1 DEF Expire, Fresh
  <2>3. artifact' \in [Uploads -> ArtifactRecord \cup {Absent}]
    <3>1. \A m \in ArtifactRecord : [m EXCEPT !.stale = TRUE] \in ArtifactRecord
      BY DEF ArtifactRecord
    <3>2. QED  BY <1>5, <3>1 DEF Expire
  <2>4. QED  BY <1>5, <2>1, <2>2, <2>3 DEF Expire
<1>6. CASE Crash
  <2>1. crashes' \in 0..MaxCrashes
    BY <1>6, BoundsAssumption DEF Crash
  <2>2. QED  BY <1>6, <2>1 DEF Crash
<1>7. CASE UNCHANGED vars
  BY <1>7 DEF vars
<1>8. QED  BY <1>1, <1>2, <1>3, <1>4, <1>5, <1>6, <1>7 DEF Next

----------------------------------------------------------------------------
(* The locks exclude.                                                      *)

\* A lock has as many users as its counter says after one has come.
LEMMA UserComes ==
    ASSUME TypeOK, LockInv, NEW r \in Requests, lock[r] = Absent, NEW l \in Locks,
           lock' = [lock EXCEPT ![r] = l], refs' = [refs EXCEPT ![l] = @ + 1]
    PROVE  \A m \in Locks : refs'[m] = Cardinality(Users(m)')
<1> USE Values
<1>1. Users(l)' = Users(l) \cup {r} /\ r \notin Users(l)
  BY DEF Users, TypeOK
<1>2. \A m \in Locks \ {l} : Users(m)' = Users(m)
  BY DEF Users, TypeOK
<1>3. IsFiniteSet(Users(l))
  BY RequestsAssumption, FS_Subset DEF Users
<1>4. Cardinality(Users(l)') = Cardinality(Users(l)) + 1
  BY <1>1, <1>3, FS_AddElement
<1>5. QED  BY <1>2, <1>4 DEF LockInv, TypeOK

\* ... and after one has gone; a counter of 1 means that it was the only one.
LEMMA UserGoes ==
    ASSUME TypeOK, LockInv, NEW r \in Requests, NEW l \in Locks, lock[r] = l,
           lock' = [lock EXCEPT ![r] = Absent], refs' = [refs EXCEPT ![l] = @ - 1]
    PROVE  /\ \A m \in Locks : refs'[m] = Cardinality(Users(m)')
           /\ refs[l] = 1 => Users(l) = {r}
<1> USE Values
<1>1. Users(l)' = Users(l) \ {r} /\ r \in Users(l)
  BY DEF Users, TypeOK
<1>2. \A m \in Locks \ {l} : Users(m)' = Users(m)
  BY DEF Users, TypeOK
<1>3. IsFiniteSet(Users(l))
  BY RequestsAssumption, FS_Subset DEF Users
<1>4. Cardinality(Users(l)') = Cardinality(Users(l)) - 1
  BY <1>1, <1>3, FS_RemoveElement
<1>5. \A m \in Locks : refs'[m] = Cardinality(Users(m)')
  BY <1>2, <1>4 DEF LockInv, TypeOK
<1>6. ASSUME refs[l] = 1
      PROVE  Users(l) = {r}
  <2>1. Cardinality(Users(l) \ {r}) = 0 /\ IsFiniteSet(Users(l) \ {r})
    BY <1>1, <1>3, <1>4, <1>6, FS_Subset DEF LockInv
  <2>2. QED  BY <1>1, <2>1, FS_EmptySet
<1>7. QED  BY <1>5, <1>6

\* A handler that stays inside disturbs no lock.
LEMMA StaysInside ==
    ASSUME TypeOK, LockInv, NEW r \in Requests, at[r] \in Inside, at'[r] \in Inside,
           \A s \in Requests : s # r => at'[s] = at[s],
           UNCHANGED <<locking, upload, lock>>
    PROVE  LockInv'
  BY DEF LockInv, Users, Inside

\* A step that no handler takes, other than a crash, disturbs no lock.
LEMMA LockFrame ==
    ASSUME LockInv, UNCHANGED <<locking, at, upload, lock>>
    PROVE  LockInv'
  BY DEF LockInv, Users

\* Every step keeps the locks in order.
LEMMA LockStep ==
    ASSUME TypeOK, LockInv, [Next]_vars
    PROVE  LockInv'
<1> USE Values
<1>1. ASSUME NEW r \in Requests, Begin(r)
      PROVE  LockInv'
  <2>1. PICK u \in Uploads, kind \in {"status", "write", "complete", "cancel"} :
            Enter(r, u, kind)
    BY <1>1 DEF Begin
  <2>2. PICK l \in Locks :
            /\ IF lockOf[u] = Absent THEN refs[l] = 0 ELSE l = lockOf[u]
            /\ lockOf' = [lockOf EXCEPT ![u] = l]
            /\ refs' = [refs EXCEPT ![l] = @ + 1]
            /\ lock' = [lock EXCEPT ![r] = l]
    BY <2>1 DEF Enter
  <2>3. lock[r] = Absent
    BY <2>1 DEF Enter, LockInv
  <2>4. \A m \in Locks : refs'[m] = Cardinality(Users(m)')
    BY <2>2, <2>3, UserComes
  <2>5. \A s \in Requests : at'[s] \in Inside => holder'[lock'[s]] = s
    BY <2>1, <2>2 DEF Enter, LockInv, Inside, TypeOK
  <2>6. ASSUME NEW s \in Requests, at'[s] # "idle"
        PROVE  /\ upload'[s] \in Uploads /\ lock'[s] \in Locks
               /\ lockOf'[upload'[s]] = lock'[s]
    BY <2>1, <2>2, <2>6 DEF Enter, LockInv, TypeOK
  <2>7. \A s \in Requests : at'[s] = "idle" => lock'[s] = Absent /\ upload'[s] = Absent
    BY <2>1, <2>2 DEF Enter, LockInv, TypeOK
  <2>8. QED  BY <2>4, <2>5, <2>6, <2>7 DEF LockInv
<1>2. ASSUME NEW r \in Requests, Handle(r)
      PROVE  LockInv'
  <2>1. CASE Acquire(r)
    <3>1. \A s \in Requests : at'[s] \in Inside => holder'[lock'[s]] = s
      BY <2>1 DEF Acquire, LockInv, Inside, TypeOK
    <3>2. \A m \in Locks : refs'[m] = Cardinality(Users(m)')
      BY <2>1 DEF Acquire, LockInv, Users
    <3>3. QED  BY <2>1, <3>1, <3>2 DEF Acquire, LockInv, TypeOK
  <2>2. CASE Unlock(r)
    <3>1. \A s \in Requests : at'[s] \in Inside => holder'[lock'[s]] = s
      BY <2>2 DEF Unlock, LockInv, Inside, TypeOK
    <3>2. \A m \in Locks : refs'[m] = Cardinality(Users(m)')
      BY <2>2 DEF Unlock, LockInv, Users
    <3>3. QED  BY <2>2, <3>1, <3>2 DEF Unlock, LockInv, TypeOK
  <2>3. CASE Leave(r)
    <3>1. upload[r] \in Uploads /\ lock[r] \in Locks /\ lockOf[upload[r]] = lock[r]
      BY <2>3 DEF Leave, LockInv
    <3>2. /\ \A m \in Locks : refs'[m] = Cardinality(Users(m)')
          /\ refs[lock[r]] = 1 => Users(lock[r]) = {r}
      BY <2>3, <3>1, UserGoes DEF Leave, ForgetRequest
    <3>3. \A s \in Requests : at'[s] \in Inside => holder'[lock'[s]] = s
      BY <2>3 DEF Leave, ForgetRequest, LockInv, Inside, TypeOK
    <3>4. ASSUME NEW s \in Requests, s # r, at[s] # "idle"
          PROVE  lockOf'[upload[s]] = lock[s]
      <4>1. upload[s] = upload[r] => s \in Users(lock[r])
        BY <3>1, <3>4 DEF LockInv, Users
      <4>2. QED  BY <2>3, <3>2, <3>4, <4>1 DEF Leave, LockInv, TypeOK
    <3>5. QED  BY <2>3, <3>2, <3>3, <3>4 DEF Leave, ForgetRequest, LockInv, TypeOK
  <2>4. CASE ~(Acquire(r) \/ Unlock(r) \/ Leave(r))
    <3>1. /\ at[r] \in Inside /\ at'[r] \in Inside
          /\ \A s \in Requests : s # r => at'[s] = at[s]
          /\ UNCHANGED <<locking, upload, lock>>
      BY <1>2, <2>4
      DEF Handle, Write, Complete, Cancel, LoadFails, Status, WriteBegins, WriteRefused,
          WriteBlock, WriteFails, WriteSaves, CompleteHashes, CompleteRefused,
          CompleteRenames, CompletePublishes, CompleteForgets, CancelPart, CancelMeta,
          Loaded, TypeOK, Inside
    <3>2. QED  BY <3>1, StaysInside
  <2>5. QED  BY <2>1, <2>2, <2>3, <2>4
<1>3. ASSUME NEW u \in Uploads, Create(u) \/ Sweep(u) \/ Expire(u)
      PROVE  LockInv'
  BY <1>3, LockFrame
  DEF Create, CreatePart, CreateMeta, Sweep, SweepFinds, SweepPart, SweepMeta,
      SweepArtifact, Expire
<1>4. CASE Crash
  <2>1. \A l \in Locks : Users(l)' = {}
    BY <1>4 DEF Crash, Users
  <2>2. QED  BY <1>4, <2>1, FS_EmptySet DEF Crash, LockInv, Inside
<1>5. CASE UNCHANGED vars
  BY <1>5, LockFrame DEF vars
<1>6. QED  BY <1>1, <1>2, <1>3, <1>4, <1>5 DEF Next

\* Handlers inside with the same upload have the same lock, and it has one
\* holder.
LEMMA LockInvExcludes == LockInv => LockExclusive
  BY DEF LockInv, LockExclusive, Inside

----------------------------------------------------------------------------
(* The files.                                                              *)

\* A handler inside is the only one of its upload, and the upload exists.
LEMMA Alone ==
    ASSUME LockInv, FileInv, NEW r \in Requests, at[r] \in Inside
    PROVE  /\ upload[r] \in Uploads /\ creation[upload[r]] = "done"
           /\ \A s \in Requests : s # r /\ upload[s] = upload[r] => at[s] \notin Inside
  BY LockInvExcludes DEF LockInv, FileInv, UploadInv, Created, LockExclusive, Inside

\* A handler that touches only its own upload while it is inside disturbs no
\* other handler and no other upload.
LEMMA FileFrame ==
    ASSUME TypeOK, LockInv, FileInv, NEW r \in Requests, at[r] \in Inside,
           NEW u \in Uploads, upload[r] = u,
           UNCHANGED <<creating, upload, sweep>>,
           \A v \in Uploads : v # u =>
               /\ meta'[v] = meta[v] /\ part'[v] = part[v] /\ final'[v] = final[v]
               /\ artifact'[v] = artifact[v] /\ accepted'[v] = accepted[v],
           \A s \in Requests : s # r =>
               /\ at'[s] = at[s] /\ start'[s] = start[s] /\ length'[s] = length[s]
               /\ written'[s] = written[s] /\ body'[s] = body[s] /\ sum'[s] = sum[s]
    PROVE  /\ \A s \in Requests : s # r => HandlerInv(s)'
           /\ \A v \in Uploads : v # u => UploadInv(v)'
<1>1. ASSUME NEW s \in Requests, s # r
      PROVE  HandlerInv(s)'
  <2>1. CASE at[s] \in Inside
    <3>1. upload[s] \in Uploads /\ upload[s] # u
      BY <1>1, <2>1, Alone
    <3>2. HandlerInv(s)
      BY DEF FileInv
    <3>3. QED  BY <1>1, <3>1, <3>2 DEF HandlerInv, Answered, Verified
  <2>2. CASE at[s] \notin Inside
    BY <1>1, <2>2 DEF FileInv, HandlerInv, Inside
  <2>3. QED  BY <2>1, <2>2
<1>2. ASSUME NEW v \in Uploads, v # u
      PROVE  UploadInv(v)'
  <2>1. UploadInv(v)
    BY DEF FileInv
  <2>2. QED
    BY <1>2, <2>1 DEF UploadInv, Created, Progress, Published, Answered, Verified
<1>3. QED  BY <1>1, <1>2

\* What a handler has to show of its own upload, which exists.
LEMMA FileOwn ==
    ASSUME TypeOK, LockInv, FileInv, NEW r \in Requests, at[r] \in Inside,
           UNCHANGED <<creating, upload>>
    PROVE  Created(upload[r])'
  BY Alone DEF Created

\* Cutting a .part back to where a write began leaves what was answered.
LEMMA TruncatedAnswered ==
    ASSUME TypeOK, NEW r \in Requests, NEW u \in Uploads, Answered(u, start[r]),
           part' = IF part[u] = Absent THEN part
                   ELSE [part EXCEPT ![u] = Truncated(@, start[r])],
           UNCHANGED <<accepted, start>>
    PROVE  Answered(u, start[r])'
<1>1. start[r] \in 0..Total
  BY DEF TypeOK
<1>2. ASSUME part[u] # Absent, NEW i \in 1..start[r]
      PROVE  part'[u][i] = part[u][i]
  <2>1. part'[u] = Truncated(part[u], start[r])
    BY <1>2 DEF TypeOK
  <2>2. i \in 1..Total /\ i <= start[r]
    BY <1>1, SizeAssumption
  <2>3. QED  BY <2>1, <2>2 DEF Truncated
<1>3. part[u] = Absent => part' = part
  OBVIOUS
<1>4. QED  BY <1>2, <1>3 DEF Answered

\* The steps of WriteChunk.
LEMMA WriteStep ==
    ASSUME TypeOK, TypeOK', LockInv, FileInv, NEW r \in Requests, NEW u \in Uploads,
           upload[r] = u, Write(r)
    PROVE  HandlerInv(r)' /\ UploadInv(u)'
<1> USE Values
<1>0. /\ at[r] \in Inside /\ UNCHANGED <<creating, upload, sweep>>
      /\ artifact' = artifact /\ final' = final
  BY DEF Write, WriteBegins, WriteRefused, WriteBlock, WriteFails, WriteSaves, Loaded, Inside
<1>1. Created(u)'
  BY <1>0, FileOwn
<1>2. HandlerInv(r) /\ UploadInv(u)
  BY DEF FileInv
<1>3. CASE WriteBegins(r)
  <2>1. artifact[u] = Absent
    BY <1>2, <1>3 DEF WriteBegins, UploadInv, Published
  <2>2. HandlerInv(r)'
    BY <1>2, <1>3 DEF WriteBegins, Loaded, Fresh, TypeOK, HandlerInv, UploadInv, Progress, Answered
  <2>3. QED  BY <1>0, <1>1, <1>2, <1>3, <2>1, <2>2
             DEF WriteBegins, UploadInv, Progress, Published, Answered
<1>4. CASE WriteRefused(r)
  BY <1>0, <1>1, <1>2, <1>4
  DEF WriteRefused, HandlerInv, UploadInv, Progress, Published, Answered, Verified, TypeOK
<1>5. ASSUME at[r] = "writing"
      PROVE  /\ artifact'[u] = Absent /\ Published(u)'
             /\ start[r] \in 0..Total /\ length[r] \in 0..Total /\ written[r] \in 0..Total
             /\ body[r] \in File /\ accepted[u] \in File
             /\ part[u] # Absent => part[u] \in File
  BY <1>0, <1>2, <1>5 DEF UploadInv, Published, TypeOK
<1>6. CASE WriteBlock(r)
  <2> DEFINE k == start[r] + written[r] + 1
  <2>1. PICK b \in Blocks :
          /\ body' = [body EXCEPT ![r][k] = b]
          /\ part' = IF part[u] = Absent THEN part ELSE [part EXCEPT ![u][k] = b]
    BY <1>6 DEF WriteBlock
  <2>2. /\ at[r] = "writing" /\ at'[r] = "writing"
        /\ written'[r] = written[r] + 1 /\ written[r] < length[r]
        /\ UNCHANGED <<meta, accepted, start, length>>
    BY <1>6 DEF WriteBlock, TypeOK
  <2>3. k \in 1..Total /\ k > start[r]
    BY <1>2, <1>5, <2>2, SizeAssumption DEF HandlerInv
  <2>4. \A i \in 1..Total : body'[r][i] = IF i = k THEN b ELSE body[r][i]
    BY <1>5, <2>1, <2>2, <2>3 DEF TypeOK, File
  <2>5. part[u] = Absent => part'[u] = Absent
    BY <2>1
  <2>6. part[u] # Absent =>
          part'[u] # Absent /\ \A i \in 1..Total : part'[u][i] = IF i = k THEN b ELSE part[u][i]
    <3>1. ASSUME part[u] # Absent
          PROVE  part'[u] = [part[u] EXCEPT ![k] = b]
      BY <2>1, <3>1 DEF TypeOK
    <3>2. ASSUME part[u] # Absent
          PROVE  part'[u] \in File
      BY <1>5, <2>2, <2>3, <3>1, <3>2, ZenonT(30) DEF File
    <3>3. QED  BY <1>5, <2>2, <2>3, <3>1, <3>2 DEF File
  <2> HIDE DEF k
  <2>7. Answered(u, start[r])'
    <3>1. ASSUME part[u] # Absent, NEW i \in 1..start[r]
          PROVE  part'[u][i] = accepted[u][i] /\ part'[u][i] # Hole
      <4>1. i \in 1..Total /\ i # k
        BY <1>5, <2>2, <2>3, SizeAssumption
      <4>2. part[u][i] = accepted[u][i] /\ part[u][i] # Hole
        BY <1>2, <2>2, <3>1 DEF HandlerInv, Answered
      <4>3. QED  BY <2>6, <3>1, <4>1, <4>2
    <3>2. QED  BY <2>2, <2>5, <3>1 DEF Answered
  <2>8. \A i \in 1..Total : start'[r] < i /\ i <= start'[r] + written'[r] =>
                /\ body'[r][i] \in Blocks
                /\ part'[u] # Absent => part'[u][i] = body'[r][i]
    BY <1>2, <1>5, <2>2, <2>4, <2>5, <2>6 DEF HandlerInv, k
  <2>9. HandlerInv(r)'
    BY <1>0, <1>2, <1>5, <2>2, <2>7, <2>8 DEF HandlerInv
  <2>10. Progress(u)'
    BY <1>2, <2>2, <2>7 DEF Progress, HandlerInv
  <2>11. QED  BY <1>1, <1>5, <2>2, <2>9, <2>10 DEF UploadInv
<1>7. CASE WriteFails(r)
  <2>1. HandlerInv(r)'
    BY <1>7 DEF WriteFails, HandlerInv, TypeOK
  <2>2. Answered(u, start[r])'
    BY <1>2, <1>7, <1>5, TruncatedAnswered DEF WriteFails, HandlerInv
  <2>3. Progress(u)'
    BY <1>2, <1>7, <2>2 DEF WriteFails, HandlerInv, Progress
  <2>4. QED  BY <1>1, <1>7, <1>5, <2>1, <2>3 DEF WriteFails, UploadInv
<1>8. CASE WriteSaves(r)
  <2>1. HandlerInv(r)'
    BY <1>8 DEF WriteSaves, HandlerInv, TypeOK
  <2>2. at[r] = "writing" /\ written[r] = length[r] /\ start' = start
    BY <1>8 DEF WriteSaves
  <2>3. CASE /\ meta' = [meta EXCEPT ![u] = [received |-> start[r] + length[r], stale |-> FALSE]]
             /\ accepted' = [accepted EXCEPT ![u] = Spliced(@, start[r], length[r], body[r])]
             /\ UNCHANGED part
    <3>1. meta'[u].received = start[r] + length[r]
      BY <2>3 DEF TypeOK
    <3>2. accepted'[u] = Spliced(accepted[u], start[r], length[r], body[r])
      BY <2>3 DEF TypeOK
    <3>3. ASSUME part[u] # Absent, NEW i \in 1..(start[r] + length[r])
          PROVE  part[u][i] = accepted'[u][i] /\ part[u][i] # Hole
      <4>1. i \in 1..Total
        BY <1>2, <1>5, <2>2, SizeAssumption DEF HandlerInv
      <4>2. CASE i <= start[r]
        BY <1>2, <1>5, <2>2, <3>2, <3>3, <4>1, <4>2 DEF Spliced, HandlerInv, Answered
      <4>3. CASE i > start[r]
        <5>1. part[u][i] = body[r][i] /\ body[r][i] \in Blocks
          BY <1>2, <1>5, <2>2, <3>3, <4>1, <4>3 DEF HandlerInv
        <5>2. accepted'[u][i] = body[r][i]
          BY <1>5, <2>2, <3>2, <4>1, <4>3 DEF Spliced
        <5>3. QED  BY <5>1, <5>2, ValuesAssumption
      <4>4. QED  BY <1>5, <2>2, <4>1, <4>2, <4>3
    <3>4. Progress(u)'
      BY <2>3, <3>1, <3>3 DEF Progress, Answered
    <3>5. QED  BY <1>1, <1>5, <2>1, <2>2, <3>4 DEF UploadInv
  <2>4. CASE /\ part' = IF part[u] = Absent THEN part
                        ELSE [part EXCEPT ![u] = Truncated(@, start[r])]
             /\ UNCHANGED <<meta, accepted>>
    <3>1. Answered(u, start[r])'
      BY <1>2, <1>5, <2>2, <2>4, TruncatedAnswered DEF HandlerInv
    <3>2. Progress(u)'
      BY <1>2, <2>2, <2>4, <3>1 DEF HandlerInv, Progress
    <3>3. QED  BY <1>1, <1>5, <2>1, <2>2, <3>2 DEF UploadInv
  <2>5. QED  BY <1>8, <2>3, <2>4 DEF WriteSaves
<1>9. QED  BY <1>3, <1>4, <1>6, <1>7, <1>8 DEF Write

\* The steps of CompleteUpload.
LEMMA CompleteStep ==
    ASSUME TypeOK, TypeOK', LockInv, FileInv, NEW r \in Requests, NEW u \in Uploads,
           upload[r] = u, Complete(r)
    PROVE  HandlerInv(r)' /\ UploadInv(u)'
<1> USE Values
<1>0. /\ at[r] \in Inside /\ UNCHANGED <<creating, upload, sweep, accepted>>
  BY DEF Complete, CompleteHashes, CompleteRefused, CompleteRenames, CompletePublishes,
         CompleteForgets, Loaded, Inside
<1>1. Created(u)'
  BY <1>0, FileOwn
<1>2. HandlerInv(r) /\ UploadInv(u)
  BY DEF FileInv
<1>3. CASE CompleteHashes(r)
  <2>1. /\ meta[u].received = Total /\ meta[u] # Absent /\ part[u] # Absent
        /\ declared[u] \in {Absent, part[u]} /\ at'[r] = "hashed" /\ sum'[r] = part[u]
        /\ UNCHANGED files
    BY <1>3 DEF CompleteHashes, Loaded, Fresh, TypeOK
  <2>2. \A i \in 1..Total : part[u][i] = accepted[u][i] /\ part[u][i] # Hole
    BY <1>2, <2>1 DEF UploadInv, Progress, Answered
  <2>3. part[u] = accepted[u]
    <3>1. part[u] \in File /\ accepted[u] \in File
      BY <2>1 DEF TypeOK
    <3>2. QED  BY <2>2, <3>1, SameFile
  <2>4. HandlerInv(r)'
    BY <1>0, <2>1, <2>2, <2>3 DEF HandlerInv, Verified
  <2>5. artifact[u] = Absent
    BY <1>2, <2>1 DEF UploadInv, Published
  <2>6. QED  BY <1>0, <1>1, <1>2, <2>1, <2>4, <2>5 DEF UploadInv, Progress, Published, Answered
<1>4. CASE CompleteRefused(r)
  BY <1>0, <1>1, <1>2, <1>4
  DEF CompleteRefused, HandlerInv, UploadInv, Progress, Published, Answered, Verified, TypeOK
<1>5. CASE CompleteRenames(r)
  <2>1. artifact'[u] = Absent /\ Published(u)'
    BY <1>2, <1>5 DEF CompleteRenames, UploadInv, Published
  <2>2. Progress(u)'
    BY <1>0, <1>2, <1>5 DEF CompleteRenames, UploadInv, Progress, Answered, TypeOK
  <2>3. HandlerInv(r)'
    BY <1>0, <1>2, <1>5 DEF CompleteRenames, HandlerInv, Verified, TypeOK
  <2>4. QED  BY <1>1, <2>1, <2>2, <2>3 DEF UploadInv
<1>6. CASE CompletePublishes(r)
  <2>1. /\ Verified(u, sum[r]) /\ final[u] = sum[r] /\ part[u] = Absent /\ at[r] = "renamed"
        /\ artifact[u] = Absent
    BY <1>2, <1>6 DEF CompletePublishes, HandlerInv, UploadInv, Published
  <2>2. meta' = meta /\ at'[r] \in {"published", "returning"}
    BY <1>6 DEF CompletePublishes, TypeOK
  <2>3. HandlerInv(r)'
    BY <2>2 DEF HandlerInv
  <2>4. CASE /\ artifact' = [artifact EXCEPT ![u] = [sum |-> sum[r], stale |-> FALSE]]
             /\ UNCHANGED <<part, final>>
    <3>1. artifact'[u].sum = sum[r]
      BY <2>4 DEF TypeOK
    <3>2. \A s \in Requests : upload'[s] = u => at'[s] \notin {"writing", "hashed", "renamed"}
      <4>1. \A s \in Requests : s # r => at'[s] = at[s]
        BY <1>6 DEF CompletePublishes, TypeOK
      <4>2. QED  BY <1>0, <2>2, <4>1, Alone DEF Inside
    <3>3. Published(u)'
      BY <1>0, <2>1, <2>4, <3>1, <3>2 DEF Published, Verified
    <3>4. Progress(u)'
      BY <2>1, <2>2, <2>4 DEF Progress, Answered
    <3>5. QED  BY <1>1, <2>3, <3>3, <3>4 DEF UploadInv
  <2>5. CASE part' = [part EXCEPT ![u] = final[u]] /\ UNCHANGED artifact
    <3>1. Published(u)'
      BY <2>1, <2>5 DEF Published
    <3>2. part'[u] = sum[r]
      BY <2>1, <2>5 DEF TypeOK
    <3>3. meta[u] # Absent => meta[u].received \in 0..Total
      BY DEF TypeOK, UploadRecord
    <3>4. Progress(u)'
      BY <1>0, <2>1, <2>2, <3>2, <3>3, SizeAssumption DEF Progress, Answered, Verified
    <3>5. QED  BY <1>1, <2>3, <3>1, <3>4 DEF UploadInv
  <2>6. QED  BY <1>6, <2>4, <2>5 DEF CompletePublishes
<1>7. CASE CompleteForgets(r)
  <2>1. HandlerInv(r)'
    BY <1>7 DEF CompleteForgets, HandlerInv, TypeOK
  <2>2. Progress(u)'
    BY <1>7 DEF CompleteForgets, Progress, TypeOK
  <2>3. \A s \in Requests : at'[s] \in {"writing", "hashed", "renamed"} => at'[s] = at[s]
    BY <1>7 DEF CompleteForgets, TypeOK
  <2>4. Published(u)'
    BY <1>0, <1>2, <1>7, <2>3 DEF CompleteForgets, UploadInv, Published, Verified
  <2>5. QED  BY <1>1, <2>1, <2>2, <2>4 DEF UploadInv
<1>8. QED  BY <1>3, <1>4, <1>5, <1>6, <1>7 DEF Complete

\* The other steps under the lock.
LEMMA InsideStep ==
    ASSUME TypeOK, TypeOK', LockInv, FileInv, NEW r \in Requests, NEW u \in Uploads,
           upload[r] = u, LoadFails(r) \/ Status(r) \/ Cancel(r)
    PROVE  HandlerInv(r)' /\ UploadInv(u)'
<1> USE Values
<1>0. /\ at[r] \in Inside /\ at'[r] \in {"returning", "cancelled"}
      /\ \A s \in Requests : s # r => at'[s] = at[s]
      /\ meta'[u] \in {meta[u], Absent} /\ part'[u] \in {part[u], Absent}
      /\ UNCHANGED <<creating, upload, sweep, accepted, final, artifact>>
  BY DEF LoadFails, Status, Cancel, CancelPart, CancelMeta, Loaded, Inside, TypeOK
<1>1. Created(u)'
  BY <1>0, FileOwn
<1>2. UploadInv(u)
  BY DEF FileInv
<1>3. HandlerInv(r)'
  BY <1>0 DEF HandlerInv
<1>4. Progress(u)' /\ Published(u)'
  BY <1>0, <1>2 DEF UploadInv, Progress, Published, Answered, Verified
<1>5. QED  BY <1>1, <1>3, <1>4 DEF UploadInv

\* The steps of a handler.
LEMMA HandleStep ==
    ASSUME TypeOK, TypeOK', LockInv, FileInv, NEW r \in Requests, Begin(r) \/ Handle(r)
    PROVE  FileInv'
<1> USE Values
<1>1. CASE Write(r) \/ Complete(r) \/ LoadFails(r) \/ Status(r) \/ Cancel(r)
  <2>1. /\ at[r] \in Inside /\ UNCHANGED <<creating, upload, sweep>>
        /\ \A v \in Uploads : v # upload[r] =>
               /\ meta'[v] = meta[v] /\ part'[v] = part[v] /\ final'[v] = final[v]
               /\ artifact'[v] = artifact[v] /\ accepted'[v] = accepted[v]
        /\ \A s \in Requests : s # r =>
               /\ at'[s] = at[s] /\ start'[s] = start[s] /\ length'[s] = length[s]
               /\ written'[s] = written[s] /\ body'[s] = body[s] /\ sum'[s] = sum[s]
    BY <1>1
    DEF Write, Complete, Cancel, LoadFails, Status, WriteBegins, WriteRefused,
        WriteBlock, WriteFails, WriteSaves, CompleteHashes, CompleteRefused,
        CompleteRenames, CompletePublishes, CompleteForgets, CancelPart, CancelMeta,
        Loaded, TypeOK, Inside
  <2>2. upload[r] \in Uploads
    BY <2>1, Alone
  <2>3. HandlerInv(r)' /\ \A u \in Uploads : u = upload[r] => UploadInv(u)'
    BY <1>1, <2>2, WriteStep, CompleteStep, InsideStep
  <2>4. /\ \A s \in Requests : s # r => HandlerInv(s)'
        /\ \A v \in Uploads : v # upload[r] => UploadInv(v)'
    BY <2>1, <2>2, FileFrame
  <2>5. QED  BY <2>3, <2>4 DEF FileInv
<1>2. CASE Begin(r) \/ Acquire(r) \/ Unlock(r) \/ Leave(r)
  <2>1. /\ UNCHANGED <<files, creating, sweep, accepted>>
        /\ at'[r] \in {"idle", "waiting", "locked", "leaving"}
        /\ \/ written'[r] = 0 \/ at'[r] = "leaving"
           \/ written'[r] = written[r] /\ at[r] \in {"idle", "waiting"}
        /\ upload'[r] \in {Absent, upload[r]} \/ creation[upload'[r]] = "done"
        /\ \A s \in Requests : s # r =>
               /\ at'[s] = at[s] /\ start'[s] = start[s] /\ length'[s] = length[s]
               /\ written'[s] = written[s] /\ body'[s] = body[s] /\ sum'[s] = sum[s]
               /\ upload'[s] = upload[s]
    BY <1>2 DEF Begin, Enter, Acquire, Unlock, Leave, ForgetRequest, TypeOK
  <2>2. HandlerInv(r)'
    BY <2>1 DEF FileInv, HandlerInv
  <2>3. \A s \in Requests : s # r => HandlerInv(s)'
    BY <2>1 DEF FileInv, HandlerInv, Answered, Verified
  <2>4. ASSUME NEW u \in Uploads
        PROVE  UploadInv(u)'
    <3>1. UploadInv(u)
      BY DEF FileInv
    <3>2. QED
      BY <2>1, <3>1 DEF UploadInv, Created, Progress, Published, Answered, Verified
  <2>5. QED  BY <2>2, <2>3, <2>4 DEF FileInv
<1>3. QED  BY <1>1, <1>2 DEF Handle

\* The steps outside the lock: creating, sweeping, expiring, and the crash.
LEMMA ElsewhereStep ==
    ASSUME TypeOK, LockInv, FileInv,
           (\E u \in Uploads : Create(u) \/ Sweep(u) \/ Expire(u)) \/ Crash
    PROVE  FileInv'
<1> USE Values
<1>1. ASSUME NEW u \in Uploads, CreatePart(u)
      PROVE  FileInv'
  <2>1. ASSUME NEW r \in Requests
        PROVE  HandlerInv(r)'
    <3>1. HandlerInv(r) /\ upload[r] # u
      BY <1>1 DEF FileInv, UploadInv, Created, CreatePart
    <3>2. at[r] \in Inside => upload[r] \in Uploads
      BY Alone
    <3>3. QED  BY <1>1, <3>1, <3>2 DEF CreatePart, HandlerInv, Answered, Verified, TypeOK, Inside
  <2>2. ASSUME NEW v \in Uploads
        PROVE  UploadInv(v)'
    <3>1. UploadInv(v)
      BY DEF FileInv
    <3>2. CASE v = u
      BY <1>1, <3>1, <3>2 DEF CreatePart, UploadInv, Created, Progress, Published
    <3>3. CASE v # u
      BY <1>1, <3>1, <3>3
      DEF CreatePart, UploadInv, Created, Progress, Published, Answered, Verified, TypeOK
    <3>4. QED  BY <3>2, <3>3
  <2>3. QED  BY <2>1, <2>2 DEF FileInv
<1>2. ASSUME NEW u \in Uploads, CreateMeta(u)
      PROVE  FileInv'
  <2>1. /\ meta[u] = Absent /\ artifact[u] = Absent /\ (\A r \in Requests : upload[r] # u)
        /\ \A v \in Uploads : v # u =>
               meta'[v] = meta[v] /\ part'[v] = part[v] /\ creation'[v] = creation[v]
        /\ creation'[u] = "done"
        /\ meta'[u] # Absent => meta'[u].received = 0
        /\ UNCHANGED <<final, artifact, declared, locking, at, local, sweep, accepted>>
    BY <1>2 DEF CreateMeta, FileInv, UploadInv, Created, TypeOK
  <2>2. ASSUME NEW r \in Requests
        PROVE  HandlerInv(r)'
    <3>1. HandlerInv(r) /\ upload[r] # u
      BY <2>1 DEF FileInv
    <3>2. at[r] \in Inside => upload[r] \in Uploads
      BY Alone
    <3>3. QED  BY <2>1, <3>1, <3>2 DEF HandlerInv, Answered, Verified, Inside
  <2>3. ASSUME NEW v \in Uploads
        PROVE  UploadInv(v)'
    <3>1. UploadInv(v)
      BY DEF FileInv
    <3>2. CASE v = u
      <4>1. Progress(u)'
        <5>1. \A i \in 1..0 : FALSE
          OBVIOUS
        <5>2. QED  BY <2>1, <5>1 DEF Progress, Answered
      <4>2. QED  BY <2>1, <3>1, <3>2, <4>1 DEF UploadInv, Created, Published
    <3>3. CASE v # u
      BY <2>1, <3>1, <3>3 DEF UploadInv, Created, Progress, Published, Answered, Verified
    <3>4. QED  BY <3>2, <3>3
  <2>4. QED  BY <2>2, <2>3 DEF FileInv
<1>3. ASSUME NEW u \in Uploads, Sweep(u) \/ Expire(u)
      PROVE  FileInv'
  <2>1. ASSUME NEW v \in Uploads
        PROVE  /\ part'[v] \in {part[v], Absent}
               /\ meta'[v] # Absent => meta[v] # Absent /\ meta'[v].received = meta[v].received
               /\ artifact'[v] # Absent =>
                     /\ artifact[v] # Absent /\ artifact'[v].sum = artifact[v].sum
                     /\ final'[v] = final[v]
                     /\ ~artifact'[v].stale => ~artifact[v].stale
               /\ artifact[v] = Absent => artifact'[v] = Absent /\ final'[v] = final[v]
               /\ sweep'[v] # sweep[v] => sweep[v] # "no" \/ meta[v] # Absent
    <3>1. CASE SweepFinds(u) \/ SweepPart(u) \/ SweepMeta(u) \/ SweepArtifact(u)
      BY <3>1 DEF SweepFinds, SweepPart, SweepMeta, SweepArtifact, TypeOK
    <3>2. CASE Expire(u)
      <4>1. CASE meta' = [meta EXCEPT ![u].stale = TRUE] /\ artifact' = artifact /\ Fresh(u)
        <5>1. meta'[v] # Absent => meta[v] # Absent /\ meta'[v].received = meta[v].received
          BY <4>1 DEF Fresh, TypeOK, UploadRecord
        <5>2. QED  BY <3>2, <4>1, <5>1 DEF Expire
      <4>2. CASE artifact' = [artifact EXCEPT ![u].stale = TRUE] /\ meta' = meta /\ artifact[u] # Absent
        <5>1. artifact'[v] # Absent =>
                /\ artifact[v] # Absent /\ artifact'[v].sum = artifact[v].sum
                /\ ~artifact'[v].stale => ~artifact[v].stale
          BY <4>2 DEF TypeOK, ArtifactRecord
        <5>2. artifact[v] = Absent => artifact'[v] = Absent
          BY <4>2 DEF TypeOK
        <5>3. QED  BY <3>2, <4>2, <5>1, <5>2 DEF Expire
      <4>3. QED  BY <3>2, <4>1, <4>2 DEF Expire
    <3>3. QED  BY <1>3, <3>1, <3>2 DEF Sweep
  <2>2. UNCHANGED <<creating, locking, at, local, accepted>>
    BY <1>3 DEF Sweep, SweepFinds, SweepPart, SweepMeta, SweepArtifact, Expire
  <2>3. ASSUME NEW r \in Requests
        PROVE  HandlerInv(r)'
    <3>1. HandlerInv(r)
      BY DEF FileInv
    <3>2. at[r] \in Inside => upload[r] \in Uploads
      BY Alone
    <3>3. at[r] = "renamed" => artifact[upload[r]] = Absent
      BY <3>2 DEF FileInv, UploadInv, Published, Inside
    <3>4. QED  BY <2>1, <2>2, <3>1, <3>2, <3>3 DEF HandlerInv, Answered, Verified, Inside
  <2>4. ASSUME NEW v \in Uploads
        PROVE  UploadInv(v)'
    <3>1. UploadInv(v)
      BY DEF FileInv
    <3>2. QED
      BY <2>1, <2>2, <3>1 DEF UploadInv, Created, Progress, Published, Answered, Verified
  <2>5. QED  BY <2>3, <2>4 DEF FileInv
<1>4. CASE Crash
  <2>1. \A r \in Requests : HandlerInv(r)'
    BY <1>4 DEF Crash, HandlerInv
  <2>2. ASSUME NEW v \in Uploads
        PROVE  UploadInv(v)'
    <3>1. UploadInv(v)
      BY DEF FileInv
    <3>2. Created(v)' /\ Progress(v)'
      BY <1>4, <3>1 DEF Crash, UploadInv, Created, Progress, Answered
    <3>3. Published(v)'
      BY <1>4, <3>1 DEF Crash, UploadInv, Published, Verified
    <3>4. QED  BY <3>2, <3>3 DEF UploadInv
  <2>3. QED  BY <2>1, <2>2 DEF FileInv
<1>5. QED  BY <1>1, <1>2, <1>3, <1>4 DEF Create

\* Nothing happens.
LEMMA FileStutter == ASSUME FileInv, UNCHANGED vars PROVE FileInv'
  BY DEF FileInv, HandlerInv, UploadInv, Created, Progress, Published, Answered, Verified, vars

\* Every step keeps the invariant.
LEMMA IInvStep == IInv /\ [Next]_vars => IInv'
<1> SUFFICES ASSUME IInv, [Next]_vars PROVE IInv'
  OBVIOUS
<1>1. TypeOK /\ LockInv /\ FileInv /\ TypeOK' /\ LockInv'
  BY TypeStep, LockStep DEF IInv, FileInv
<1>2. FileInv'
  BY <1>1, HandleStep, ElsewhereStep, FileStutter DEF Next
<1>3. QED  BY <1>1, <1>2 DEF IInv

----------------------------------------------------------------------------
(* The theorems.                                                           *)

\* The locks are in order and every file and every handler in the middle of
\* something agrees with what the clients were answered.
THEOREM IInvCorrect == Spec => []IInv
  BY InitInv, IInvStep, PTL DEF Spec

\* Every variable keeps its type; no offset passes the size of the upload.
THEOREM TypeCorrect == Spec => []TypeOK
<1>1. IInv => TypeOK
  BY DEF IInv
<1>2. QED  BY <1>1, IInvCorrect, PTL

\* lockTransfer: however locks come and go, two handlers of one upload are
\* never inside at the same time.
THEOREM LockExclusiveCorrect == Spec => []LockExclusive
<1>1. IInv => LockExclusive
  BY LockInvExcludes DEF IInv
<1>2. QED  BY <1>1, IInvCorrect, PTL

\* WriteChunk: whatever fails, expires, is swept or crashes, the blocks below
\* the offset of an upload that has its .part are the answered ones.
THEOREM OffsetBackedCorrect == Spec => []OffsetBacked
<1>1. IInv => OffsetBacked
  BY DEF IInv, FileInv, UploadInv, Progress, Answered, OffsetBacked
<1>2. QED  BY <1>1, IInvCorrect, PTL

\* CompleteUpload: an artifact in force is what the clients were told is
\* stored, what was declared and what its checksum says.
THEOREM ArtifactFaithfulCorrect == Spec => []ArtifactFaithful
<1>1. IInv => ArtifactFaithful
  <2> SUFFICES ASSUME IInv, NEW u \in Uploads, artifact[u] # Absent, ~artifact[u].stale
               PROVE  /\ final[u] # Absent
                      /\ final[u] = artifact[u].sum /\ final[u] = accepted[u]
                      /\ declared[u] \in {Absent, final[u]}
                      /\ \A i \in 1..Total : final[u][i] # Hole
    BY DEF ArtifactFaithful
  <2>1. Verified(u, final[u]) /\ final[u] = artifact[u].sum
    BY DEF IInv, FileInv, UploadInv, Published
  <2>2. accepted[u] \in File
    BY DEF IInv, TypeOK
  <2>3. QED  BY <2>1, <2>2, Values DEF Verified
<1>2. QED  BY <1>1, IInvCorrect, PTL

\* WriteChunk: while an upload exists, no step lowers its offset or changes a
\* block that was answered.
THEOREM AnsweredStaysCorrect == Spec => AnsweredStays
<1>1. ASSUME IInv, [Next]_vars, NEW u \in Uploads, meta[u] # Absent
      PROVE  /\ meta'[u] # Absent => meta'[u].received >= meta[u].received
             /\ \A i \in 1..meta[u].received : accepted'[u][i] = accepted[u][i]
  <2>1. meta[u] \in UploadRecord /\ meta[u].received \in 0..Total /\ creation[u] = "done"
    BY <1>1 DEF IInv, TypeOK, UploadRecord, FileInv, UploadInv, Created
  <2>2. ASSUME NEW r \in Requests, WriteSaves(r), upload[r] = u
        PROVE  /\ meta'[u] # Absent => meta'[u].received >= meta[u].received
               /\ \A i \in 1..meta[u].received : accepted'[u][i] = accepted[u][i]
    <3>0. CASE UNCHANGED <<meta, accepted>>
      BY <2>1, <3>0
    <3>1. CASE /\ meta' = [meta EXCEPT ![u] = [received |-> start[r] + length[r], stale |-> FALSE]]
               /\ accepted' = [accepted EXCEPT ![u] = Spliced(@, start[r], length[r], body[r])]
      <4>1. meta[u].received = start[r] /\ start[r] \in 0..Total /\ length[r] \in 0..Total
        <5>1. HandlerInv(r) /\ at[r] = "writing"
          BY <1>1, <2>2 DEF IInv, FileInv, WriteSaves
        <5>2. QED  BY <1>1, <2>2, <5>1 DEF IInv, HandlerInv, TypeOK
      <4>2. meta'[u].received = start[r] + length[r]
        BY <1>1, <3>1 DEF IInv, TypeOK
      <4>3. accepted'[u] = Spliced(accepted[u], start[r], length[r], body[r])
        BY <1>1, <3>1 DEF IInv, TypeOK
      <4>4. ASSUME NEW i \in 1..start[r]
            PROVE  accepted'[u][i] = accepted[u][i]
        <5>1. i \in 1..Total /\ i <= start[r]
          BY <4>1, SizeAssumption
        <5>2. QED  BY <4>3, <5>1 DEF Spliced
      <4>5. QED  BY <4>1, <4>2, <4>4
    <3>2. QED  BY <2>2, <3>0, <3>1 DEF WriteSaves
  <2>3. CASE /\ accepted'[u] = accepted[u]
             /\ meta'[u] # Absent => meta'[u].received = meta[u].received
    BY <2>1, <2>3
  <2>4. ASSUME NEW r \in Requests, Begin(r) \/ Handle(r), ~WriteSaves(r)
        PROVE  accepted' = accepted /\ meta'[u] \in {meta[u], Absent}
    BY <1>1, <2>4
    DEF Begin, Handle, Enter, Acquire, Unlock, Leave, Write, Complete, Cancel, LoadFails,
        Status, WriteBegins, WriteRefused, WriteBlock, WriteFails, CompleteHashes,
        CompleteRefused, CompleteRenames, CompletePublishes, CompleteForgets, CancelPart,
        CancelMeta, IInv, TypeOK
  <2>5. ASSUME NEW r \in Requests, WriteSaves(r), upload[r] # u
        PROVE  accepted'[u] = accepted[u] /\ meta'[u] = meta[u]
    BY <1>1, <2>5 DEF WriteSaves, IInv, TypeOK
  <2>6. ASSUME NEW v \in Uploads, Create(v) \/ Sweep(v) \/ Expire(v)
        PROVE  /\ accepted' = accepted
               /\ meta'[u] # Absent => meta'[u].received = meta[u].received
    <3>1. accepted' = accepted
      BY <2>6 DEF Create, CreatePart, CreateMeta, Sweep, SweepFinds, SweepPart, SweepMeta,
                  SweepArtifact, Expire
    <3>2. CASE Expire(v)
      BY <1>1, <2>1, <3>1, <3>2 DEF Expire, IInv, TypeOK, UploadRecord
    <3>3. CASE Create(v) \/ Sweep(v)
      BY <1>1, <2>1, <3>1, <3>3
      DEF Create, CreatePart, CreateMeta, Sweep, SweepFinds, SweepPart, SweepMeta,
          SweepArtifact, IInv, TypeOK
    <3>4. QED  BY <2>6, <3>2, <3>3
  <2>7. CASE Crash \/ UNCHANGED vars
    BY <2>1, <2>7 DEF Crash, vars
  <2>8. ASSUME NEW r \in Requests, Begin(r) \/ Handle(r)
        PROVE  /\ meta'[u] # Absent => meta'[u].received >= meta[u].received
               /\ \A i \in 1..meta[u].received : accepted'[u][i] = accepted[u][i]
    BY <2>2, <2>3, <2>4, <2>5, <2>8
  <2>9. QED  BY <1>1, <2>3, <2>6, <2>7, <2>8 DEF Next
<1>2. IInv /\ [Next]_vars =>
        [\A u \in Uploads :
           meta[u] # Absent =>
              /\ meta'[u] # Absent => meta'[u].received >= meta[u].received
              /\ \A i \in 1..meta[u].received : accepted'[u][i] = accepted[u][i]]_vars
  BY <1>1
<1>3. QED  BY <1>2, IInvCorrect, PTL DEF Spec, AnsweredStays
=============================================================================
